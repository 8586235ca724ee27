------------------------ MODULE SocketTransportProofs ------------------------
(***************************************************************************)
(* Proofs about SocketTransport, for any number of writers and any worker. *)
(***************************************************************************)
EXTENDS SocketTransport, TLAPS

\* The goroutines inside the function that closeOnce runs, and those that hold
\* writeMu.
InOnce(p) == pc[p] \in {"closeChan", "closeLock", "closeWrite", "closeConn"}
InLock(p) == pc[p] \in {"write", "closeWrite", "closeConn"}

\* writeMu excludes: its holder is the one in a critical section.
LockInv == \A p \in Processes : InLock(p) => writeMu = p

\* closeOnce excludes: the once function runs in one goroutine, while the once
\* is running, and what it has done so far shows in closes and conn.
OnceInv ==
    /\ \A p, q \in Processes : InOnce(p) /\ InOnce(q) => p = q
    /\ \A p \in Processes :
          /\ InOnce(p) => once = "running"
          /\ pc[p] = "closeChan" => closes = 0
          /\ InOnce(p) /\ pc[p] # "closeChan" => closes = 1
    /\ once = "no" => closes = 0
    /\ once = "done" => closes = 1 /\ conn = "closed"
    /\ closes <= 1

\* The flag is up only between connect's store and the next close, and nothing
\* happens to the socket before it is dialled.
ConnectInv ==
    /\ pc["connect"] \in {"dial", "dialFailed"} =>
          /\ once = "no" /\ conn = "none"
          /\ \A p \in Processes \ {"connect"} : pc[p] \in {"off", "idle"}
    /\ pc["connect"] \notin {"ended", "gone", "idle", "lock", "write"}
    /\ connected => pc["connect"] = "up"
    /\ pc["connect"] = "failed" => once = "done"

\* The DISCONNECT is the last frame, and the connection is closed before the
\* lock it was written under is released.
ByeInv ==
    \A i \in DOMAIN wire :
        wire[i] = "bye" =>
            /\ i = Len(wire)
            /\ conn = "closed" \/ \E p \in Processes : pc[p] = "closeConn"

\* The credentials are the first frame, if any but the DISCONNECT is written:
\* the reader finds OPEN before anything else and answers it before it reads on.
\* The worker's ack, and so every event, comes after them.
AuthInv ==
    /\ acked \/ (\E i \in DOMAIN inbox : inbox[i] = "ack") => Sent("auth")
    /\ \A i \in DOMAIN inbox :
          inbox[i] = "open" =>
              i = 1 /\ pc["reader"] \notin {"lock", "write"} /\ ~Sent("auth")
    /\ pc["reader"] = "read" /\ conn = "open" =>
          Sent("auth") \/ (inbox # <<>> /\ inbox[1] = "open")
    /\ pc["reader"] \in {"lock", "write"} =>
          \/ out["reader"] = "auth" /\ ~Sent("auth")
          \/ out["reader"] = "pong" /\ (conn = "open" => Sent("auth"))
    /\ ~Sent("auth") => \A i \in DOMAIN wire : wire[i] = "bye"
    /\ pc["connect"] = "dial" => ~Sent("auth")

\* Who has got how far: only writers and the reader are at an ordinary write,
\* the writers with an event and once connect is up, which takes the ack; and
\* the socket that connect has dialled has a connection.
UpInv ==
    /\ pc["connect"] \in {"store", "up"} => acked
    /\ pc["closer"] \notin {"lock", "write"}
    /\ \A p \in Writers : pc[p] # "idle" =>
          pc["connect"] = "up" /\ pc[p] \in {"lock", "write"} /\ out[p] = "emit"
    /\ conn = "none" => pc["connect"] \in {"dial", "dialFailed"}

Exclusions == LockInv /\ OnceInv /\ ConnectInv

TransportInv == TypeOK /\ Exclusions

\* Every action keeps the types.
LEMMA StepTypes == TypeOK /\ [Next]_vars => TypeOK'
<1> SUFFICES ASSUME TypeOK, [Next]_vars PROVE TypeOK'
    OBVIOUS
<1> USE DEF TypeOK, Goto, Pcs, OutFrames, InFrames
<1>1. CASE CallClose
  BY <1>1 DEF CallClose
<1>2. ASSUME NEW p \in Processes, Emit(p) PROVE TypeOK'
  BY <1>2 DEF Emit
<1>3. ASSUME NEW p \in Processes, Step(p) PROVE TypeOK'
  <2>1. CASE ConnectStep
    <3>1. CASE Dial
      <4>1. <<"open">> \in Seq(InFrames)
        OBVIOUS
      <4>2. inbox' \in Seq(InFrames)
        BY <3>1, <4>1 DEF Dial
      <4>3. pc' \in [Processes -> Pcs]
        BY <3>1 DEF Dial, Processes
      <4> QED
        BY <3>1, <4>2, <4>3 DEF Dial
    <3>2. CASE SelectConnected
      BY <3>2 DEF SelectConnected, Processes
    <3>3. CASE StoreConnected
      BY <3>3 DEF StoreConnected, Processes
    <3>4. CASE SelectTimeout
      BY <3>4 DEF SelectTimeout, Processes
    <3> QED
      BY <2>1, <3>1, <3>2, <3>3, <3>4 DEF ConnectStep
  <2>2. CASE Read
    BY <2>2 DEF Read, AfterFrame, Reply, Processes
  <2>3. CASE ReadError
    BY <2>3 DEF ReadError
  <2>4. CASE LockWrite(p)
    BY <2>4 DEF LockWrite, Lock
  <2>5. CASE Write(p)
    BY <2>5 DEF Write, Send, AfterWrite
  <2>6. CASE EnterOnce(p)
    BY <2>6 DEF EnterOnce
  <2>9. CASE CloseChan(p)
    BY <2>9 DEF CloseChan
  <2>10. CASE CloseLock(p)
    BY <2>10 DEF CloseLock, Lock
  <2>7. CASE CloseWrite(p)
    BY <2>7 DEF CloseWrite, Send
  <2>8. CASE SkipOnce(p) \/ CloseConn(p)
    BY <2>8 DEF SkipOnce, CloseConn, AfterClose
  <2> QED
    BY <1>3, <2>1, <2>2, <2>3, <2>4, <2>5, <2>6, <2>7, <2>8, <2>9, <2>10
    DEF Step, ReadStep, CloseStep
<1>4. ASSUME NEW f \in InFrames \ {"open"}, WorkerSend(f) PROVE TypeOK'
  BY <1>4 DEF WorkerSend
<1>5. CASE Break \/ Stall
  BY <1>5 DEF Break, Stall
<1>6. CASE UNCHANGED vars
  BY <1>6 DEF vars
<1> QED
  BY <1>1, <1>2, <1>3, <1>4, <1>5, <1>6 DEF Next

\* Every action keeps the two exclusions and what follows from them.
LEMMA StepTransport == TransportInv /\ [Next]_vars => TransportInv'
<1> SUFFICES ASSUME TransportInv, [Next]_vars PROVE Exclusions'
    BY StepTypes DEF TransportInv
<1> USE DEF TransportInv, TypeOK, Exclusions, LockInv, OnceInv, ConnectInv,
            InOnce, InLock, Goto
<1> USE WritersAssumption DEF Processes
<1>1. CASE CallClose
  BY <1>1 DEF CallClose
<1>2. ASSUME NEW p \in Processes, Emit(p) PROVE Exclusions'
  BY <1>2 DEF Emit
<1>3. ASSUME NEW p \in Processes, Step(p) PROVE Exclusions'
  <2>1. CASE ConnectStep
    <3>1. CASE Dial
      <4>1. CASE pc' = [pc EXCEPT !["connect"] = "wait", !["reader"] = "read"]
        BY <3>1, <4>1 DEF Dial
      <4>2. CASE pc' = [pc EXCEPT !["connect"] = "dialFailed"]
        BY <3>1, <4>2 DEF Dial
      <4> QED
        BY <3>1, <4>1, <4>2 DEF Dial
    <3>2. CASE SelectConnected
      BY <3>2 DEF SelectConnected
    <3>3. CASE StoreConnected
      BY <3>3 DEF StoreConnected
    <3>4. CASE SelectTimeout
      BY <3>4 DEF SelectTimeout
    <3> QED
      BY <2>1, <3>1, <3>2, <3>3, <3>4 DEF ConnectStep
  <2>2. CASE Read
    BY <2>2 DEF Read, AfterFrame, Reply
  <2>3. CASE ReadError
    BY <2>3 DEF ReadError
  <2>4. CASE LockWrite(p)
    BY <2>4 DEF LockWrite, Lock
  <2>5. CASE Write(p)
    BY <2>5 DEF Write, Send, AfterWrite
  <2>6. CASE EnterOnce(p)
    BY <2>6 DEF EnterOnce
  <2>9. CASE CloseChan(p)
    BY <2>9 DEF CloseChan
  <2>10. CASE CloseLock(p)
    BY <2>10 DEF CloseLock, Lock
  <2>7. CASE CloseWrite(p)
    BY <2>7 DEF CloseWrite, Send
  <2>8. CASE SkipOnce(p)
    BY <2>8 DEF SkipOnce, AfterClose
  <2>11. CASE CloseConn(p)
    BY <2>11 DEF CloseConn, AfterClose
  <2> QED
    BY <1>3, <2>1, <2>2, <2>3, <2>4, <2>5, <2>6, <2>7, <2>8, <2>9, <2>10, <2>11
    DEF Step, ReadStep, CloseStep
<1>4. ASSUME NEW f \in InFrames \ {"open"}, WorkerSend(f) PROVE Exclusions'
  BY <1>4 DEF WorkerSend
<1>5. CASE Break \/ Stall
  BY <1>5 DEF Break, Stall
<1>6. CASE UNCHANGED vars
  BY <1>6 DEF vars
<1> QED
  BY <1>1, <1>2, <1>3, <1>4, <1>5, <1>6 DEF Next

\* Every action keeps the DISCONNECT last: whoever appends to the wire holds
\* writeMu, so nobody is between the DISCONNECT and conn.Close.
LEMMA StepBye == TransportInv /\ ByeInv /\ [Next]_vars => ByeInv'
<1> SUFFICES ASSUME TransportInv, ByeInv, [Next]_vars PROVE ByeInv'
    OBVIOUS
<1> USE DEF TransportInv, TypeOK, Exclusions, Goto
<1>0. ASSUME UNCHANGED wire,
             conn = "closed" => conn' = "closed",
             \A p \in Processes :
                 pc[p] = "closeConn" => pc'[p] = "closeConn" \/ conn' = "closed"
      PROVE  ByeInv'
  BY <1>0 DEF ByeInv
<1>1. CASE CallClose \/ Break \/ Stall
  BY <1>0, <1>1 DEF CallClose, Break, Stall
<1>2. ASSUME NEW p \in Processes, Emit(p) PROVE ByeInv'
  BY <1>0, <1>2 DEF Emit
<1>3. ASSUME NEW p \in Processes, Step(p) PROVE ByeInv'
  <2>1. CASE Dial
    BY <1>0, <2>1 DEF Dial, ConnectInv, Processes
  <2>2. CASE SelectConnected \/ StoreConnected \/ SelectTimeout
    BY <1>0, <2>2 DEF SelectConnected, StoreConnected, SelectTimeout
  <2>3. CASE Read \/ ReadError
    BY <1>0, <2>3 DEF Read, ReadError
  <2>4. CASE LockWrite(p)
    BY <1>0, <2>4 DEF LockWrite, Lock
  <2>5. CASE Write(p)
    <3>1. CASE UNCHANGED wire
      BY <1>0, <2>5, <3>1 DEF Write
    <3>2. CASE conn = "open" /\ wire' = Append(wire, out[p])
      <4>1. ~ \E q \in Processes : pc[q] = "closeConn"
        BY <2>5 DEF Write, LockInv, InLock
      <4>2. \A i \in DOMAIN wire : wire[i] # "bye"
        BY <3>2, <4>1 DEF ByeInv
      <4>3. \A i \in DOMAIN wire' : wire'[i] # "bye"
        BY <3>2, <4>2
      <4> QED
        BY <4>3 DEF ByeInv
    <3> QED
      BY <2>5, <3>1, <3>2 DEF Write, Send
  <2>6. CASE EnterOnce(p) \/ SkipOnce(p) \/ CloseChan(p)
    BY <1>0, <2>6 DEF EnterOnce, SkipOnce, CloseChan
  <2>7. CASE CloseLock(p)
    BY <1>0, <2>7 DEF CloseLock, Lock
  <2>8. CASE CloseWrite(p)
    <3>1. CASE UNCHANGED wire
      BY <1>0, <2>8, <3>1 DEF CloseWrite
    <3>2. CASE conn = "open" /\ wire' = Append(wire, "bye")
      <4>1. ~ \E q \in Processes : pc[q] = "closeConn"
        BY <2>8 DEF CloseWrite, LockInv, InLock
      <4>2. \A i \in DOMAIN wire : wire[i] # "bye"
        BY <3>2, <4>1 DEF ByeInv
      <4>3. \A i \in DOMAIN wire' : wire'[i] = "bye" => i = Len(wire')
        BY <3>2, <4>2
      <4>4. pc'[p] = "closeConn"
        BY <2>8 DEF CloseWrite
      <4> QED
        BY <4>3, <4>4 DEF ByeInv
    <3> QED
      BY <2>8, <3>1, <3>2 DEF CloseWrite, Send
  <2>9. CASE CloseConn(p)
    BY <1>0, <2>9 DEF CloseConn
  <2> QED
    BY <1>3, <2>1, <2>2, <2>3, <2>4, <2>5, <2>6, <2>7, <2>8, <2>9
    DEF Step, ConnectStep, ReadStep, CloseStep
<1>4. ASSUME NEW f \in InFrames \ {"open"}, WorkerSend(f) PROVE ByeInv'
  BY <1>0, <1>4 DEF WorkerSend
<1>5. CASE UNCHANGED vars
  BY <1>0, <1>5 DEF vars
<1> QED
  BY <1>1, <1>2, <1>3, <1>4, <1>5 DEF Next

\* A new socket satisfies every part of the invariant.
LEMMA InitTransport == Init => TransportInv /\ ByeInv
<1> SUFFICES ASSUME Init PROVE TransportInv /\ ByeInv
    OBVIOUS
<1>1. /\ \A p \in Processes : pc[p] \in {"dial", "off", "idle"}
      /\ pc["connect"] = "dial"
      /\ \A p \in Processes \ {"connect"} : pc[p] \in {"off", "idle"}
  BY DEF Init, Processes
<1>2. pc \in [Processes -> Pcs]
  BY DEF Init, Pcs
<1>3. TypeOK
  <2>1. /\ out \in [Processes -> OutFrames \ {"bye"}]
        /\ inbox \in Seq(InFrames) /\ wire \in Seq(OutFrames)
    BY DEF Init, OutFrames
  <2>2. /\ conn \in {"none", "open", "broken", "closed"}
        /\ frames \in Nat /\ emits \in Nat /\ closes \in Nat
        /\ once \in {"no", "running", "done"}
        /\ writeMu \in Processes \cup {"nobody"}
    BY DEF Init
  <2>3. acked \in BOOLEAN /\ connected \in BOOLEAN /\ stalled \in BOOLEAN
    BY DEF Init
  <2> QED
    BY <1>2, <2>1, <2>2, <2>3 DEF TypeOK
<1>4. Exclusions
  BY <1>1 DEF Init, Exclusions, LockInv, OnceInv, ConnectInv, InOnce, InLock
<1>5. ByeInv
  BY DEF Init, ByeInv
<1> QED
  BY <1>3, <1>4, <1>5 DEF TransportInv

\* The invariant holds in every state of a socket.
LEMMA AlwaysTransport == Spec => [](TransportInv /\ ByeInv)
<1>1. (TransportInv /\ ByeInv) /\ [Next]_vars => (TransportInv /\ ByeInv)'
  BY StepTransport, StepBye
<1> QED
  BY InitTransport, <1>1, PTL DEF Spec

\* Type correctness of the socket.
THEOREM SocketTypes == Spec => []TypeOK
<1>1. TransportInv => TypeOK
  BY DEF TransportInv
<1> QED
  BY <1>1, AlwaysTransport, PTL

\* An error of connect leaves nothing behind.
THEOREM FailedConnects == Spec => []FailedConnectTearsDown
<1>1. TransportInv => FailedConnectTearsDown
  BY DEF TransportInv, Exclusions, OnceInv, ConnectInv, FailedConnectTearsDown,
         TypeOK
<1> QED
  BY <1>1, AlwaysTransport, PTL

\* closeCh is closed at most once.
THEOREM ChannelClosedOnce == Spec => []ClosedOnce
<1>1. TransportInv => ClosedOnce
  BY DEF TransportInv, Exclusions, OnceInv, ClosedOnce
<1> QED
  BY <1>1, AlwaysTransport, PTL

\* The connection has one writer at a time.
THEOREM WritersExclude == Spec => []OneWriter
<1>1. TransportInv => OneWriter
  BY DEF TransportInv, Exclusions, LockInv, InLock, OneWriter
<1> QED
  BY <1>1, AlwaysTransport, PTL

\* No frame follows the DISCONNECT.
THEOREM ByeIsLast == Spec => []NothingAfterBye
<1>1. ByeInv => NothingAfterBye
  BY DEF ByeInv, NothingAfterBye
<1> QED
  BY <1>1, AlwaysTransport, PTL
-----------------------------------------------------------------------------
(* The order of the frames, and the promise of SocketSession.              *)

\* Who is where changes one goroutine at a time, and connect stays up.
LEMMA StepUp == TransportInv /\ UpInv /\ [Next]_vars => UpInv'
<1> SUFFICES ASSUME TransportInv, UpInv, [Next]_vars PROVE UpInv'
    OBVIOUS
<1> USE DEF TransportInv, TypeOK, UpInv, Goto
<1> USE WritersAssumption DEF Processes
<1>1. CASE CallClose
  BY <1>1 DEF CallClose
<1>2. ASSUME NEW p \in Processes, Emit(p) PROVE UpInv'
  BY <1>2 DEF Emit
<1>3. ASSUME NEW p \in Processes, Step(p) PROVE UpInv'
  <2>1. CASE Dial
    BY <2>1 DEF Dial, Exclusions, ConnectInv
  <2>2. CASE SelectConnected
    BY <2>2 DEF SelectConnected
  <2>3. CASE StoreConnected
    BY <2>3 DEF StoreConnected
  <2>4. CASE SelectTimeout
    BY <2>4 DEF SelectTimeout
  <2>5. CASE Read \/ ReadError
    BY <2>5 DEF Read, ReadError
  <2>6. CASE LockWrite(p)
    BY <2>6 DEF LockWrite, Lock
  <2>7. CASE Write(p)
    BY <2>7 DEF Write, AfterWrite
  <2>8. CASE EnterOnce(p)
    BY <2>8 DEF EnterOnce
  <2>9. CASE SkipOnce(p)
    BY <2>9 DEF SkipOnce, AfterClose
  <2>10. CASE CloseChan(p)
    BY <2>10 DEF CloseChan
  <2>11. CASE CloseLock(p)
    BY <2>11 DEF CloseLock, Lock
  <2>12. CASE CloseWrite(p)
    BY <2>12 DEF CloseWrite
  <2>13. CASE CloseConn(p)
    BY <2>13 DEF CloseConn, AfterClose
  <2> QED
    BY <1>3, <2>1, <2>2, <2>3, <2>4, <2>5, <2>6, <2>7, <2>8, <2>9, <2>10, <2>11,
       <2>12, <2>13
    DEF Step, ConnectStep, ReadStep, CloseStep
<1>4. ASSUME NEW f \in InFrames \ {"open"}, WorkerSend(f) PROVE UpInv'
  BY <1>4 DEF WorkerSend
<1>5. CASE Break \/ Stall
  BY <1>5 DEF Break, Stall
<1>6. CASE UNCHANGED vars
  BY <1>6 DEF vars
<1> QED
  BY <1>1, <1>2, <1>3, <1>4, <1>5, <1>6 DEF Next

\* What a write adds to the wire.
LEMMA SentMore ==
    ASSUME TypeOK, NEW f \in OutFrames, wire' = Append(wire, f)
    PROVE  /\ \A g : Sent(g)' <=> Sent(g) \/ g = f
           /\ \A i \in DOMAIN wire' :
                 wire'[i] = f \/ \E j \in DOMAIN wire : wire'[i] = wire[j]
<1>1. /\ wire \in Seq(OutFrames)
      /\ DOMAIN wire' = 1 .. Len(wire) + 1
      /\ \A i \in DOMAIN wire : wire'[i] = wire[i]
      /\ wire'[Len(wire) + 1] = f
  BY DEF TypeOK
<1> QED
  BY <1>1 DEF Sent

\* Every action keeps the credentials first.
LEMMA StepAuth == TransportInv /\ UpInv /\ AuthInv /\ [Next]_vars => AuthInv'
<1> SUFFICES ASSUME TransportInv, UpInv, AuthInv, [Next]_vars PROVE AuthInv'
    OBVIOUS
<1> USE DEF TransportInv, TypeOK, Goto
<1> USE WritersAssumption DEF Processes
<1>0. ASSUME UNCHANGED <<inbox, wire, acked>>,
             pc'["connect"] = "dial" => pc["connect"] = "dial",
             conn' = "open" => conn = "open",
             \/ UNCHANGED out
             \/ pc["reader"] \notin {"lock", "write"} /\ UNCHANGED pc
             \/ out'["reader"] = out["reader"],
             \/ pc'["reader"] = pc["reader"]
             \/ pc["reader"] = "lock" /\ pc'["reader"] = "write"
             \/ pc'["reader"] \notin {"read", "lock", "write"}
      PROVE  AuthInv'
  BY <1>0 DEF AuthInv, Sent
<1>1. CASE CallClose \/ Break \/ Stall
  BY <1>0, <1>1 DEF CallClose, Break, Stall
<1>2. ASSUME NEW p \in Processes, Emit(p) PROVE AuthInv'
  BY <1>0, <1>2 DEF Emit
<1>3. ASSUME NEW p \in Processes, Step(p) PROVE AuthInv'
  <2>1. CASE Dial
    <3>1. CASE conn' = "open" /\ inbox' = <<"open">>
                 /\ pc' = [pc EXCEPT !["connect"] = "wait",
                                     !["reader"] = "read"]
      <4>1. /\ DOMAIN inbox' = {1} /\ inbox'[1] = "open"
            /\ UNCHANGED <<wire, acked>> /\ pc["connect"] = "dial"
        BY <2>1, <3>1 DEF Dial
      <4>2. ~Sent("auth") /\ ~acked
        BY <4>1 DEF AuthInv
      <4> QED
        BY <3>1, <4>1, <4>2 DEF AuthInv, Sent
    <3>2. CASE pc' = [pc EXCEPT !["connect"] = "dialFailed"]
                 /\ UNCHANGED <<conn, inbox>>
      BY <1>0, <2>1, <3>2 DEF Dial
    <3> QED
      BY <2>1, <3>1, <3>2 DEF Dial
  <2>2. CASE SelectConnected \/ StoreConnected \/ SelectTimeout
    BY <1>0, <2>2 DEF SelectConnected, StoreConnected, SelectTimeout
  <2>3. CASE Read
    <3> DEFINE f == Head(inbox)
    <3>1. /\ inbox # <<>> /\ f = inbox[1] /\ f \in InFrames
          /\ \A i \in DOMAIN inbox' :
                i + 1 \in DOMAIN inbox /\ inbox'[i] = inbox[i + 1] /\ i + 1 # 1
      BY <2>3 DEF Read
    <3>2. /\ pc["reader"] = "read" /\ pc'["reader"] = AfterFrame(f)
          /\ out'["reader"] = Reply(f) /\ acked' = (acked \/ f = "ack")
          /\ UNCHANGED <<conn, wire>> /\ pc'["connect"] = pc["connect"]
      BY <2>3 DEF Read
    <3>3. acked' \/ (\E i \in DOMAIN inbox' : inbox'[i] = "ack") => Sent("auth")
      BY <3>1, <3>2 DEF AuthInv
    <3>4. \A i \in DOMAIN inbox' : inbox'[i] # "open"
      BY <3>1 DEF AuthInv
    <3>5. f = "open" => ~Sent("auth")
      BY <3>1 DEF AuthInv
    <3>6. f # "open" /\ conn = "open" => Sent("auth")
      BY <3>1, <3>2 DEF AuthInv
    <3>7. pc'["reader"] \in {"lock", "write"} =>
              \/ out'["reader"] = "auth" /\ ~Sent("auth")
              \/ out'["reader"] = "pong" /\ (conn = "open" => Sent("auth"))
      BY <3>2, <3>5, <3>6 DEF AfterFrame, Reply
    <3>8. pc'["reader"] = "read" => f # "open"
      BY <3>2 DEF AfterFrame
    <3>9. Sent("auth")' <=> Sent("auth")
      BY <3>2 DEF Sent
    <3> QED
      BY <3>2, <3>3, <3>4, <3>6, <3>7, <3>8, <3>9 DEF AuthInv
  <2>4. CASE ReadError
    BY <1>0, <2>4 DEF ReadError
  <2>5. CASE LockWrite(p)
    BY <1>0, <2>5 DEF LockWrite, Lock
  <2>6. CASE Write(p)
    <3>1. /\ pc[p] = "write" /\ pc' = [pc EXCEPT ![p] = AfterWrite(p)]
          /\ UNCHANGED <<out, conn, inbox, acked>>
      BY <2>6 DEF Write
    <3>2. p = "reader" \/ p \in Writers
      BY <3>1 DEF UpInv, Exclusions, ConnectInv
    <3>3. CASE conn # "open" /\ UNCHANGED wire
      BY <3>1, <3>2, <3>3 DEF AuthInv, AfterWrite, Sent
    <3>4. CASE conn = "open" /\ wire' = Append(wire, out[p])
      <4>1. out[p] \in OutFrames
        BY DEF OutFrames
      <4>2. /\ \A g : Sent(g)' <=> Sent(g) \/ g = out[p]
            /\ \A i \in DOMAIN wire' : wire'[i] = out[p] \/
                   \E j \in DOMAIN wire : wire'[i] = wire[j]
        BY <3>4, <4>1, SentMore
      <4>3. CASE p = "reader"
        <5>1. Sent("auth")'
          BY <3>1, <3>4, <4>2, <4>3 DEF AuthInv
        <5>2. \A i \in DOMAIN inbox : inbox[i] # "open"
          BY <3>1, <4>3 DEF AuthInv
        <5>3. pc["connect"] # "dial"
          BY <3>1, <4>3 DEF Exclusions, ConnectInv
        <5>4. pc'["reader"] = "read" /\ pc'["connect"] = pc["connect"]
          BY <3>1, <4>3 DEF AfterWrite
        <5> QED
          BY <3>1, <5>1, <5>2, <5>3, <5>4 DEF AuthInv
      <4>4. CASE p \in Writers
        <5>1. acked /\ out[p] = "emit" /\ pc["connect"] = "up"
          BY <3>1, <4>4 DEF UpInv
        <5>2. Sent("auth") /\ Sent("auth")'
          BY <4>2, <5>1 DEF AuthInv
        <5> QED
          BY <3>1, <3>4, <4>4, <5>1, <5>2 DEF AuthInv
      <4> QED
        BY <3>2, <4>3, <4>4
    <3> QED
      BY <2>6, <3>3, <3>4 DEF Write, Send
  <2>7. CASE EnterOnce(p) \/ SkipOnce(p) \/ CloseChan(p) \/ CloseConn(p)
    BY <1>0, <2>7 DEF EnterOnce, SkipOnce, CloseChan, CloseConn, AfterClose
  <2>8. CASE CloseLock(p)
    BY <1>0, <2>8 DEF CloseLock, Lock
  <2>9. CASE CloseWrite(p)
    <3>1. /\ pc[p] = "closeWrite" /\ pc' = [pc EXCEPT ![p] = "closeConn"]
          /\ UNCHANGED <<out, conn, inbox, acked>>
      BY <2>9 DEF CloseWrite
    <3>2. CASE UNCHANGED wire
      BY <1>0, <3>1, <3>2
    <3>3. CASE wire' = Append(wire, "bye")
      <4>1. /\ Sent("auth")' <=> Sent("auth")
            /\ \A i \in DOMAIN wire' : wire'[i] = "bye" \/
                   \E j \in DOMAIN wire : wire'[i] = wire[j]
        BY <3>3, SentMore DEF OutFrames
      <4> QED
        BY <3>1, <4>1 DEF AuthInv
    <3> QED
      BY <2>9, <3>2, <3>3 DEF CloseWrite, Send
  <2> QED
    BY <1>3, <2>1, <2>2, <2>3, <2>4, <2>5, <2>6, <2>7, <2>8, <2>9
    DEF Step, ConnectStep, ReadStep, CloseStep
<1>4. ASSUME NEW f \in InFrames \ {"open"}, WorkerSend(f) PROVE AuthInv'
  <2>1. /\ conn = "open" /\ (f = "ack" => Sent("auth"))
        /\ inbox' = Append(inbox, f)
        /\ UNCHANGED <<pc, out, conn, wire, acked>>
    BY <1>4 DEF WorkerSend
  <2>2. /\ \A i \in DOMAIN inbox : i \in DOMAIN inbox' /\ inbox'[i] = inbox[i]
        /\ \A i \in DOMAIN inbox' : i \in DOMAIN inbox \/ inbox'[i] = f
        /\ inbox' # <<>>
    BY <2>1
  <2>3. inbox # <<>> => 1 \in DOMAIN inbox
    OBVIOUS
  <2> QED
    BY <2>1, <2>2, <2>3 DEF AuthInv, Sent
<1>5. CASE UNCHANGED vars
  BY <1>0, <1>5 DEF vars
<1> QED
  BY <1>1, <1>2, <1>3, <1>4, <1>5 DEF Next
SocketInv == TransportInv /\ ByeInv /\ UpInv /\ AuthInv

\* The invariant holds in every state of a socket.
LEMMA AlwaysSocket == Spec => []SocketInv
<1>1. Init => SocketInv
  <2> SUFFICES ASSUME Init PROVE UpInv /\ AuthInv
    BY InitTransport DEF SocketInv
  <2> USE WritersAssumption DEF Processes
  <2>1. UpInv
    BY DEF Init, UpInv
  <2>2. AuthInv
    BY DEF Init, AuthInv, Sent
  <2> QED
    BY <2>1, <2>2
<1>2. SocketInv /\ [Next]_vars => SocketInv'
  BY StepTransport, StepBye, StepUp, StepAuth DEF SocketInv
<1> QED
  BY <1>1, <1>2, PTL DEF Spec

\* Whoever holds writeMu and is about to write finds no DISCONNECT on an open
\* connection.
LEMMA NoByeYet ==
    ASSUME SocketInv, NEW p \in Processes, pc[p] \in {"write", "closeWrite"},
           conn = "open"
    PROVE  ~Sent("bye")
<1>1. ~ \E q \in Processes : pc[q] = "closeConn"
  BY DEF SocketInv, TransportInv, Exclusions, LockInv, InLock
<1> QED
  BY <1>1 DEF SocketInv, ByeInv, Sent

\* Every step of a socket is a step of SocketSession, or none.
LEMMA StepImplementsSocket ==
    SocketInv /\ [Next]_vars => [Session!SocketNext]_(Session!socketVars)
<1> SUFFICES ASSUME SocketInv, [Next]_vars
             PROVE  Session!SocketNext \/ UNCHANGED Session!socketVars
    OBVIOUS
<1> USE DEF TransportInv, TypeOK, SocketInv, Goto
<1> USE WritersAssumption DEF Processes
<1> DEFINE Same == UNCHANGED <<conn, connected, closes, wire>>
<1>0. ASSUME Same, Stage' = Stage PROVE UNCHANGED Session!socketVars
  BY <1>0 DEF Session!socketVars
<1>1. CASE CallClose
  BY <1>0, <1>1 DEF CallClose, Stage
<1>2. ASSUME NEW p \in Processes, Emit(p) PROVE UNCHANGED Session!socketVars
  BY <1>0, <1>2 DEF Emit, Stage, UpInv
<1>3. ASSUME NEW p \in Processes, Step(p)
      PROVE  Session!SocketNext \/ UNCHANGED Session!socketVars
  <2>1. CASE Dial
    <3>0. Stage = "new" /\ UNCHANGED <<connected, closes, wire>>
      BY <2>1 DEF Dial, Stage
    <3>1. CASE conn' = "open"
                 /\ pc' = [pc EXCEPT !["connect"] = "wait",
                                     !["reader"] = "read"]
      <4>1. Stage' = "trying"
        BY <3>1 DEF Stage
      <4> QED
        BY <3>0, <3>1, <4>1 DEF Session!SocketNext, Session!Dialled
    <3>2. CASE pc' = [pc EXCEPT !["connect"] = "dialFailed"] /\ UNCHANGED conn
      <4>1. Stage' = "failed"
        BY <3>2 DEF Stage
      <4> QED
        BY <3>0, <3>2, <4>1 DEF Session!SocketNext, Session!Refused
    <3> QED
      BY <2>1, <3>1, <3>2 DEF Dial
  <2>2. CASE SelectConnected \/ SelectTimeout
    BY <1>0, <2>2 DEF SelectConnected, SelectTimeout, Stage
  <2>3. CASE StoreConnected
    <3>1. Stage = "trying" /\ Stage' = "up" /\ connected' = TRUE
          /\ UNCHANGED <<conn, closes, wire>>
      BY <2>3 DEF StoreConnected, Stage
    <3>2. \E i \in DOMAIN wire : wire[i] = "auth"
      BY <2>3 DEF StoreConnected, UpInv, AuthInv, Sent
    <3> QED
      BY <3>1, <3>2 DEF Session!SocketNext, Session!Accepted, Session!Was
  <2>4. CASE Read \/ ReadError
    BY <1>0, <2>4 DEF Read, ReadError, Stage
  <2>5. CASE LockWrite(p) \/ CloseLock(p)
    BY <1>0, <2>5 DEF LockWrite, CloseLock, Lock, Stage, Exclusions, ConnectInv
  <2>6. CASE Write(p)
    <3>1. pc[p] = "write" /\ UNCHANGED <<conn, connected, closes, out>>
      BY <2>6 DEF Write
    <3>2. p = "reader" \/ p \in Writers
      BY <3>1 DEF UpInv, Exclusions, ConnectInv
    <3>3. Stage' = Stage
      BY <2>6, <3>2 DEF Write, Stage
    <3>4. CASE UNCHANGED wire
      BY <1>0, <3>1, <3>3, <3>4
    <3>5. CASE conn = "open" /\ wire' = Append(wire, out[p])
      <4>1. ~Session!Was("bye")
        BY <3>1, <3>5, NoByeYet DEF Session!Was, Sent
      <4>2. Session!Put(out[p])
        BY <3>1, <3>3, <3>5, <4>1 DEF Session!Put
      <4>3. CASE out[p] = "auth"
        <5>1. p = "reader" /\ ~Sent("auth")
          BY <3>1, <3>2, <4>3 DEF UpInv, AuthInv
        <5>2. \A i \in DOMAIN wire : FALSE
          BY <4>1, <5>1 DEF AuthInv, Session!Was
        <5>3. wire # <<>> => 1 \in DOMAIN wire
          OBVIOUS
        <5>4. wire = <<>>
          BY <5>2, <5>3
        <5> QED
          BY <4>2, <4>3, <5>4 DEF Session!SocketNext, Session!Authenticate
      <4>4. CASE out[p] = "pong"
        <5>1. p = "reader"
          BY <3>1, <3>2, <4>4 DEF UpInv
        <5>2. Session!Was("auth")
          BY <3>1, <3>5, <4>4, <5>1 DEF AuthInv, Session!Was, Sent
        <5> QED
          BY <4>2, <4>4, <5>2 DEF Session!SocketNext, Session!Pong
      <4>5. CASE out[p] = "emit"
        <5>1. p \in Writers
          BY <3>1, <3>2, <4>5 DEF AuthInv
        <5>2. pc["connect"] = "up" /\ acked
          BY <3>1, <5>1 DEF UpInv
        <5>3. Stage = "up" /\ Session!Was("auth")
          BY <5>2 DEF Stage, AuthInv, Session!Was, Sent
        <5> QED
          BY <4>2, <4>5, <5>3 DEF Session!SocketNext, Session!Event
      <4> QED
        BY <4>3, <4>4, <4>5 DEF OutFrames
    <3> QED
      BY <2>6, <3>4, <3>5 DEF Write, Send
  <2>7. CASE EnterOnce(p)
    <3>1. /\ Stage' = Stage /\ connected' = FALSE
          /\ UNCHANGED <<conn, closes, wire>>
      BY <2>7 DEF EnterOnce, Stage
    <3>2. CASE connected
      BY <3>1, <3>2 DEF Session!SocketNext, Session!Lower
    <3>3. CASE ~connected
      BY <1>0, <3>1, <3>3
    <3> QED
      BY <3>2, <3>3
  <2>8. CASE SkipOnce(p)
    <3>1. Same /\ closes = 1 /\ conn = "closed"
      BY <2>8 DEF SkipOnce, Exclusions, OnceInv
    <3>2. CASE p = "connect"
      <4>1. Stage = "trying" /\ Stage' = "failed"
        BY <2>8, <3>2 DEF SkipOnce, AfterClose, Stage
      <4>2. ~connected
        BY <2>8, <3>2 DEF SkipOnce, Exclusions, ConnectInv
      <4> QED
        BY <3>1, <4>1, <4>2 DEF Session!SocketNext, Session!Abandoned
    <3>3. CASE p # "connect"
      BY <1>0, <2>8, <3>1, <3>3 DEF SkipOnce, Stage
    <3> QED
      BY <3>2, <3>3
  <2>9. CASE CloseChan(p)
    <3>1. closes = 0 /\ closes' = 1 /\ UNCHANGED <<conn, connected, wire>>
      BY <2>9 DEF CloseChan, Exclusions, OnceInv
    <3>2. Stage # "new" /\ Stage' = Stage
      BY <2>9 DEF CloseChan, Stage, Exclusions, ConnectInv, OnceInv, InOnce
    <3> QED
      BY <3>1, <3>2 DEF Session!SocketNext, Session!Release
  <2>10. CASE CloseWrite(p)
    <3>1. pc[p] = "closeWrite" /\ closes = 1
          /\ UNCHANGED <<conn, connected, closes>>
      BY <2>10 DEF CloseWrite, Exclusions, OnceInv, InOnce
    <3>2. Stage' = Stage
      BY <2>10 DEF CloseWrite, Stage
    <3>3. CASE UNCHANGED wire
      BY <1>0, <3>1, <3>2, <3>3
    <3>4. CASE conn = "open" /\ wire' = Append(wire, "bye")
      <4>1. ~Session!Was("bye")
        BY <3>1, <3>4, NoByeYet DEF Session!Was, Sent
      <4> QED
        BY <3>1, <3>2, <3>4, <4>1
        DEF Session!SocketNext, Session!Bye, Session!Put
    <3> QED
      BY <2>10, <3>3, <3>4 DEF CloseWrite, Send
  <2>11. CASE CloseConn(p)
    <3>1. /\ closes = 1 /\ conn' = "closed"
          /\ UNCHANGED <<connected, closes, wire>>
      BY <2>11 DEF CloseConn, Exclusions, OnceInv, InOnce
    <3>2. conn # "none"
      BY <2>11 DEF CloseConn, UpInv, Exclusions, ConnectInv
    <3>3. CASE p = "connect"
      <4>1. Stage = "trying" /\ Stage' = "failed"
        BY <2>11, <3>3 DEF CloseConn, AfterClose, Stage
      <4>2. ~connected
        BY <2>11, <3>3 DEF CloseConn, Exclusions, ConnectInv
      <4> QED
        BY <3>1, <3>2, <4>1, <4>2 DEF Session!SocketNext, Session!Abandoned
    <3>4. CASE p # "connect"
      <4>1. Stage' = Stage
        BY <2>11, <3>4 DEF CloseConn, Stage
      <4>2. CASE conn = "closed"
        BY <1>0, <3>1, <4>1, <4>2
      <4>3. CASE conn \in {"open", "broken"}
        BY <3>1, <4>1, <4>3 DEF Session!SocketNext, Session!Shut
      <4> QED
        BY <3>2, <4>2, <4>3
    <3> QED
      BY <3>3, <3>4
  <2> QED
    BY <1>3, <2>1, <2>2, <2>3, <2>4, <2>5, <2>6, <2>7, <2>8, <2>9, <2>10, <2>11
    DEF Step, ConnectStep, ReadStep, CloseStep
<1>4. ASSUME NEW f \in InFrames \ {"open"}, WorkerSend(f)
      PROVE  UNCHANGED Session!socketVars
  BY <1>0, <1>4 DEF WorkerSend, Stage
<1>5. CASE Break
  <2>1. Stage' = Stage
    BY <1>5 DEF Break, Stage
  <2> QED
    BY <1>5, <2>1 DEF Break, Session!SocketNext, Session!Lose
<1>6. CASE Stall
  BY <1>0, <1>6 DEF Stall, Stage
<1>7. CASE UNCHANGED vars
  BY <1>0, <1>7 DEF vars, Stage
<1> QED
  BY <1>1, <1>2, <1>3, <1>4, <1>5, <1>6, <1>7 DEF Next

\* A socket keeps the promise of SocketSession, for any number of writers and
\* emits and whatever the worker and the network do.
THEOREM TransportIsSession == Spec => ImplementsSocket
<1>1. Init => Session!SocketInit
  BY DEF Init, Session!SocketInit, Stage, Processes
<1> QED
  BY <1>1, StepImplementsSocket, AlwaysSocket, PTL
  DEF Spec, ImplementsSocket, Session!SocketSafety
-----------------------------------------------------------------------------
(* The two locks do not deadlock.                                          *)

\* p is inside writeRaw or close, and nothing but a worker that has stopped
\* reading can keep it there now.
Inside(p) == pc[p] = "lock" \/ pc[p] = "close" \/ InLock(p) \/ InOnce(p)
Able(p) ==
    \/ pc[p] \in {"closeChan", "closeConn"}
    \/ pc[p] \in {"lock", "closeLock"} /\ writeMu = "nobody"
    \/ pc[p] = "close" /\ once # "running"
    \/ pc[p] \in {"write", "closeWrite"} /\ conn # "none" /\ ~Blocked

NobodyDeadlocks ==
    ~Blocked /\ (\E p \in Processes : Inside(p)) => \E q \in Processes : Able(q)

\* A lock that is held has its holder in the critical section, and a once that
\* runs has a goroutine running it.
HolderInv ==
    /\ writeMu # "nobody" => InLock(writeMu)
    /\ once = "running" => \E p \in Processes : InOnce(p)

\* Every action keeps the holders where they are.
LEMMA StepHolder == TransportInv /\ HolderInv /\ [Next]_vars => HolderInv'
<1> SUFFICES ASSUME TransportInv, HolderInv, [Next]_vars PROVE HolderInv'
    OBVIOUS
<1> USE DEF TransportInv, TypeOK, Goto, InLock, InOnce, HolderInv
<1> USE WritersAssumption DEF Processes
<1>0. ASSUME UNCHANGED <<writeMu, once>>,
             \A q \in Processes : InLock(q) => InLock(q)',
             \A q \in Processes : InOnce(q) => InOnce(q)'
      PROVE  HolderInv'
  <2>1. writeMu # "nobody" => InLock(writeMu)'
    BY <1>0
  <2>2. once = "running" => \E q \in Processes : InOnce(q)'
    BY <1>0
  <2> QED
    BY <1>0, <2>1, <2>2
<1>1. CASE CallClose
  BY <1>0, <1>1 DEF CallClose
<1>2. ASSUME NEW p \in Processes, Emit(p) PROVE HolderInv'
  BY <1>0, <1>2 DEF Emit
<1>3. ASSUME NEW p \in Processes, Step(p) PROVE HolderInv'
  <2>1. CASE ConnectStep
    BY <1>0, <2>1
    DEF ConnectStep, Dial, SelectConnected, StoreConnected, SelectTimeout,
        Exclusions, ConnectInv
  <2>2. CASE ReadStep
    BY <1>0, <2>2 DEF ReadStep, Read, ReadError
  <2>3. CASE LockWrite(p) \/ CloseLock(p)
    BY <2>3 DEF LockWrite, CloseLock, Lock
  <2>4. CASE Write(p)
    BY <2>4 DEF Write, AfterWrite
  <2>5. CASE EnterOnce(p)
    BY <2>5 DEF EnterOnce
  <2>6. CASE SkipOnce(p)
    BY <1>0, <2>6 DEF SkipOnce, AfterClose
  <2>7. CASE CloseChan(p)
    BY <1>0, <2>7 DEF CloseChan
  <2>8. CASE CloseWrite(p)
    BY <1>0, <2>8 DEF CloseWrite
  <2>9. CASE CloseConn(p)
    BY <2>9 DEF CloseConn
  <2> QED
    BY <1>3, <2>1, <2>2, <2>3, <2>4, <2>5, <2>6, <2>7, <2>8, <2>9
    DEF Step, CloseStep
<1>4. ASSUME NEW f \in InFrames \ {"open"}, WorkerSend(f) PROVE HolderInv'
  BY <1>0, <1>4 DEF WorkerSend
<1>5. CASE Break \/ Stall \/ UNCHANGED vars
  BY <1>0, <1>5 DEF Break, Stall, vars
<1> QED
  BY <1>1, <1>2, <1>3, <1>4, <1>5 DEF Next

\* writeMu, closeOnce and the wait of one close for another never deadlock:
\* while writes do not block, some goroutine inside writeRaw or close can go on.
\* It is the safety part of TeardownCompletes.
THEOREM LocksNeverDeadlock == Spec => []NobodyDeadlocks
<1> USE DEF InLock, InOnce
<1>1. SocketInv /\ HolderInv => NobodyDeadlocks
  <2> SUFFICES ASSUME SocketInv, HolderInv, ~Blocked,
                      NEW p \in Processes, Inside(p)
               PROVE  \E q \in Processes : Able(q)
    BY DEF NobodyDeadlocks
  <2> USE DEF SocketInv, TransportInv, TypeOK, Able
  <2>1. conn # "none"
    BY WritersAssumption DEF UpInv, Exclusions, ConnectInv, Inside, Processes
  <2>2. writeMu # "nobody" => Able(writeMu)
    BY <2>1 DEF HolderInv
  <2>3. writeMu \in Processes \/ writeMu = "nobody"
    OBVIOUS
  <2>4. ASSUME NEW q \in Processes, InOnce(q)
        PROVE  Able(q) \/ writeMu # "nobody"
    BY <2>1, <2>4
  <2>5. once = "running" => \E q \in Processes : Able(q)
    BY <2>2, <2>3, <2>4 DEF HolderInv
  <2>6. Able(p) \/ writeMu # "nobody" \/ once = "running"
    BY <2>1 DEF Inside
  <2> QED
    BY <2>2, <2>3, <2>5, <2>6
<1>2. Init => HolderInv
  BY DEF Init, HolderInv
<1>3. SocketInv /\ HolderInv /\ [Next]_vars => HolderInv'
  BY StepHolder DEF SocketInv
<1> QED
  BY <1>1, <1>2, <1>3, AlwaysSocket, PTL DEF Spec
=============================================================================
