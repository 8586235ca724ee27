------------------------------ MODULE Heartbeat ------------------------------
(***************************************************************************)
(* The heartbeat of Client (oddsockets/client.go): startHeartbeat, which   *)
(* Connect calls, stopHeartbeat, which Disconnect calls, and the goroutine *)
(* between them.  heartbeatTicker and heartbeatDone are shared without a   *)
(* lock, and the goroutine reads both anew on each turn of its loop.       *)
(*                                                                         *)
(* Tickers and done channels are numbered as they are made; ticker 0 is    *)
(* nil.  When Connect and Disconnect call is ClientLifecycle's: here they  *)
(* may at any time.  Close is a Cancel and then, perhaps, a stop.          *)
(***************************************************************************)
EXTENDS Naturals

CONSTANTS
    Callers,     \* goroutines inside Connect or Disconnect
    MaxStarts    \* bound: calls of startHeartbeat

ASSUME MaxStartsAssumption == MaxStarts \in Nat

VARIABLES
    pc,          \* where each caller is
    held,        \* the ticker a caller in stopHeartbeat has tested
    ticker,      \* Client.heartbeatTicker
    tickers,     \* tickers made so far
    running,     \* tickers that are not stopped
    ticks,       \* tickers with a tick in their channel
    done,        \* Client.heartbeatDone
    closed,      \* done channels that are closed
    cancelled,   \* Client.ctx is
    hpc,         \* where each heartbeat goroutine is
    hticker,     \* the ticker it evaluated in this turn
    hdone,       \* the done channel it evaluated in this turn
    starts,      \* calls of startHeartbeat made
    overlapped   \* history: two calls have been under way at a time

callVars == <<pc, held, starts, overlapped>>
clientVars == <<ticker, tickers, running, done, closed, cancelled>>
loopVars == <<hpc, hticker, hdone>>
vars == <<callVars, clientVars, loopVars, ticks>>

\* The heartbeat goroutines, in the order they are started.
Heartbeats == 1 .. MaxStarts

Pcs == {"idle", "startTest", "make", "spawn",
        "stopTest", "halt", "forget", "close", "renew", "panic"}

LoopPcs == {"none", "turn", "turnDone", "select", "ended", "panic"}

TypeOK ==
    /\ pc \in [Callers -> Pcs]
    /\ held \in [Callers -> Nat]
    /\ starts \in 0 .. MaxStarts
    /\ overlapped \in BOOLEAN
    /\ tickers \in Nat
    /\ ticker \in 0 .. tickers
    /\ running \subseteq 1 .. tickers
    /\ ticks \subseteq 1 .. tickers
    /\ done \in Nat
    /\ closed \subseteq 0 .. done
    /\ cancelled \in BOOLEAN
    /\ hpc \in [Heartbeats -> LoopPcs]
    /\ hticker \in [Heartbeats -> Nat]
    /\ hdone \in [Heartbeats -> Nat]

\* NewClient.
Init ==
    /\ pc = [p \in Callers |-> "idle"]
    /\ held = [p \in Callers |-> 0]
    /\ starts = 0
    /\ overlapped = FALSE
    /\ tickers = 0
    /\ ticker = 0
    /\ running = {}
    /\ ticks = {}
    /\ done = 0
    /\ closed = {}
    /\ cancelled = FALSE
    /\ hpc = [h \in Heartbeats |-> "none"]
    /\ hticker = [h \in Heartbeats |-> 0]
    /\ hdone = [h \in Heartbeats |-> 0]

Quiet == \A p \in Callers : pc[p] = "idle"

Goto(p, from, to) ==
    /\ pc[p] = from
    /\ pc' = [pc EXCEPT ![p] = to]

Enter(p, to) ==
    /\ Goto(p, "idle", to)
    /\ overlapped' = (overlapped \/ ~Quiet)
    /\ UNCHANGED <<held, clientVars, loopVars, ticks>>

-----------------------------------------------------------------------------
(* startHeartbeat.                                                         *)

Start(p) ==
    /\ starts < MaxStarts
    /\ starts' = starts + 1
    /\ Enter(p, "startTest")

StartTest(p) ==
    /\ Goto(p, "startTest", IF ticker # 0 THEN "idle" ELSE "make")
    /\ UNCHANGED <<held, starts, overlapped, clientVars, loopVars, ticks>>

MakeTicker(p) ==
    /\ Goto(p, "make", "spawn")
    /\ tickers' = tickers + 1
    /\ ticker' = tickers + 1
    /\ running' = running \cup {tickers + 1}
    /\ UNCHANGED <<held, starts, overlapped, done, closed, cancelled,
                   loopVars, ticks>>

Spawn(p) ==
    /\ Goto(p, "spawn", "idle")
    /\ \E h \in Heartbeats :
          /\ hpc[h] = "none"
          /\ \A g \in 1 .. (h - 1) : hpc[g] # "none"
          /\ hpc' = [hpc EXCEPT ![h] = "turn"]
    /\ UNCHANGED <<held, starts, overlapped, clientVars, hticker, hdone, ticks>>

-----------------------------------------------------------------------------
(* stopHeartbeat.                                                          *)

Stop(p) == Enter(p, "stopTest") /\ UNCHANGED starts

StopTest(p) ==
    /\ Goto(p, "stopTest", IF ticker = 0 THEN "idle" ELSE "halt")
    /\ held' = [held EXCEPT ![p] = ticker]
    /\ UNCHANGED <<starts, overlapped, clientVars, loopVars, ticks>>

\* heartbeatTicker.Stop(), on the value the test loaded or on a second load:
\* the compiler may produce either.
Halt(p) ==
    /\ \/ \E t \in {held[p], ticker} \ {0} :
             /\ Goto(p, "halt", "forget")
             /\ running' = running \ {t}
       \/ /\ ticker = 0
          /\ Goto(p, "halt", "panic")
          /\ UNCHANGED running
    /\ held' = [held EXCEPT ![p] = 0]
    /\ UNCHANGED <<starts, overlapped, ticker, tickers, done, closed,
                   cancelled, loopVars, ticks>>

\* (mutant) heartbeatTicker keeps its value.
KeepTicker(p) ==
    /\ Goto(p, "forget", "close")
    /\ UNCHANGED <<held, starts, overlapped, clientVars, loopVars, ticks>>

\* heartbeatTicker = nil
Forget(p) ==
    /\ Goto(p, "forget", "close")
    /\ ticker' = 0
    /\ UNCHANGED <<held, starts, overlapped, tickers, running, done, closed,
                   cancelled, loopVars, ticks>>

\* (mutant) Nothing is closed.
CloseNothing(p) ==
    /\ Goto(p, "close", "renew")
    /\ UNCHANGED <<held, starts, overlapped, clientVars, loopVars, ticks>>

\* close(heartbeatDone), which panics when it is closed.
CloseDone(p) ==
    /\ Goto(p, "close", IF done \in closed THEN "panic" ELSE "renew")
    /\ closed' = closed \cup {done}
    /\ UNCHANGED <<held, starts, overlapped, ticker, tickers, running, done,
                   cancelled, loopVars, ticks>>

\* (mutant) The closed channel stays in use.
RenewNothing(p) ==
    /\ Goto(p, "renew", "idle")
    /\ UNCHANGED <<held, starts, overlapped, clientVars, loopVars, ticks>>

\* heartbeatDone = make(chan bool)
Renew(p) ==
    /\ Goto(p, "renew", "idle")
    /\ done' = done + 1
    /\ UNCHANGED <<held, starts, overlapped, ticker, tickers, running, closed,
                   cancelled, loopVars, ticks>>

\* The first half of Close.
Cancel ==
    /\ ~cancelled
    /\ cancelled' = TRUE
    /\ UNCHANGED <<callVars, ticker, tickers, running, done, closed,
                   loopVars, ticks>>

-----------------------------------------------------------------------------
(* The goroutine.  select evaluates its channels once, in the order of the *)
(* source, and then waits.                                                 *)

HeartbeatGoto(h, from, to) ==
    /\ hpc[h] = from
    /\ hpc' = [hpc EXCEPT ![h] = to]

\* heartbeatTicker.C: a nil dereference when there is no ticker.
EvalTicker(h) ==
    /\ HeartbeatGoto(h, "turn", IF ticker = 0 THEN "panic" ELSE "turnDone")
    /\ hticker' = [hticker EXCEPT ![h] = ticker]
    /\ UNCHANGED <<callVars, clientVars, hdone, ticks>>

EvalDone(h) ==
    /\ HeartbeatGoto(h, "turnDone", "select")
    /\ hdone' = [hdone EXCEPT ![h] = done]
    /\ UNCHANGED <<callVars, clientVars, hticker, ticks>>

\* (mutant) The goroutine ends after its first tick.
BeatOnce(h) ==
    /\ hticker[h] \in ticks
    /\ HeartbeatGoto(h, "select", "ended")
    /\ ticks' = ticks \ {hticker[h]}
    /\ UNCHANGED <<callVars, clientVars, hticker, hdone>>

Beat(h) ==
    /\ hticker[h] \in ticks
    /\ HeartbeatGoto(h, "select", "turn")
    /\ ticks' = ticks \ {hticker[h]}
    /\ UNCHANGED <<callVars, clientVars, hticker, hdone>>

EndStopped(h) ==
    /\ hdone[h] \in closed
    /\ HeartbeatGoto(h, "select", "ended")
    /\ UNCHANGED <<callVars, clientVars, hticker, hdone, ticks>>

\* (mutant) The context is not among the cases of the select.
EndNever(h) ==
    /\ FALSE
    /\ HeartbeatGoto(h, "select", "ended")
    /\ UNCHANGED <<callVars, clientVars, hticker, hdone, ticks>>

EndCancelled(h) ==
    /\ cancelled
    /\ HeartbeatGoto(h, "select", "ended")
    /\ UNCHANGED <<callVars, clientVars, hticker, hdone, ticks>>

\* The interval of a ticker has passed; its channel holds one tick, which
\* stays there when the ticker is stopped.
Fire(t) ==
    /\ t \in running \ ticks
    /\ ticks' = ticks \cup {t}
    /\ UNCHANGED <<callVars, clientVars, loopVars>>

-----------------------------------------------------------------------------
\* A panic in any goroutine ends the program.
Crashed ==
    \/ \E p \in Callers : pc[p] = "panic"
    \/ \E h \in Heartbeats : hpc[h] = "panic"

Step(p) ==
    /\ ~Crashed
    /\ \/ StartTest(p) \/ MakeTicker(p) \/ Spawn(p)
       \/ StopTest(p) \/ Halt(p) \/ Forget(p) \/ CloseDone(p) \/ Renew(p)

Turn(h) == ~Crashed /\ (EvalTicker(h) \/ EvalDone(h))

Receive(h) == ~Crashed /\ (Beat(h) \/ EndStopped(h) \/ EndCancelled(h))

Next ==
    \/ \E p \in Callers : ~Crashed /\ (Start(p) \/ Stop(p))
    \/ \E p \in Callers : Step(p)
    \/ ~Crashed /\ Cancel
    \/ \E h \in Heartbeats : Turn(h) \/ Receive(h)
    \/ \E t \in running : ~Crashed /\ Fire(t)

\* Goroutines that can run are run and tickers fire.  select chooses among
\* ready cases at random, so a case that is ready time and again is taken.
Fairness ==
    /\ \A p \in Callers : WF_vars(Step(p))
    /\ \A h \in Heartbeats :
          /\ WF_vars(Turn(h) \/ Receive(h))
          /\ SF_vars(~Crashed /\ EndCancelled(h))
    /\ WF_vars(~Crashed /\ \E t \in running : Fire(t))

Spec == Init /\ [][Next]_vars

FairSpec == Spec /\ Fairness

-----------------------------------------------------------------------------
\* A stop that goes through releases every goroutine that waits in its select,
\* those an earlier stop missed too: when it puts a new done channel in place,
\* each of them waits on one that is closed, whatever calls overlap.  (It misses
\* a goroutine that is between two turns, which waits on the new one then.)
StopReleasesWaiters ==
    [][done' # done =>
          \A h \in Heartbeats : hpc[h] = "select" => hdone[h] \in closed]_vars

\* heartbeatTicker stands for a goroutine that beats on it: startHeartbeat does
\* nothing while it is set, so a ticker without its goroutine would leave the
\* connection without a heartbeat.  This holds while calls have not overlapped.
TickerIsServed ==
    ~overlapped /\ Quiet /\ ticker # 0 /\ ~cancelled =>
        \E h \in Heartbeats :
            \/ hpc[h] = "turn"
            \/ hpc[h] = "turnDone" /\ hticker[h] = ticker
            \/ /\ hpc[h] = "select"
               /\ hticker[h] = ticker /\ hdone[h] \notin closed

\* stopHeartbeat itself panics, on a nil ticker or a channel closed before,
\* only if calls overlap.
StopPanicTakesOverlap == (\E p \in Callers : pc[p] = "panic") => overlapped

\* Close ends every heartbeat goroutine there is or will be, even one that
\* missed its stop and one that a Connect under way starts afterwards.
CloseEndsHeartbeats ==
    cancelled ~>
        [](Crashed \/ \A h \in Heartbeats : hpc[h] \in {"none", "ended"})

\* A connection whose calls have not overlapped, left alone with its heartbeat,
\* beats for ever.
BeatsGoOn ==
    <>[](Quiet /\ ticker # 0 /\ ~cancelled /\ ~overlapped /\ ~Crashed)
        => []<><<\E h \in Heartbeats : Beat(h)>>_vars
=============================================================================
