---------------------------- MODULE TokenRefresh ----------------------------
(***************************************************************************)
(* Minted tokens (oddsockets/client.go, token mode): resolveToken before   *)
(* every Connect, the timer scheduleTokenRefresh arms, and its callback,   *)
(* which resolves, calls updateAuth on the socket and arms the next timer.  *)
(*                                                                         *)
(* Connect and Disconnect come one at a time here: calls that overlap are  *)
(* ClientLifecycle's.  Callbacks run whenever their timer fires, which is  *)
(* at once when the token's life is shorter than TokenRefreshLeadMs.  An   *)
(* actor is the application (or whoever connects for it) or a timer, armed *)
(* or in its callback.  What updateAuth stores is not kept: a socket sends *)
(* its credentials in connect, before any update, and never again.         *)
(***************************************************************************)
EXTENDS Naturals

CONSTANTS
    App,       \* the application
    Timers,    \* bound: refresh timers around at once; arming waits for one
    NoTimer,   \* nil
    Tokens,    \* what the provider may return
    Opaque,    \* the tokens whose expiry is unknown: expiryFromToken is 0
    NoToken,   \* no token yet
    MaxConns   \* bound: connections

ASSUME ActorAssumption == App \notin Timers /\ NoTimer \notin Timers
ASSUME TokenAssumption == Opaque \subseteq Tokens /\ NoToken \notin Tokens

VARIABLES
    pc,      \* where each actor is
    got,     \* the token, or the token of the expiry, an actor has in a local
    mine,    \* the timer an actor has armed and not stored yet
    due,     \* the token whose expiry a timer was armed for
    state,   \* Client.state
    socket,  \* Client.socket is not nil
    conns,   \* connections made so far
    token,   \* Client.token, with Client.tokenExpiresAt
    stored,  \* Client.tokenRefreshTimer
    lost,    \* history: why renewals of this connection ended, if they did
    mixed    \* history: a callback has run beside a call or another callback

localVars == <<got, mine, due>>
clientVars == <<state, socket, conns, token, stored>>
vars == <<pc, localVars, clientVars, lost, mixed>>

Actors == Timers \cup {App}

States == {"Disconnected", "Connecting", "Connected", "Reconnecting"}

\* A timer that rests is not armed; mint .. store are shared by all actors.
SharedPcs == {"rest", "mint", "cache", "stopOld", "arm", "store"}
AppPcs == SharedPcs \cup {"dial", "commit", "halt", "drop", "down"}
TimerPcs == SharedPcs \cup {"armed", "check", "test", "update", "panic"}

Reasons == {"early", "failed", "opaque"}

TypeOK ==
    /\ pc \in [Actors -> AppPcs \cup TimerPcs]
    /\ pc[App] \in AppPcs /\ \A t \in Timers : pc[t] \in TimerPcs
    /\ got \in [Actors -> Tokens \cup {NoToken}]
    /\ mine \in [Actors -> Timers \cup {NoTimer}]
    /\ due \in [Timers -> Tokens \cup {NoToken}]
    /\ state \in States
    /\ conns \in Nat
    /\ socket \in BOOLEAN
    /\ token \in Tokens \cup {NoToken}
    /\ stored \in Timers \cup {NoTimer}
    /\ lost \subseteq Reasons
    /\ mixed \in BOOLEAN

Init ==
    /\ pc = [a \in Actors |-> "rest"]
    /\ got = [a \in Actors |-> NoToken]
    /\ mine = [a \in Actors |-> NoTimer]
    /\ due = [t \in Timers |-> NoToken]
    /\ state = "Disconnected"
    /\ socket = FALSE
    /\ conns = 0
    /\ token = NoToken
    /\ stored = NoTimer
    /\ lost = {}
    /\ mixed = FALSE

Goto(a, from, to) ==
    /\ pc[a] = from
    /\ pc' = [pc EXCEPT ![a] = to]

Quiet == pc[App] = "rest"

\* Timers in their callback.
Running == {t \in Timers : pc[t] \notin {"rest", "armed"}}

\* A timer nobody holds a reference to can stand for the next one.
Free(t) ==
    /\ pc[t] = "rest"
    /\ stored # t
    /\ \A a \in Actors : mine[a] # t

-----------------------------------------------------------------------------
(* resolveToken, for Connect and for the callback.                         *)

\* A failed Connect goes to Disconnected and then, while it may retry, on to
\* Reconnecting.
Failed == state' \in {"Disconnected", "Reconnecting"}

\* The provider fails, or returns an empty token.  A callback gives up: its
\* timer is not armed again.
MintFails(a) ==
    /\ Goto(a, "mint", "rest")
    /\ IF a = App
       THEN Failed /\ UNCHANGED lost
       ELSE lost' = lost \cup {"failed"} /\ UNCHANGED state
    /\ UNCHANGED <<localVars, socket, conns, token, stored, mixed>>

Mint(a) ==
    /\ Goto(a, "mint", "cache")
    /\ \E t \in Tokens : got' = [got EXCEPT ![a] = t]
    /\ UNCHANGED <<mine, due, clientVars, lost, mixed>>

\* token and tokenExpiresAt are written together.
Cache(a) ==
    /\ Goto(a, "cache", IF a = App THEN "dial" ELSE "test")
    /\ token' = got[a]
    /\ got' = [got EXCEPT ![a] = NoToken]
    /\ UNCHANGED <<mine, due, state, socket, conns, stored, lost, mixed>>

-----------------------------------------------------------------------------
(* scheduleTokenRefresh, for Connect and for the callback.                 *)

\* Where an actor goes from there.
After(a) == IF a = App THEN "commit" ELSE "rest"

\* stored.Stop(): a timer that has fired is not stopped.
Stopped == IF stored \in Timers /\ pc[stored] = "armed"
           THEN [pc EXCEPT ![stored] = "rest"] ELSE pc

\* The first critical section, and the return when the expiry is unknown.
StopOld(a) ==
    /\ pc[a] = "stopOld"
    /\ pc' = [Stopped EXCEPT ![a] = IF token \in Opaque THEN After(a)
                                    ELSE "arm"]
    /\ stored' = NoTimer
    /\ IF token \in Opaque
       THEN lost' = lost \cup {"opaque"} /\ UNCHANGED got
       ELSE got' = [got EXCEPT ![a] = token] /\ UNCHANGED lost
    /\ UNCHANGED <<mine, due, state, socket, conns, token, mixed>>

\* (mutant) The callback does not arm the next timer.
ArmOnce(a) ==
    /\ pc[a] = "arm"
    /\ \E t \in Timers :
          /\ Free(t)
          /\ IF a = App
             THEN /\ pc' = [pc EXCEPT ![a] = "store", ![t] = "armed"]
                  /\ mine' = [mine EXCEPT ![a] = t]
                  /\ due' = [due EXCEPT ![t] = got[a]]
             ELSE pc' = [pc EXCEPT ![a] = "rest"] /\ UNCHANGED <<mine, due>>
    /\ got' = [got EXCEPT ![a] = NoToken]
    /\ UNCHANGED <<clientVars, lost, mixed>>

\* time.AfterFunc, for the expiry read before: from here on the timer may fire.
Arm(a) ==
    /\ pc[a] = "arm"
    /\ \E t \in Timers :
          /\ Free(t)
          /\ pc' = [pc EXCEPT ![a] = "store", ![t] = "armed"]
          /\ mine' = [mine EXCEPT ![a] = t]
          /\ due' = [due EXCEPT ![t] = got[a]]
    /\ got' = [got EXCEPT ![a] = NoToken]
    /\ UNCHANGED <<clientVars, lost, mixed>>

\* (mutant) The callback does not store the timer it has armed.
StoreFirst(a) ==
    /\ Goto(a, "store", After(a))
    /\ stored' = IF a = App THEN mine[a] ELSE stored
    /\ mine' = [mine EXCEPT ![a] = NoTimer]
    /\ UNCHANGED <<got, due, state, socket, conns, token, lost, mixed>>

\* (mutant) The timer that is overwritten is stopped.
StoreStops(a) ==
    /\ pc[a] = "store"
    /\ pc' = [Stopped EXCEPT ![a] = After(a)]
    /\ stored' = mine[a]
    /\ mine' = [mine EXCEPT ![a] = NoTimer]
    /\ UNCHANGED <<got, due, state, socket, conns, token, lost, mixed>>

\* The second critical section.
Store(a) ==
    /\ Goto(a, "store", After(a))
    /\ stored' = mine[a]
    /\ mine' = [mine EXCEPT ![a] = NoTimer]
    /\ UNCHANGED <<got, due, state, socket, conns, token, lost, mixed>>

-----------------------------------------------------------------------------
(* Connect and Disconnect.                                                 *)

Connect ==
    /\ state \in {"Disconnected", "Reconnecting"}
    /\ conns < MaxConns
    /\ Goto(App, "rest", "mint")
    /\ state' = "Connecting"
    /\ lost' = {}
    /\ mixed' = (mixed \/ Running # {})
    /\ UNCHANGED <<localVars, socket, conns, token, stored>>

\* The manager and the worker accept the token and c.socket is set, or Connect
\* fails.
Dial ==
    /\ \/ /\ Goto(App, "dial", "stopOld")
          /\ conns' = conns + 1
          /\ socket' = TRUE
          /\ UNCHANGED state
       \/ /\ Goto(App, "dial", "rest")
          /\ Failed
          /\ UNCHANGED <<socket, conns>>
    /\ UNCHANGED <<localVars, token, stored, lost, mixed>>

Commit ==
    /\ Goto(App, "commit", "rest")
    /\ state' = "Connected"
    /\ UNCHANGED <<localVars, socket, conns, token, stored, lost, mixed>>

Disconnect ==
    /\ state # "Disconnected"
    /\ Goto(App, "rest", "halt")
    /\ mixed' = (mixed \/ Running # {})
    /\ UNCHANGED <<localVars, clientVars, lost>>

\* "Cancel any pending token refresh."
HaltTimer ==
    /\ pc[App] = "halt"
    /\ pc' = [Stopped EXCEPT ![App] = "drop"]
    /\ stored' = NoTimer
    /\ UNCHANGED <<localVars, state, socket, conns, token, lost, mixed>>

DropSocket ==
    /\ Goto(App, "drop", "down")
    /\ socket' = FALSE
    /\ UNCHANGED <<localVars, state, conns, token, stored, lost, mixed>>

Down ==
    /\ Goto(App, "down", "rest")
    /\ state' = "Disconnected"
    /\ UNCHANGED <<localVars, socket, conns, token, stored, lost, mixed>>

-----------------------------------------------------------------------------
(* The callback.                                                           *)

Fire(t) ==
    /\ Goto(t, "armed", "check")
    /\ mixed' = (mixed \/ Running # {} \/ ~Quiet)
    /\ UNCHANGED <<localVars, clientVars, lost>>

\* (mutant) The state is not looked at.
CheckNothing(t) ==
    /\ Goto(t, "check", "mint")
    /\ UNCHANGED <<localVars, clientVars, lost, mixed>>

\* Nothing arms the timer again when the client is not connected (yet).
Check(t) ==
    /\ Goto(t, "check", IF state = "Connected" THEN "mint" ELSE "rest")
    /\ lost' = IF state = "Connecting" THEN lost \cup {"early"} ELSE lost
    /\ UNCHANGED <<localVars, clientVars, mixed>>

\* if c.socket != nil
TestSocket(t) ==
    /\ Goto(t, "test", IF socket THEN "update" ELSE "stopOld")
    /\ UNCHANGED <<localVars, clientVars, lost, mixed>>

\* c.socket.updateAuth, on the socket that was tested or on a second load of
\* c.socket, which may be nil.
Update(t) ==
    /\ \/ Goto(t, "update", "stopOld")
       \/ ~socket /\ Goto(t, "update", "panic")
    /\ UNCHANGED <<localVars, clientVars, lost, mixed>>

-----------------------------------------------------------------------------
Crashed == \E t \in Timers : pc[t] = "panic"

Shared(a) ==
    MintFails(a) \/ Mint(a) \/ Cache(a) \/ StopOld(a) \/ Arm(a) \/ Store(a)

Call ==
    /\ ~Crashed
    /\ Dial \/ Commit \/ HaltTimer \/ DropSocket \/ Down
          \/ Shared(App)

Callback(t) ==
    /\ ~Crashed
    /\ Fire(t) \/ Check(t) \/ TestSocket(t) \/ Update(t) \/ Shared(t)

Next ==
    \/ ~Crashed /\ (Connect \/ Disconnect)
    \/ Call
    \/ \E t \in Timers : Callback(t)

Spec == Init /\ [][Next]_vars

\* Calls and callbacks run on, timers fire, and the provider returns.
FairSpec == Spec /\ WF_vars(Call) /\ \A t \in Timers : WF_vars(Callback(t))

-----------------------------------------------------------------------------
\* What renews the token the client holds: a timer armed for its expiry, or a
\* callback that is about to arm one, or to look at the token when it does.
Renews(t) ==
    \/ pc[t] = "armed" /\ due[t] = token
    \/ pc[t] = "arm" /\ got[t] = token
    \/ pc[t] \notin {"rest", "armed", "arm", "store"}

\* A connected client's token is always going to be renewed, and in time for its
\* own expiry: neither slow callbacks of earlier connections, which stop and
\* overwrite its timer and replace its token, nor callbacks side by side leave
\* it with a timer for another token only, or with none.  Three things end the
\* renewals: the provider fails, an expiry is unknown, or a callback finds the
\* client still connecting; and the third, like a panic, takes a callback that
\* ran beside a call or another callback.
RenewalIsBacked ==
    /\ Quiet /\ state = "Connected" => lost # {} \/ \E t \in Timers : Renews(t)
    /\ "early" \in lost \/ Crashed => mixed

\* Disconnect can stop the timer that is armed, because it is the one stored:
\* as long as callbacks have had the client to themselves, and except between
\* AfterFunc and the store, no second timer goes round.
ArmedIsStored ==
    ~mixed /\ (\A a \in Actors : pc[a] # "store") =>
        \A t \in Timers : pc[t] = "armed" => stored = t

\* While a client stays connected its token is renewed again and again, unless
\* renewals have ended for one of the three reasons.
RenewalGoesOn ==
    <>[](Quiet /\ state = "Connected" /\ lost = {} /\ ~Crashed)
        => []<><<\E t \in Timers : Cache(t)>>_vars

\* A client left without a connection stops renewing: a callback that Disconnect
\* met half-way arms one more timer, which finds the client disconnected.
DisconnectStopsRenewal ==
    <>[](Quiet /\ state # "Connected" /\ ~Crashed)
        => <>[](\A t \in Timers : pc[t] = "rest")

\* README.md:128-130, the provider is called "again shortly before the token
\* expires, so the connection refreshes itself with no restart": when no call
\* of it fails and every expiry is known, a connection is renewed for ever.
RefreshesItself ==
    <>[](Quiet /\ state = "Connected" /\ lost \subseteq {"early"} /\ ~Crashed)
        => []<><<\E t \in Timers : Cache(t)>>_vars
=============================================================================
