---------------------------- MODULE RequestReply ----------------------------
(***************************************************************************)
(* What a call of the SDK promises the application, whichever of the two   *)
(* request/response paths carries it out: it returns once, with a reply    *)
(* that fits the call or without one, what it returned with never changes, *)
(* and a reply that answers a call comes after that call was asked.        *)
(***************************************************************************)
CONSTANTS
    Calls,
    Nothing,    \* the reply of a call that has none
    Fitting,    \* of each call, the replies it may return
    Origin      \* of each reply, the calls it answers: one, or none

VARIABLES
    phase,      \* "new", "open" or "returned"
    asked,      \* calls whose request has reached the worker
    reply       \* what each call returned

callVars == <<phase, asked, reply>>

CallInit ==
    /\ phase = [c \in Calls |-> "new"]
    /\ asked = {}
    /\ reply = [c \in Calls |-> Nothing]

Move(c, from, to) ==
    /\ phase[c] \in from
    /\ phase' = [phase EXCEPT ![c] = to]

Open(c) == Move(c, {"new"}, "open") /\ UNCHANGED <<asked, reply>>

Ask(c) ==
    /\ phase[c] = "open"
    /\ asked' = asked \cup {c}
    /\ UNCHANGED <<phase, reply>>

\* A notice is asked and returns at once.
Post(c) ==
    /\ Move(c, {"open"}, "returned")
    /\ asked' = asked \cup {c}
    /\ UNCHANGED reply

Return(c) ==
    /\ Move(c, {"open"}, "returned")
    /\ \E m \in Fitting[c] :
          /\ Origin[m] \subseteq asked
          /\ reply' = [reply EXCEPT ![c] = m]
    /\ UNCHANGED asked

\* No connection, a failed write, a timeout, a closed socket.
Fail(c) == Move(c, {"new", "open"}, "returned") /\ UNCHANGED <<asked, reply>>

CallNext ==
    \E c \in Calls : Open(c) \/ Ask(c) \/ Post(c) \/ Return(c) \/ Fail(c)

CallSafety == CallInit /\ [][CallNext]_callVars
=============================================================================
