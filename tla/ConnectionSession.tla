-------------------------- MODULE ConnectionSession --------------------------
(***************************************************************************)
(* What the connection lifecycle of Client promises, whatever goroutines   *)
(* and sockets carry it out: a session is down, being tried, waiting to be *)
(* tried again, or up; a failed try is repeated while the retry budget     *)
(* lasts; a session that is up holds its link, and no other phase has one. *)
(* The promise ends where two goroutines are inside the client at once.    *)
(***************************************************************************)
EXTENDS Naturals

CONSTANT Budget  \* Client.maxReconnectAttempts

VARIABLES
    phase,  \* what GetConnectionState reports, between two steps of Connect
    tries,  \* retries spent since the session was last up
    link    \* TRUE while the client holds a transport

sessionVars == <<phase, tries, link>>

SessionInit == phase = "down" /\ tries = 0 /\ link = FALSE

\* Connect on a client that is down, or the retry of one that waits.
Try ==
    /\ phase \in {"down", "waiting"}
    /\ phase' = "trying"
    /\ UNCHANGED <<tries, link>>

Retry == phase = "waiting" /\ Try

Succeed ==
    /\ phase = "trying"
    /\ phase' = "up"
    /\ tries' = 0
    /\ link' = TRUE

Postpone ==
    /\ phase = "trying"
    /\ tries < Budget
    /\ phase' = "waiting"
    /\ tries' = tries + 1
    /\ UNCHANGED link

GiveUp ==
    /\ phase = "trying"
    /\ tries >= Budget
    /\ phase' = "down"
    /\ UNCHANGED <<tries, link>>

\* Disconnect and Close.
Shut ==
    /\ phase \in {"waiting", "up"}
    /\ phase' = "down"
    /\ link' = FALSE
    /\ UNCHANGED tries

\* A goroutine enters while another is inside: nothing more is promised.
Contend ==
    /\ phase' = "contended"
    /\ tries' = 0
    /\ link' = FALSE

SessionNext == Try \/ Succeed \/ Postpone \/ GiveUp \/ Shut \/ Contend

SessionSafety == SessionInit /\ [][SessionNext]_sessionVars

\* A try ends, and a session that waits is tried again (or shut).
SessionSpec ==
    /\ SessionSafety
    /\ WF_sessionVars(Succeed \/ Postpone \/ GiveUp)
    /\ WF_sessionVars(Retry)
=============================================================================
