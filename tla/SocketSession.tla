--------------------------- MODULE SocketSession ---------------------------
(***************************************************************************)
(* What one socketIO promises the Client, whatever goroutines read, write  *)
(* and close it.  It is tried once.  On the wire, the credentials come     *)
(* before anything else, an event only once the worker has let the socket  *)
(* in, and nothing after the DISCONNECT.  A try that failed leaves nothing *)
(* behind, and those who wait for the end are released once, before the    *)
(* link goes.                                                              *)
(***************************************************************************)
EXTENDS Naturals, Sequences

VARIABLES
    stage,     \* what connect has said: "new", "trying", "up" or "failed"
    link,      \* "none", "open", "broken" or "closed"
    flag,      \* what isConnected says
    released,  \* how often those who wait on closeCh have been released
    sent       \* the frames on the wire

socketVars == <<stage, link, flag, released, sent>>

SocketInit ==
    /\ stage = "new" /\ link = "none"
    /\ flag = FALSE /\ released = 0
    /\ sent = <<>>

Was(f) == \E i \in DOMAIN sent : sent[i] = f

Dialled ==
    /\ stage = "new"
    /\ stage' = "trying" /\ link' = "open"
    /\ UNCHANGED <<flag, released, sent>>

Refused ==
    /\ stage = "new"
    /\ stage' = "failed"
    /\ UNCHANGED <<link, flag, released, sent>>

Put(f) ==
    /\ link = "open"
    /\ ~Was("bye")
    /\ sent' = Append(sent, f)
    /\ UNCHANGED <<stage, link, flag, released>>

Authenticate == sent = <<>> /\ Put("auth")
Pong == Was("auth") /\ Put("pong")
Event == Was("auth") /\ stage = "up" /\ Put("emit")
Bye == released = 1 /\ Put("bye")

\* connect returns nil.  The link may have gone by then.
Accepted ==
    /\ stage = "trying"
    /\ Was("auth")
    /\ stage' = "up" /\ flag' = TRUE
    /\ UNCHANGED <<link, released, sent>>

\* connect returns an error after it dialled: its own close, or another's, has
\* finished.
Abandoned ==
    /\ stage = "trying"
    /\ link # "none" /\ ~flag /\ released = 1
    /\ stage' = "failed" /\ link' = "closed"
    /\ UNCHANGED <<flag, released, sent>>

Lower == flag /\ flag' = FALSE /\ UNCHANGED <<stage, link, released, sent>>

Release ==
    /\ stage # "new" /\ released = 0
    /\ released' = 1
    /\ UNCHANGED <<stage, link, flag, sent>>

Lose ==
    /\ link = "open"
    /\ link' = "broken"
    /\ UNCHANGED <<stage, flag, released, sent>>

Shut ==
    /\ link \in {"open", "broken"} /\ released = 1
    /\ link' = "closed"
    /\ UNCHANGED <<stage, flag, released, sent>>

SocketNext ==
    \/ Dialled \/ Refused \/ Accepted \/ Abandoned
    \/ Authenticate \/ Pong \/ Event \/ Bye
    \/ Lower \/ Release \/ Lose \/ Shut

SocketSafety == SocketInit /\ [][SocketNext]_socketVars
=============================================================================
