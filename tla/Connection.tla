----------------------------- MODULE Connection -----------------------------
(***************************************************************************)
(* What the client promises about its one connection, whatever calls are   *)
(* in progress: the contract that MqttSession implements call by call and  *)
(* KeepAlive in real time.                                                 *)
(***************************************************************************)

VARIABLES
    phase,      \* where the connection is in its life
    link,       \* is the TLS context set up
    manual      \* has the application closed the connection, and not asked for another

connectionVars == << phase, link, manual >>

\* new: never connected; waiting: lost, and to be connected again by yield
Down == { "new", "lost", "waiting", "closed" }
Phases == Down \cup { "opening", "open", "closing" }

Init == phase = "new" /\ link = FALSE /\ manual = FALSE

\* The application changes its mind.
Ask == phase \in Down /\ manual' = FALSE /\ UNCHANGED << phase, link >>

\* No connection is set up over another one, and none against the application's
\* will.
Open ==
    /\ phase \in Down /\ ~link /\ ~manual
    /\ phase' = "opening"
    /\ UNCHANGED << link, manual >>

Handshake ==
    /\ phase = "opening"
    /\ link' \in BOOLEAN
    /\ UNCHANGED << phase, manual >>

\* A client that counts as connected has a TLS context,
Opened ==
    /\ phase = "opening"
    /\ phase' = "open" /\ link' = TRUE
    /\ UNCHANGED manual

\* and one that could not connect has none.
OpenFailed ==
    /\ phase = "opening"
    /\ phase' \in { "lost", "waiting" } /\ link' = FALSE
    /\ UNCHANGED manual

\* A close either succeeds, and the context is gone, or leaves everything as
\* it was.
Close ==
    /\ phase = "open"
    /\ phase' = "closing"
    /\ UNCHANGED << link, manual >>

Release ==
    /\ phase \in { "closing", "lost" }
    /\ link' = FALSE
    /\ UNCHANGED << phase, manual >>

Closed ==
    /\ phase = "closing" /\ ~link
    /\ phase' = "closed" /\ manual' \in { manual, TRUE }
    /\ UNCHANGED link

CloseFailed ==
    /\ phase = "closing" /\ link
    /\ phase' = "open"
    /\ UNCHANGED << link, manual >>

\* A connection is lost while it is open, or closed by the client itself.  The
\* context goes before anything else can happen to the connection.
Lose ==
    /\ phase \in { "open", "closed" } /\ ~manual
    /\ \/ phase' = "lost" /\ link' \in { link, FALSE }
       \/ phase' = "waiting" /\ link' = FALSE
    /\ UNCHANGED manual

Wait ==
    /\ phase = "lost" /\ ~link
    /\ phase' = "waiting"
    /\ UNCHANGED << link, manual >>

Next ==
    \/ Ask \/ Open \/ Handshake \/ Opened \/ OpenFailed
    \/ Close \/ Release \/ Closed \/ CloseFailed \/ Lose \/ Wait

Spec == Init /\ [][Next]_connectionVars

=============================================================================
