---------------------------- MODULE MCKeepAlive ----------------------------
(***************************************************************************)
(* An instance of KeepAlive.                                               *)
(***************************************************************************)
EXTENDS KeepAlive

\* What the client structure may hold where init has not written: nothing, an
\* interval of a back-off, or one beyond the maximum.
AnyWait == { 0, MinReconnectWait, 2 * MaxReconnectWait }

=============================================================================
