----------------------------- MODULE MCSession -----------------------------
(***************************************************************************)
(* Instances of MqttSession: which thread calls what, and from where.      *)
(***************************************************************************)
EXTENDS MqttSession

CONSTANTS t1, t2, t3

RequestCalls == { "publish", "subscribe", "unsubscribe" }

\* The thread uses the whole API.
EveryCall == [t \in Threads |-> ApiCalls]

\* A client that never reconnects by itself.
PlainClient ==
    [t \in Threads |-> RequestCalls \cup { "connect", "disconnect", "yield" }]

\* Message handlers that may do all but open a connection.
HandlerRequests == RequestCalls \cup { "disconnect", "yield", "resubscribe" }

NoCalls == {}

\* t1 keeps the connection up and yields, as the porting guide suggests for
\* the background thread; the others send.
BackgroundYield(foreground) ==
    [t \in Threads |-> IF t = t1 THEN { "connect", "yield" } ELSE foreground]

YieldAndPublish == BackgroundYield({ "publish", "subscribe" })

\* Of the sending threads, only t2 unsubscribes.
YieldAndRequests ==
    [t \in Threads |-> CASE t = t1 -> { "connect", "yield" }
                         [] t = t2 -> RequestCalls
                         [] OTHER -> { "publish", "subscribe" }]

=============================================================================
