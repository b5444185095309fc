---------------------------- MODULE ShadowDelta ----------------------------
(***************************************************************************)
(* Deltas of the device's own Thing Shadow: their registration, and the    *)
(* version number by which old ones are discarded.  Every change of the    *)
(* shadow document has a version; the service reports it in a delta and in *)
(* the response to the action that caused it, in either order, and a QoS 0 *)
(* message may be delivered twice.                                         *)
(***************************************************************************)
EXTENDS Naturals, SequencesExt

CONSTANTS
    MaxTokens,     \* MAX_JSON_TOKEN_EXPECTED
    Responses,     \* does the client receive update/accepted and get/accepted
    OtherThings,   \* does it act on a thing whose name contains its own
    MaxVersion,    \* bound: changes of a shadow document
    MaxInFlight,   \* bound: messages on their way
    MaxFailures,   \* bound: subscribe calls that fail
    MaxConnects    \* bound: connects after the first one

ASSUME DeltaAssumption ==
    /\ { MaxTokens, MaxVersion, MaxInFlight, MaxFailures, MaxConnects } \subseteq Nat
    /\ { Responses, OtherThings } \subseteq BOOLEAN

VARIABLES
    deltaTopicSubscribedFlag,
    tokenTableIndex,
    shadowJsonVersionNum,
    shadowDiscardOldDeltaFlag,
    deltaSubscribed,  \* the broker has the subscription to the delta topic
    version,          \* the version of the shadow document at the service
    otherVersion,     \* the version of the other thing's document
    inFlight,         \* messages on their way to the client
    given,            \* history: the versions given to the callbacks while old deltas
                      \* are discarded, since that was enabled or the version reset
    failures, connects

table == << deltaTopicSubscribedFlag, tokenTableIndex >>
local == << shadowJsonVersionNum, shadowDiscardOldDeltaFlag >>
service == << deltaSubscribed, version, otherVersion >>
vars == << table, local, service, inFlight, given, failures, connects >>

Messages == [type : { "delta", "update/accepted", "get/accepted", "other/accepted" },
             version : 1..MaxVersion]

Message(type, v) == [type |-> type, version |-> v]

-----------------------------------------------------------------------------
(* aws_iot_shadow_register_delta *)

\* The flag says "tried", not "subscribed"; the table is checked afterwards.
RegisterDelta ==
    /\ deltaTopicSubscribedFlag' = TRUE
    /\ \E ok \in BOOLEAN :
          /\ deltaTopicSubscribedFlag => ok
          /\ deltaSubscribed' = (deltaSubscribed \/ (~deltaTopicSubscribedFlag /\ ok))
          /\ ~ok => failures < MaxFailures
          /\ failures' = IF ok THEN failures ELSE failures + 1
    /\ tokenTableIndex' = IF tokenTableIndex < MaxTokens THEN tokenTableIndex + 1
                          ELSE tokenTableIndex
    /\ UNCHANGED << local, version, otherVersion, inFlight, given, connects >>

-----------------------------------------------------------------------------
(* Received messages *)

\* A message arrives, and may arrive again.
Arrives(i) ==
    /\ i \in 1..Len(inFlight)
    /\ inFlight' \in { inFlight, RemoveAt(inFlight, i) }
    /\ UNCHANGED << table, service, failures, connects >>

\* Mutant: a delta of the version that is already known still passes.
ReceiveDeltaNotOlder(i) ==
    /\ Arrives(i)
    /\ inFlight[i].type = "delta"
    /\ LET v == inFlight[i].version
       IN  IF shadowDiscardOldDeltaFlag /\ v >= shadowJsonVersionNum
           THEN shadowJsonVersionNum' = v /\ given' = Append(given, v)
           ELSE UNCHANGED << shadowJsonVersionNum, given >>
    /\ UNCHANGED shadowDiscardOldDeltaFlag

\* shadow_delta_callback.  What it gives to the callbacks while nothing is
\* discarded is not recorded.
ReceiveDelta(i) ==
    /\ Arrives(i)
    /\ inFlight[i].type = "delta"
    /\ LET v == inFlight[i].version
       IN  IF shadowDiscardOldDeltaFlag /\ v > shadowJsonVersionNum
           THEN shadowJsonVersionNum' = v /\ given' = Append(given, v)
           ELSE UNCHANGED << shadowJsonVersionNum, given >>
    /\ UNCHANGED shadowDiscardOldDeltaFlag

\* AckStatusCallback: the topic is searched for the device's own thing name, so
\* the name of the other thing is taken for it.
ReceiveResponse(i) ==
    /\ Arrives(i)
    /\ inFlight[i].type # "delta"
    /\ shadowJsonVersionNum' = IF inFlight[i].version > shadowJsonVersionNum
                               THEN inFlight[i].version ELSE shadowJsonVersionNum
    /\ UNCHANGED << shadowDiscardOldDeltaFlag, given >>

-----------------------------------------------------------------------------
(* The other calls that change this state *)

ResetLastReceivedVersion ==
    /\ shadowJsonVersionNum' = 0
    /\ given' = << >>
    /\ UNCHANGED << table, shadowDiscardOldDeltaFlag, service, inFlight, failures, connects >>

DiscardOldDeltas(enable) ==
    /\ shadowDiscardOldDeltaFlag' = enable
    /\ given' = << >>
    /\ UNCHANGED << table, shadowJsonVersionNum, service, inFlight, failures, connects >>

\* aws_iot_shadow_connect after a disconnect: a clean session, and nothing of
\* this module's state is initialized.
ShadowConnect ==
    /\ connects < MaxConnects
    /\ connects' = connects + 1
    /\ deltaSubscribed' = FALSE
    /\ inFlight' = << >>
    /\ UNCHANGED << table, local, version, otherVersion, given, failures >>

-----------------------------------------------------------------------------
(* The Shadow service *)

\* An update: its delta and its response are sent in either order.
ServiceUpdate ==
    /\ version < MaxVersion
    /\ version' = version + 1
    /\ LET delta    == IF deltaSubscribed THEN << Message("delta", version + 1) >> ELSE << >>
           accepted == IF Responses THEN << Message("update/accepted", version + 1) >>
                       ELSE << >>
       IN  /\ Len(inFlight \o delta \o accepted) <= MaxInFlight
           /\ inFlight' \in { inFlight \o delta \o accepted, inFlight \o accepted \o delta }
    /\ UNCHANGED << table, local, deltaSubscribed, otherVersion, given,
                    failures, connects >>

ServiceGet ==
    /\ Responses /\ version > 0
    /\ Len(inFlight) < MaxInFlight
    /\ inFlight' = Append(inFlight, Message("get/accepted", version))
    /\ UNCHANGED << table, local, service, given, failures, connects >>

ServiceUpdateOther ==
    /\ OtherThings /\ otherVersion < MaxVersion
    /\ Len(inFlight) < MaxInFlight
    /\ otherVersion' = otherVersion + 1
    /\ inFlight' = Append(inFlight, Message("other/accepted", otherVersion + 1))
    /\ UNCHANGED << table, local, deltaSubscribed, version, given,
                    failures, connects >>

-----------------------------------------------------------------------------
(* The specification *)

\* aws_iot_shadow_init and the first aws_iot_shadow_connect have succeeded.
Init ==
    /\ deltaTopicSubscribedFlag = FALSE
    /\ tokenTableIndex = 0
    /\ shadowJsonVersionNum = 0
    /\ shadowDiscardOldDeltaFlag = TRUE
    /\ deltaSubscribed = FALSE
    /\ version = 0 /\ otherVersion = 0
    /\ inFlight = << >>
    /\ given = << >>
    /\ failures = 0 /\ connects = 0

Next ==
    \/ RegisterDelta
    \/ \E i \in 1..MaxInFlight : ReceiveDelta(i) \/ ReceiveResponse(i)
    \/ ResetLastReceivedVersion
    \/ \E enable \in BOOLEAN : DiscardOldDeltas(enable)
    \/ ShadowConnect
    \/ ServiceUpdate \/ ServiceGet \/ ServiceUpdateOther

Spec == Init /\ [][Next]_vars

-----------------------------------------------------------------------------
(* Properties *)

\* The variables have their types: no more keys are registered than the token
\* table of the deltas holds.
TypeOK ==
    /\ { deltaTopicSubscribedFlag, shadowDiscardOldDeltaFlag, deltaSubscribed }
          \subseteq BOOLEAN
    /\ tokenTableIndex \in 0..MaxTokens
    /\ { shadowJsonVersionNum, version, otherVersion } \subseteq 0..MaxVersion
    /\ given \in Seq(1..MaxVersion)
    /\ inFlight \in Seq(Messages) /\ Len(inFlight) <= MaxInFlight
    /\ failures \in 0..MaxFailures /\ connects \in 0..MaxConnects

\* "To avoid getting called for the same message, this functionality should be
\* enabled. All the old message will be ignored": as long as discarding is
\* enabled and the version is not reset, the callbacks see every version at most
\* once and in order, however messages are repeated and overtaken, and also
\* across connections.
DeltasInOrder == \A i, j \in 1..Len(given) : i < j => given[i] < given[j]

=============================================================================
