---------------------------- MODULE DeltaProofs ----------------------------
(***************************************************************************)
(* Theorems about ShadowDelta, for any number of keys, versions, messages  *)
(* in flight, failures and connects.                                       *)
(***************************************************************************)
EXTENDS ShadowDelta, SequenceTheorems, TLAPS

-----------------------------------------------------------------------------
(* Types *)

\* A new connection has no messages on their way.
LEMMA NothingInFlight == << >> \in Seq(Messages) /\ Len(<< >>) = 0
  OBVIOUS

\* A message that arrives, once or again, leaves messages on their way.
LEMMA ArrivesType ==
    ASSUME TypeOK, NEW i \in Nat, Arrives(i)
    PROVE  /\ inFlight[i] \in Messages
           /\ inFlight' \in Seq(Messages) /\ Len(inFlight') <= MaxInFlight
<1> DEFINE before == SubSeq(inFlight, 1, i - 1)
           after == SubSeq(inFlight, i + 1, Len(inFlight))
<1>1. inFlight \in Seq(Messages) /\ i \in 1..Len(inFlight)
  BY DEF TypeOK, Arrives
<1>2. Len(inFlight) \in Nat /\ MaxInFlight \in Nat /\ Len(inFlight) <= MaxInFlight
  BY <1>1, DeltaAssumption DEF TypeOK
<1>3. before \in Seq(Messages) /\ Len(before) = i - 1
  BY <1>1, <1>2, SubSeqProperties
<1>4. after \in Seq(Messages) /\ Len(after) = Len(inFlight) - i
  BY <1>1, <1>2, SubSeqProperties
<1> HIDE DEF before, after
<1>5. before \o after \in Seq(Messages) /\ Len(before \o after) = Len(inFlight) - 1
  BY <1>1, <1>2, <1>3, <1>4, ConcatProperties
<1>6. inFlight' \in { inFlight, before \o after }
  BY DEF Arrives, RemoveAt, before, after
<1>7. inFlight[i] \in Messages
  BY <1>1, ElementOfSeq
<1>8. CASE inFlight' = inFlight
  BY <1>1, <1>2, <1>7, <1>8
<1>9. CASE inFlight' = before \o after
  BY <1>2, <1>5, <1>7, <1>9
<1> QED
  BY <1>6, <1>8, <1>9

\* A message of the service is one, and adds one to those on their way.
LEMMA SentType ==
    ASSUME TypeOK, NEW type \in { "update/accepted", "get/accepted", "other/accepted" },
           NEW v \in 1..MaxVersion, Len(inFlight) < MaxInFlight,
           inFlight' = Append(inFlight, Message(type, v))
    PROVE  inFlight' \in Seq(Messages) /\ Len(inFlight') <= MaxInFlight
<1>1. Message(type, v) \in Messages
  BY DEF Message, Messages
<1> QED
  BY <1>1, DeltaAssumption DEF TypeOK

\* So do the delta and the response of an update, in either order.
LEMMA UpdateType ==
    ASSUME TypeOK, ServiceUpdate
    PROVE  inFlight' \in Seq(Messages) /\ Len(inFlight') <= MaxInFlight
<1> DEFINE delta == IF deltaSubscribed THEN << Message("delta", version + 1) >> ELSE << >>
           accepted == IF Responses THEN << Message("update/accepted", version + 1) >>
                       ELSE << >>
<1>1. version + 1 \in 1..MaxVersion
  BY DeltaAssumption DEF ServiceUpdate, TypeOK
<1>2. delta \in Seq(Messages) /\ accepted \in Seq(Messages)
  <2>1. /\ Message("delta", version + 1) \in Messages
        /\ Message("update/accepted", version + 1) \in Messages
    BY <1>1 DEF Message, Messages
  <2> QED
    BY <2>1
<1>3. /\ Len(inFlight \o delta \o accepted) <= MaxInFlight
      /\ inFlight' \in { inFlight \o delta \o accepted, inFlight \o accepted \o delta }
  BY DEF ServiceUpdate
<1>4. inFlight \in Seq(Messages)
  BY DEF TypeOK
<1> HIDE DEF delta, accepted
<1>5. /\ inFlight \o delta \o accepted \in Seq(Messages)
      /\ inFlight \o accepted \o delta \in Seq(Messages)
      /\ Len(inFlight \o accepted \o delta) = Len(inFlight \o delta \o accepted)
  BY <1>2, <1>4
<1> QED
  BY <1>3, <1>5

\* Every step keeps the types.
LEMMA NextType == TypeOK /\ [Next]_vars => TypeOK'
<1> SUFFICES ASSUME TypeOK, [Next]_vars
             PROVE  TypeOK'
  OBVIOUS
<1> USE DeltaAssumption
<1>1. CASE RegisterDelta
  BY <1>1 DEF RegisterDelta, TypeOK, local
<1>2. ASSUME NEW i \in 1..MaxInFlight, ReceiveDelta(i)
      PROVE  TypeOK'
  <2>1. Arrives(i) /\ i \in Nat
    BY <1>2 DEF ReceiveDelta
  <2>2. /\ inFlight[i] \in Messages
        /\ inFlight' \in Seq(Messages) /\ Len(inFlight') <= MaxInFlight
    BY <2>1, ArrivesType
  <2>3. inFlight[i].version \in 1..MaxVersion
    BY <2>2 DEF Messages
  <2>4. /\ shadowJsonVersionNum' \in { shadowJsonVersionNum, inFlight[i].version }
        /\ given' \in { given, Append(given, inFlight[i].version) }
    BY <1>2 DEF ReceiveDelta
  <2>5. UNCHANGED << table, service, failures, connects, shadowDiscardOldDeltaFlag >>
    BY <1>2 DEF ReceiveDelta, Arrives
  <2>6. UNCHANGED << deltaTopicSubscribedFlag, deltaSubscribed, tokenTableIndex, version,
                     otherVersion >>
    BY <2>5 DEF table, service
  <2>7. shadowJsonVersionNum' \in 0..MaxVersion
    <3>1. shadowJsonVersionNum \in 0..MaxVersion
      BY DEF TypeOK
    <3> QED
      BY <2>3, <2>4, <3>1
  <2>8. given' \in Seq(1..MaxVersion)
    <3>1. given \in Seq(1..MaxVersion)
      BY DEF TypeOK
    <3>2. Append(given, inFlight[i].version) \in Seq(1..MaxVersion)
      BY <2>3, <3>1, AppendProperties
    <3> QED
      BY <2>4, <3>1, <3>2
  <2> QED
    BY <2>2, <2>5, <2>6, <2>7, <2>8 DEF TypeOK
<1>3. ASSUME NEW i \in 1..MaxInFlight, ReceiveResponse(i)
      PROVE  TypeOK'
  <2>1. Arrives(i) /\ i \in Nat
    BY <1>3 DEF ReceiveResponse
  <2>2. /\ inFlight[i] \in Messages
        /\ inFlight' \in Seq(Messages) /\ Len(inFlight') <= MaxInFlight
    BY <2>1, ArrivesType
  <2>3. inFlight[i].version \in 1..MaxVersion
    BY <2>2 DEF Messages
  <2>4. /\ shadowJsonVersionNum' \in { shadowJsonVersionNum, inFlight[i].version }
        /\ given' = given
    BY <1>3 DEF ReceiveResponse
  <2>5. UNCHANGED << table, service, failures, connects, shadowDiscardOldDeltaFlag >>
    BY <1>3 DEF ReceiveResponse, Arrives
  <2>6. UNCHANGED << deltaTopicSubscribedFlag, deltaSubscribed, tokenTableIndex, version,
                     otherVersion >>
    BY <2>5 DEF table, service
  <2>7. shadowJsonVersionNum' \in 0..MaxVersion
    <3>1. shadowJsonVersionNum \in 0..MaxVersion
      BY DEF TypeOK
    <3> QED
      BY <2>3, <2>4, <3>1
  <2>8. given' \in Seq(1..MaxVersion)
    <3>1. given \in Seq(1..MaxVersion)
      BY DEF TypeOK
    <3> QED
      BY <2>4, <3>1
  <2> QED
    BY <2>2, <2>5, <2>6, <2>7, <2>8 DEF TypeOK
<1>4. CASE ResetLastReceivedVersion
  BY <1>4 DEF ResetLastReceivedVersion, TypeOK, table, service
<1>5. ASSUME NEW enable \in BOOLEAN, DiscardOldDeltas(enable)
      PROVE  TypeOK'
  BY <1>5 DEF DiscardOldDeltas, TypeOK, table, service
<1>6. CASE ShadowConnect
  <2>1. inFlight' \in Seq(Messages) /\ Len(inFlight') <= MaxInFlight
    BY <1>6, NothingInFlight DEF ShadowConnect
  <2>2. connects' \in 0..MaxConnects
    BY <1>6 DEF ShadowConnect, TypeOK
  <2> QED
    BY <1>6, <2>1, <2>2 DEF ShadowConnect, TypeOK, table, local
<1>7. CASE ServiceUpdate
  <2>1. inFlight' \in Seq(Messages) /\ Len(inFlight') <= MaxInFlight
    BY <1>7, UpdateType
  <2>2. /\ version' \in 0..MaxVersion
        /\ UNCHANGED << table, local, deltaSubscribed, otherVersion, given,
                        failures, connects >>
    BY <1>7 DEF ServiceUpdate, TypeOK
  <2> QED
    BY <2>1, <2>2 DEF TypeOK, table, local
<1>8. CASE ServiceGet
  <2>1. version \in 1..MaxVersion
    BY <1>8 DEF ServiceGet, TypeOK
  <2> QED
    BY <1>8, <2>1, SentType DEF ServiceGet, TypeOK, table, local, service
<1>9. CASE ServiceUpdateOther
  <2>1. otherVersion + 1 \in 1..MaxVersion
    BY <1>9 DEF ServiceUpdateOther, TypeOK
  <2>2. inFlight' \in Seq(Messages) /\ Len(inFlight') <= MaxInFlight
    BY <1>9, <2>1, SentType DEF ServiceUpdateOther
  <2>3. /\ otherVersion' \in 0..MaxVersion
        /\ UNCHANGED << table, local, deltaSubscribed, version, given,
                        failures, connects >>
    BY <1>9, <2>1 DEF ServiceUpdateOther
  <2> QED
    BY <2>2, <2>3 DEF TypeOK, table, local
<1>10. CASE UNCHANGED vars
  BY <1>10 DEF vars, TypeOK, table, local, service
<1> QED
  BY <1>1, <1>2, <1>3, <1>4, <1>5, <1>6, <1>7, <1>8, <1>9, <1>10 DEF Next

\* The variables of the delta registration and of the version tracking keep
\* their types, whatever the service sends and however often it arrives.
THEOREM DeltaTypes == Spec => []TypeOK
<1>1. Init => TypeOK
  <2> SUFFICES ASSUME Init PROVE TypeOK
    OBVIOUS
  <2>1. inFlight \in Seq(Messages) /\ Len(inFlight) <= MaxInFlight
    BY DeltaAssumption, NothingInFlight DEF Init
  <2>2. /\ { shadowJsonVersionNum, version, otherVersion } \subseteq 0..MaxVersion
        /\ given \in Seq(1..MaxVersion)
    BY DeltaAssumption, EmptySeq DEF Init
  <2>3. /\ tokenTableIndex \in 0..MaxTokens
        /\ failures \in 0..MaxFailures /\ connects \in 0..MaxConnects
    BY DeltaAssumption DEF Init
  <2> QED
    BY <2>1, <2>2, <2>3 DEF Init, TypeOK
<1> QED
  BY <1>1, NextType, PTL DEF Spec

-----------------------------------------------------------------------------
(* The order of deltas *)

\* What makes DeltasInOrder true: nothing newer than the version number has been
\* given to the callbacks.
VersionCovers == \A i \in 1..Len(given) : given[i] <= shadowJsonVersionNum

OrderInv == VersionCovers /\ DeltasInOrder

\* A version number that has not gone down covers what has been given.
LEMMA StillCovered ==
    ASSUME TypeOK, OrderInv, given' = given, shadowJsonVersionNum' \in Nat,
           shadowJsonVersionNum <= shadowJsonVersionNum'
    PROVE  OrderInv'
<1>1. given \in Seq(Nat) /\ shadowJsonVersionNum \in Nat
  BY DeltaAssumption, SeqMonotonic DEF TypeOK
<1>2. \A i \in 1..Len(given) : given[i] \in Nat
  BY <1>1, ElementOfSeq
<1> QED
  BY <1>1, <1>2 DEF OrderInv, VersionCovers, DeltasInOrder

\* Where nothing has been given since, there is nothing to cover.
LEMMA NothingGiven == given' = << >> => OrderInv'
  BY DEF OrderInv, VersionCovers, DeltasInOrder

\* A delta that passes is newer than all before it.
LEMMA NewerGiven ==
    ASSUME TypeOK, OrderInv, NEW v \in 1..MaxVersion, v > shadowJsonVersionNum,
           shadowJsonVersionNum' = v, given' = Append(given, v)
    PROVE  OrderInv'
<1>1. given \in Seq(Nat) /\ shadowJsonVersionNum \in Nat /\ v \in Nat /\ Len(given) \in Nat
  BY DeltaAssumption, SeqMonotonic DEF TypeOK
<1>2. \A i \in 1..Len(given) : given[i] \in Nat
  BY <1>1, ElementOfSeq
<1>3. /\ Len(given') = Len(given) + 1 /\ given'[Len(given) + 1] = v
      /\ \A i \in 1..Len(given) : given'[i] = given[i]
  BY <1>1, AppendProperties
<1>4. \A i \in 1..Len(given) : given[i] < v
  BY <1>1, <1>2 DEF OrderInv, VersionCovers
<1>5. VersionCovers'
  BY <1>1, <1>2, <1>3, <1>4 DEF VersionCovers
<1>6. DeltasInOrder'
  <2> SUFFICES ASSUME NEW i \in 1..Len(given'), NEW j \in 1..Len(given'), i < j
               PROVE  given'[i] < given'[j]
    BY DEF DeltasInOrder
  <2>1. CASE j = Len(given) + 1
    BY <1>1, <1>3, <1>4, <2>1
  <2>2. CASE j # Len(given) + 1
    BY <1>1, <1>3, <2>2 DEF OrderInv, DeltasInOrder
  <2> QED
    BY <2>1, <2>2
<1> QED
  BY <1>5, <1>6 DEF OrderInv

LEMMA NextInOrder == TypeOK /\ OrderInv /\ [Next]_vars => OrderInv'
<1> SUFFICES ASSUME TypeOK, OrderInv, [Next]_vars
             PROVE  OrderInv'
  OBVIOUS
<1>0. shadowJsonVersionNum \in Nat
  BY DeltaAssumption DEF TypeOK
<1>1. CASE RegisterDelta
  BY <1>0, <1>1, StillCovered DEF RegisterDelta, local
<1>2. ASSUME NEW i \in 1..MaxInFlight, ReceiveDelta(i)
      PROVE  OrderInv'
  <2>1. inFlight[i].version \in 1..MaxVersion
    BY <1>2, ArrivesType, DeltaAssumption DEF ReceiveDelta, Messages
  <2>2. CASE shadowDiscardOldDeltaFlag /\ inFlight[i].version > shadowJsonVersionNum
    <3> DEFINE v == inFlight[i].version
    <3>1. shadowJsonVersionNum' = v /\ given' = Append(given, v)
      BY <1>2, <2>2 DEF ReceiveDelta
    <3>2. v \in 1..MaxVersion /\ v > shadowJsonVersionNum
      BY <2>1, <2>2
    <3> HIDE DEF v
    <3> QED
      BY <3>1, <3>2, NewerGiven
  <2>3. CASE ~(shadowDiscardOldDeltaFlag /\ inFlight[i].version > shadowJsonVersionNum)
    <3>1. UNCHANGED << shadowJsonVersionNum, given >>
      BY <1>2, <2>3 DEF ReceiveDelta
    <3> QED
      BY <1>0, <3>1, StillCovered
  <2> QED
    BY <2>2, <2>3
<1>3. ASSUME NEW i \in 1..MaxInFlight, ReceiveResponse(i)
      PROVE  OrderInv'
  <2>1. inFlight[i].version \in Nat
    BY <1>3, ArrivesType, DeltaAssumption DEF ReceiveResponse, Messages
  <2>2. /\ given' = given
        /\ shadowJsonVersionNum' = IF inFlight[i].version > shadowJsonVersionNum
                                    THEN inFlight[i].version ELSE shadowJsonVersionNum
    BY <1>3 DEF ReceiveResponse
  <2>3. shadowJsonVersionNum' \in Nat /\ shadowJsonVersionNum <= shadowJsonVersionNum'
    BY <1>0, <2>1, <2>2
  <2> QED
    BY <2>2, <2>3, StillCovered
<1>4. CASE ResetLastReceivedVersion
  BY <1>4, NothingGiven DEF ResetLastReceivedVersion
<1>5. ASSUME NEW enable \in BOOLEAN, DiscardOldDeltas(enable)
      PROVE  OrderInv'
  BY <1>5, NothingGiven DEF DiscardOldDeltas
<1>6. CASE ShadowConnect
  BY <1>0, <1>6, StillCovered DEF ShadowConnect, local
<1>7. CASE ServiceUpdate
  BY <1>0, <1>7, StillCovered DEF ServiceUpdate, local
<1>8. CASE ServiceGet
  BY <1>0, <1>8, StillCovered DEF ServiceGet, local
<1>9. CASE ServiceUpdateOther
  BY <1>0, <1>9, StillCovered DEF ServiceUpdateOther, local
<1>10. CASE UNCHANGED vars
  BY <1>0, <1>10, StillCovered DEF vars, local
<1> QED
  BY <1>1, <1>2, <1>3, <1>4, <1>5, <1>6, <1>7, <1>8, <1>9, <1>10 DEF Next

\* As long as discarding is enabled the delta callbacks see each version at most
\* once and in order, for any number of repeated and overtaken messages.
THEOREM DeltasStayInOrder == Spec => []DeltasInOrder
<1>1. Init => OrderInv
  BY DEF Init, OrderInv, VersionCovers, DeltasInOrder
<1>2. OrderInv => DeltasInOrder
  BY DEF OrderInv
<1> QED
  BY <1>1, <1>2, NextInOrder, DeltaTypes, PTL DEF Spec

=============================================================================
