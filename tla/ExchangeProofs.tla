--------------------------- MODULE ExchangeProofs ---------------------------
(***************************************************************************)
(* Proofs about the exchange of packets between client and broker: each    *)
(* QoS 1 message is in one place until it is acknowledged or given up, a   *)
(* confirmed subscription keeps its handler, and a publish is confirmed by *)
(* its own PUBACK; and about the handler table and the broker's            *)
(* subscriptions: between calls they agree, and resubscribe never sends a  *)
(* slot that was freed.                                                    *)
(***************************************************************************)
EXTENDS MqttExchange, FiniteSetTheorems, FunctionTheorems, SequenceTheorems,
        WellFoundedInduction, TLAPS

-----------------------------------------------------------------------------
(* Counting in sequences *)

Places(s, P) == { i \in 1..Len(s) : s[i] \in P }

Count(s, P) == Cardinality(Places(s, P))

Members(s) == { s[i] : i \in 1..Len(s) }

-----------------------------------------------------------------------------
(* The inductive invariants *)

\* What the fields of a frame may hold at each place of a call.
FrameFits(f) ==
    /\ f.op \in { "publish", "subscribe", "unsubscribe" } => f.pc = "wait"
    /\ f.op = "deliver" => f.pc \in { "match", "callback" }
    /\ f.op = "resubscribe" => f.pc \in { "send", "wait" } /\ f.n <= f.count
    /\ f.op = "resubscribe" /\ f.pc = "wait" => f.n < f.count
    /\ f.pc = "callback" => f.n \in Slots
    /\ f.op = "subscribe" => f.n \in Slots
    /\ f.op \in { "subscribe", "unsubscribe" } => f.topic \in Topics
    /\ f.op = "publish" => f.id \in 1..MaxPacketId

CallsFit ==
    \A n \in 1..Len(calls) :
        /\ FrameFits(calls[n])
        /\ calls[n].pc = "send" => n = Len(calls)
        /\ calls[n].op = "resubscribe" => n = 1 /\ drops > 0

SendsFit ==
    \A i \in 1..Len(toBroker) : toBroker[i].type = "PUBLISH" => toBroker[i].id <= MaxPacketId

DeadIsEmpty ==
    ~up => /\ toBroker = << >> /\ toClient = << >>
           /\ brokerSubs = {} /\ awaiting = {} /\ drops > 0

\* The types of all but the marks.
CoreTypes ==
    /\ up \in BOOLEAN
    /\ toBroker \in Seq(Packets) /\ toClient \in Seq(Packets)
    /\ brokerSubs \subseteq Topics \cup { NoTopic }
    /\ awaiting \subseteq 1..MaxMessages
    /\ acked \subseteq 1..MaxPacketId
    /\ handlers \in [Slots -> Topics \cup { NoTopic }]
    /\ nextPacketId \in 1..MaxPacketId
    /\ bufTopic \in Topics \cup { NoTopic }
    /\ calls \in Seq(CallFrames)
    /\ confirmed \subseteq Topics
    /\ requests \in 0..MaxRequests /\ messages \in 0..MaxMessages
    /\ timeouts \in 0..MaxTimeouts /\ drops \in 0..MaxDrops
    /\ refusals \in 0..MaxRefusals

Typed == CoreTypes /\ CallsFit /\ SendsFit /\ DeadIsEmpty

\* The identifiers of messages are handed out in turn.
MessageIds ==
    /\ awaiting \subseteq 1..messages /\ unacked \subseteq 1..messages
    /\ \A p \in Members(toClient) : p.type = "PUBLISH" => p.id <= messages
    /\ \A f \in Members(calls) : f.op = "deliver" => f.id <= messages
    /\ \A p \in Members(toBroker) : p.type = "PUBACK" => p.id <= messages

\* Message handlers do not subscribe; the slot a subscribe has chosen then stays
\* free until it is answered.
HandlersDoNotSubscribe == "subscribe" \notin CallbackCalls

Reserved ==
    \A n \in 1..Len(calls) : calls[n].op = "subscribe" =>
        n = 1 /\ handlers[calls[n].n] = NoTopic

KeptInv == Reserved /\ SubscriptionKept

\* While no command has timed out, no more answers come than calls wait for.
Acks == { "PUBACK", "SUBACK", "UNSUBACK" }

Asking(ack) ==
    { p \in Packets :
        \/ ack = "PUBACK" /\ p.type = "PUBLISH" /\ p.id # 0
        \/ ack = "SUBACK" /\ p.type = "SUBSCRIBE"
        \/ ack = "UNSUBACK" /\ p.type = "UNSUBSCRIBE" }

Answering(ack) == { p \in Packets : p.type = ack }

WaitingFor(ack) ==
    { f \in CallFrames :
        /\ f.pc = "wait"
        /\ \/ ack = "PUBACK" /\ f.op = "publish"
           \/ ack = "SUBACK" /\ f.op \in { "subscribe", "resubscribe" }
           \/ ack = "UNSUBACK" /\ f.op = "unsubscribe" }

Asked(ack) == Count(toBroker, Asking(ack))

Answered(ack) == Count(toClient, Answering(ack))

Waiters(ack) == Count(calls, WaitingFor(ack))

Matched ==
    up /\ timeouts = 0 => \A ack \in Acks : Asked(ack) + Answered(ack) <= Waiters(ack)

\* Message handlers do not publish with QoS 1.  The only publish that waits is then
\* the outermost call, and the answers on their way are its own.
HandlersDoNotPublish == "publish" \notin CallbackCalls

\* The application's own call, not one of a message handler.
Outermost(op) == Len(calls) > 0 /\ calls[1].op = op

Publishing == Outermost("publish")

PublishOutermost == \A n \in 1..Len(calls) : calls[n].op = "publish" => n = 1

OwnAnswers ==
    up /\ timeouts = 0 =>
        /\ \A p \in Members(toBroker) :
              p \in Asking("PUBACK") => Publishing /\ p.id = calls[1].id
        /\ Answered("PUBACK") > 0 => Publishing /\ calls[1].id \in acked

PublishInv == Matched /\ PublishOutermost /\ OwnAnswers
-----------------------------------------------------------------------------
(* Lemmas about counting *)

LEMMA CountFacts ==
    ASSUME NEW S, NEW s \in Seq(S), NEW P
    PROVE  /\ IsFiniteSet(Places(s, P)) /\ Count(s, P) \in Nat
           /\ Count(s, P) = 0 <=> \A i \in 1..Len(s) : s[i] \notin P
<1>1. Len(s) \in Nat
  OBVIOUS
<1>2. IsFiniteSet(1..Len(s))
  BY <1>1, FS_Interval
<1>3. Places(s, P) \in SUBSET (1..Len(s))
  BY DEF Places
<1>4. IsFiniteSet(Places(s, P))
  BY <1>2, <1>3, FS_Subset
<1>5. Count(s, P) \in Nat /\ (Count(s, P) = 0 <=> Places(s, P) = {})
  BY <1>4, FS_CardinalityType, FS_EmptySet DEF Count
<1> QED
  BY <1>4, <1>5 DEF Places

LEMMA CountEmpty ==
    ASSUME NEW P
    PROVE  Count(<< >>, P) = 0
<1>1. Places(<< >>, P) = {}
  BY DEF Places
<1> QED
  BY <1>1, FS_EmptySet DEF Count

LEMMA CountAppend ==
    ASSUME NEW S, NEW s \in Seq(S), NEW e \in S, NEW P
    PROVE  Count(Append(s, e), P) = IF e \in P THEN Count(s, P) + 1 ELSE Count(s, P)
<1> DEFINE r == Append(s, e)
           d == Len(s)
<1>1. /\ d \in Nat /\ Len(r) = d + 1 /\ r[d + 1] = e
      /\ \A i \in 1..d : r[i] = s[i]
  OBVIOUS
<1>2. \A i : i \in 1..(d + 1) <=> i \in 1..d \/ i = d + 1
  BY <1>1
<1>3. d + 1 \notin 1..d
  BY <1>1
<1> HIDE DEF r, d
<1>4. Places(s, P) = { i \in 1..d : s[i] \in P }
  BY DEF Places, d
<1>5. Places(r, P) = { i \in 1..(d + 1) : r[i] \in P }
  BY <1>1 DEF Places
<1>6. CASE e \in P
  <2>1. Places(r, P) = Places(s, P) \cup { d + 1 }
    BY <1>1, <1>2, <1>4, <1>5, <1>6
  <2>2. d + 1 \notin Places(s, P)
    BY <1>3, <1>4
  <2> QED
    BY <1>6, <2>1, <2>2, CountFacts, FS_AddElement DEF Count, r
<1>7. CASE e \notin P
  <2>1. Places(r, P) = Places(s, P)
    BY <1>1, <1>2, <1>4, <1>5, <1>7
  <2> QED
    BY <1>7, <2>1 DEF Count, r
<1> QED
  BY <1>6, <1>7

LEMMA CountTail ==
    ASSUME NEW S, NEW s \in Seq(S), s # << >>, NEW P
    PROVE  /\ Tail(s) \in Seq(S) /\ Head(s) \in S
           /\ Count(s, P) = IF Head(s) \in P THEN Count(Tail(s), P) + 1 ELSE Count(Tail(s), P)
<1> DEFINE r == Tail(s)
           d == Len(r)
           T == Places(s, P) \ { 1 }
           f == [i \in Places(r, P) |-> i + 1]
<1>1. /\ r \in Seq(S) /\ Head(s) \in S /\ Len(s) = d + 1 /\ d \in Nat
      /\ \A i \in 1..d : r[i] = s[i + 1]
  BY HeadTailProperties
<1>2. Head(s) = s[1]
  OBVIOUS
<1>3. \A i : i \in 1..(d + 1) <=> i = 1 \/ \E j \in 1..d : i = j + 1
  <2>1. d \in Nat
    BY <1>1
  <2> HIDE DEF d
  <2>2. ASSUME NEW i \in 1..(d + 1), i # 1
        PROVE  \E j \in 1..d : i = j + 1
    <3>1. i - 1 \in 1..d /\ i = (i - 1) + 1
      BY <2>1, <2>2
    <3> QED
      BY <3>1
  <2>3. 1 \in 1..(d + 1) /\ \A j \in 1..d : j + 1 \in 1..(d + 1)
    BY <2>1
  <2> QED
    BY <2>2, <2>3
<1>4. \A i, j \in 1..d : i + 1 = j + 1 => i = j
  BY <1>1
<1>5. \A j \in 1..d : j + 1 # 1
  BY <1>1
<1> HIDE DEF r, d
<1>6. Places(s, P) = { i \in 1..(d + 1) : s[i] \in P }
  BY <1>1 DEF Places
<1>7. Places(r, P) = { i \in 1..d : r[i] \in P }
  BY DEF Places, d
<1>8. f \in [Places(r, P) -> T]
  BY <1>1, <1>3, <1>5, <1>6, <1>7
<1>9. \A a, b \in Places(r, P) : f[a] = f[b] => a = b
  BY <1>4, <1>7
<1>10. \A t \in T : \E i \in Places(r, P) : f[i] = t
  <2> SUFFICES ASSUME NEW t \in T
               PROVE  \E i \in Places(r, P) : f[i] = t
    OBVIOUS
  <2>1. t \in 1..(d + 1) /\ t # 1 /\ s[t] \in P
    BY <1>6
  <2>2. PICK j \in 1..d : t = j + 1
    BY <1>3, <2>1
  <2>3. j \in Places(r, P)
    BY <1>1, <1>7, <2>1, <2>2
  <2> QED
    BY <2>2, <2>3
<1> HIDE DEF f
<1>11. ExistsBijection(Places(r, P), T)
  <2>1. f \in Bijection(Places(r, P), T)
    BY <1>8, <1>9, <1>10, Fun_IsBij
  <2> QED
    BY <2>1, Fun_ExistsBij
<1>12. IsFiniteSet(Places(r, P)) /\ IsFiniteSet(Places(s, P))
  BY <1>1, CountFacts
<1>13. Cardinality(T) = Count(r, P)
  BY <1>11, <1>12, FS_Bijection DEF Count
<1>14. 1 \in Places(s, P) <=> Head(s) \in P
  BY <1>2, <1>3, <1>6
<1>15. /\ Count(s, P) \in Nat
       /\ Cardinality(T) = IF 1 \in Places(s, P) THEN Count(s, P) - 1 ELSE Count(s, P)
  <2>1. Cardinality(Places(s, P) \ { 1 }) =
           IF 1 \in Places(s, P) THEN Cardinality(Places(s, P)) - 1
           ELSE Cardinality(Places(s, P))
    BY <1>12, FS_RemoveElement
  <2> QED
    BY <2>1, CountFacts DEF Count
<1> QED
  BY <1>1, <1>13, <1>14, <1>15 DEF r

LEMMA FrontShape ==
    ASSUME NEW S, NEW s \in Seq(S), Len(s) > 0
    PROVE  /\ Front(s) \in Seq(S) /\ Len(Front(s)) = Len(s) - 1
           /\ \A n \in 1..(Len(s) - 1) : Front(s)[n] = s[n]
<1> DEFINE m == Len(s) - 1
<1>1. m \in Nat /\ 1 \in Int /\ m \in Int /\ m - 1 + 1 = m
  OBVIOUS
<1>2. \A n \in 1..m : s[n] \in S /\ s[1 + n - 1] = s[n]
  BY <1>1
<1> HIDE DEF m
<1>3. /\ SubSeq(s, 1, m) \in Seq(S)
      /\ Len(SubSeq(s, 1, m)) = IF 1 <= m THEN m - 1 + 1 ELSE 0
      /\ \A n \in 1..(m - 1 + 1) : SubSeq(s, 1, m)[n] = s[1 + n - 1]
  BY <1>1, <1>2, SubSeqProperties
<1>4. Front(s) = SubSeq(s, 1, m)
  BY DEF Front, m
<1>5. Len(Front(s)) = m
  BY <1>1, <1>3, <1>4
<1> QED
  BY <1>1, <1>2, <1>3, <1>4, <1>5 DEF m

LEMMA CountFront ==
    ASSUME NEW S, NEW s \in Seq(S), Len(s) > 0, NEW P
    PROVE  Count(s, P) = IF Last(s) \in P THEN Count(Front(s), P) + 1 ELSE Count(Front(s), P)
<1> DEFINE r == Front(s)
           d == Len(s)
<1>1. /\ r \in Seq(S) /\ Len(r) = d - 1 /\ d \in Nat /\ d > 0
      /\ \A i \in 1..(d - 1) : r[i] = s[i]
  BY FrontShape
<1>2. Last(s) = s[d]
  BY DEF Last
<1>3. \A i : i \in 1..d <=> i \in 1..(d - 1) \/ i = d
  BY <1>1
<1>4. d \notin 1..(d - 1)
  BY <1>1
<1> HIDE DEF r, d
<1>5. Places(s, P) = { i \in 1..d : s[i] \in P }
  BY DEF Places, d
<1>6. Places(r, P) = { i \in 1..(d - 1) : r[i] \in P }
  BY <1>1 DEF Places
<1>7. CASE Last(s) \in P
  <2>1. Places(s, P) = Places(r, P) \cup { d }
    BY <1>1, <1>2, <1>3, <1>5, <1>6, <1>7
  <2>2. d \notin Places(r, P)
    BY <1>4, <1>6
  <2>3. IsFiniteSet(Places(r, P))
    BY <1>1, CountFacts
  <2> QED
    BY <1>7, <2>1, <2>2, <2>3, FS_AddElement DEF Count, r
<1>8. CASE Last(s) \notin P
  <2>1. Places(s, P) = Places(r, P)
    BY <1>1, <1>2, <1>3, <1>5, <1>6, <1>8
  <2> QED
    BY <1>8, <2>1 DEF Count, r
<1> QED
  BY <1>7, <1>8

\* The last element is replaced.
LEMMA LastShape ==
    ASSUME NEW S, NEW s \in Seq(S), Len(s) > 0, NEW e \in S
    PROVE  LET r == [s EXCEPT ![Len(s)] = e]
           IN  /\ r \in Seq(S) /\ Len(r) = Len(s) /\ r[Len(s)] = e
               /\ \A n \in 1..(Len(s) - 1) : r[n] = s[n]
OBVIOUS

LEMMA CountLast ==
    ASSUME NEW S, NEW s \in Seq(S), Len(s) > 0, NEW e \in S, NEW P
    PROVE  LET r == [s EXCEPT ![Len(s)] = e]
               rest == Count(Front(s), P)
           IN  /\ rest \in Nat
               /\ Count(s, P) = IF Last(s) \in P THEN rest + 1 ELSE rest
               /\ Count(r, P) = IF e \in P THEN rest + 1 ELSE rest
<1> DEFINE r == [s EXCEPT ![Len(s)] = e]
           d == Len(s)
<1>1. /\ r \in Seq(S) /\ Len(r) = d /\ d \in Nat /\ d > 0 /\ r[d] = e
      /\ \A n \in 1..(d - 1) : r[n] = s[n]
  BY LastShape
<1> HIDE DEF r
<1>2. /\ Front(r) \in Seq(S) /\ Len(Front(r)) = d - 1
      /\ \A n \in 1..(d - 1) : Front(r)[n] = r[n]
  BY <1>1, FrontShape
<1>3. /\ Front(s) \in Seq(S) /\ Len(Front(s)) = d - 1
      /\ \A n \in 1..(d - 1) : Front(s)[n] = s[n]
  BY <1>1, FrontShape
<1> HIDE DEF d
<1>4. Places(Front(r), P) = Places(Front(s), P)
  BY <1>1, <1>2, <1>3 DEF Places
<1>5. Last(r) = e
  BY <1>1 DEF Last
<1>6. Count(r, P) = IF Last(r) \in P THEN Count(Front(r), P) + 1 ELSE Count(Front(r), P)
  BY <1>1, CountFront
<1>7. Count(s, P) = IF Last(s) \in P THEN Count(Front(s), P) + 1 ELSE Count(Front(s), P)
  BY <1>1, CountFront DEF d
<1>8. Count(Front(s), P) \in Nat
  BY <1>3, CountFacts
<1> QED
  BY <1>4, <1>5, <1>6, <1>7, <1>8 DEF Count, r

LEMMA MembersEmpty == Members(<< >>) = {}
BY DEF Members

LEMMA MembersAppend ==
    ASSUME NEW S, NEW s \in Seq(S), NEW e \in S
    PROVE  Members(Append(s, e)) = Members(s) \cup { e }
<1> DEFINE r == Append(s, e)
           d == Len(s)
<1>1. /\ d \in Nat /\ Len(r) = d + 1 /\ r[d + 1] = e
      /\ \A i \in 1..d : r[i] = s[i]
  OBVIOUS
<1>2. \A i : i \in 1..(d + 1) <=> i \in 1..d \/ i = d + 1
  BY <1>1
<1> HIDE DEF r, d
<1>3. Members(s) = { s[i] : i \in 1..d } /\ Members(r) = { r[i] : i \in 1..(d + 1) }
  BY <1>1 DEF Members, d
<1>4. Members(r) = Members(s) \cup { e }
  <2>1. ASSUME NEW x \in Members(r)
        PROVE  x \in Members(s) \cup { e }
    BY <1>1, <1>2, <1>3
  <2>2. ASSUME NEW x \in Members(s) \cup { e }
        PROVE  x \in Members(r)
    <3>1. CASE x = e
      BY <1>1, <1>2, <1>3, <3>1
    <3>2. ASSUME NEW i \in 1..d, x = s[i]
          PROVE  x \in Members(r)
      BY <1>1, <1>2, <1>3, <3>2
    <3> QED
      BY <1>3, <3>1, <3>2
  <2> QED
    BY <2>1, <2>2
<1> QED
  BY <1>4 DEF r

LEMMA MembersTail ==
    ASSUME NEW S, NEW s \in Seq(S), s # << >>
    PROVE  /\ Members(Tail(s)) \subseteq Members(s) /\ Head(s) \in Members(s)
           /\ Members(s) = Members(Tail(s)) \cup { Head(s) }
<1> DEFINE r == Tail(s)
<1>1. /\ Len(s) = Len(r) + 1 /\ Len(r) \in Nat /\ \A i \in 1..Len(r) : r[i] = s[i + 1]
      /\ Len(s) \in Nat
  BY HeadTailProperties
<1>2. \A i \in 1..Len(r) : i + 1 \in 1..Len(s)
  BY <1>1
<1>3. Head(s) = s[1] /\ 1 \in 1..Len(s)
  BY <1>1
<1> HIDE DEF r
<1>4. Members(r) \subseteq Members(s)
  BY <1>1, <1>2 DEF Members
<1>5. ASSUME NEW i \in 1..Len(s)
      PROVE  s[i] \in Members(r) \cup { Head(s) }
  <2>1. CASE i = 1
    BY <1>3, <2>1
  <2>2. CASE i # 1
    <3>1. (i - 1) \in 1..Len(r) /\ (i - 1) + 1 = i
      BY <1>1, <2>2
    <3>2. r[i - 1] = s[i]
      BY <1>1, <3>1
    <3> QED
      BY <3>1, <3>2 DEF Members
  <2> QED
    BY <2>1, <2>2
<1>6. Members(s) \subseteq Members(r) \cup { Head(s) }
  BY <1>5 DEF Members
<1> QED
  BY <1>3, <1>4, <1>6 DEF Members, r

LEMMA MembersFront ==
    ASSUME NEW S, NEW s \in Seq(S), Len(s) > 0
    PROVE  Members(Front(s)) \subseteq Members(s) /\ Last(s) \in Members(s)
<1> DEFINE r == Front(s)
<1>1. Len(r) = Len(s) - 1 /\ Len(s) \in Nat /\ \A i \in 1..Len(r) : r[i] = s[i]
  BY FrontShape
<1>2. Last(s) = s[Len(s)] /\ Len(s) \in 1..Len(s)
  BY <1>1 DEF Last
<1>3. \A i \in 1..Len(r) : i \in 1..Len(s)
  BY <1>1
<1> HIDE DEF r
<1>4. Members(r) \subseteq Members(s)
  BY <1>1, <1>3 DEF Members
<1> QED
  BY <1>2, <1>4 DEF Members, r

LEMMA MembersLast ==
    ASSUME NEW S, NEW s \in Seq(S), Len(s) > 0, NEW e \in S
    PROVE  Members([s EXCEPT ![Len(s)] = e]) \subseteq Members(s) \cup { e }
<1> DEFINE r == [s EXCEPT ![Len(s)] = e]
           d == Len(s)
<1>1. /\ Len(r) = d /\ d \in Nat /\ r[d] = e /\ \A i \in 1..(d - 1) : r[i] = s[i]
  BY LastShape
<1> HIDE DEF r, d
<1>2. \A i \in 1..d : i \in 1..(d - 1) \/ i = d
  BY <1>1
<1>3. \A i \in 1..d : r[i] = e \/ r[i] = s[i]
  BY <1>1, <1>2
<1>4. Members(r) \subseteq Members(s) \cup { e }
  BY <1>1, <1>3 DEF Members, d
<1> QED
  BY <1>4 DEF r

LEMMA MembersTyped ==
    ASSUME NEW S, NEW s \in Seq(S), NEW P
    PROVE  /\ Members(s) \subseteq S
           /\ Count(s, P) = 0 <=> \A e \in Members(s) : e \notin P
BY CountFacts DEF Members

-----------------------------------------------------------------------------
(* Packets, calls and the handler table *)

Ids == 0..(MaxPacketId + MaxMessages)

LEMMA Bounds ==
    /\ NumHandlers \in Nat /\ NumHandlers > 0 /\ MaxPacketId \in Nat /\ MaxPacketId > 0
    /\ MaxMessages \in Nat /\ MaxRequests \in Nat /\ MaxTimeouts \in Nat
    /\ MaxDrops \in Nat /\ MaxRefusals \in Nat /\ MaxDepth \in Nat
    /\ \A i : i \in Slots <=> i \in Nat /\ i < NumHandlers
    /\ 0 \in Slots /\ 0 \in Ids /\ 0 \in 0..NumHandlers /\ Slots \subseteq 0..NumHandlers
    /\ 1..MaxPacketId \subseteq Ids /\ 0..MaxMessages \subseteq Ids
BY ExchangeAssumption DEF Slots, Ids

LEMMA PacketTyped ==
    ASSUME NEW type \in PacketTypes, NEW topic \in Topics \cup { NoTopic }, NEW id \in Ids
    PROVE  LET p == Packet(type, topic, id)
           IN  p \in Packets /\ p.type = type /\ p.topic = topic /\ p.id = id
BY DEF Packet, Packets, Ids

LEMMA PacketFields ==
    ASSUME NEW p \in Packets
    PROVE  p.type \in PacketTypes /\ p.topic \in Topics \cup { NoTopic } /\ p.id \in Ids
BY DEF Packets, Ids

Ops == { "publish", "subscribe", "unsubscribe", "resubscribe", "deliver" }
Pcs == { "wait", "send", "match", "callback" }

LEMMA CallTyped ==
    ASSUME NEW op \in Ops, NEW topic \in Topics \cup { NoTopic }, NEW id \in Ids,
           NEW n \in 0..NumHandlers, NEW count \in 0..NumHandlers, NEW pc \in Pcs
    PROVE  LET f == Call(op, topic, id, n, count, pc)
           IN  /\ f \in CallFrames /\ f.op = op /\ f.topic = topic /\ f.id = id
               /\ f.n = n /\ f.count = count /\ f.pc = pc
BY DEF Call, CallFrames, Ids, Ops, Pcs

LEMMA CallFields ==
    ASSUME NEW f \in CallFrames
    PROVE  /\ f.op \in Ops /\ f.topic \in Topics \cup { NoTopic } /\ f.id \in Ids
           /\ f.n \in 0..NumHandlers /\ f.count \in 0..NumHandlers /\ f.pc \in Pcs
BY DEF CallFrames, Ids, Ops, Pcs

\* A call that has come to another place.
At(f, n, pc) == [f EXCEPT !.n = n, !.pc = pc]

LEMMA ChangedCall ==
    ASSUME NEW f \in CallFrames, NEW n \in 0..NumHandlers, NEW pc \in Pcs
    PROVE  LET g == At(f, n, pc)
           IN  /\ g \in CallFrames /\ g.op = f.op /\ g.topic = f.topic /\ g.id = f.id
               /\ g.n = n /\ g.count = f.count /\ g.pc = pc
<1>1. f = [op |-> f.op, topic |-> f.topic, id |-> f.id, n |-> f.n, count |-> f.count,
           pc |-> f.pc]
  BY DEF CallFrames
<1> DEFINE h == [f EXCEPT !.n = n]
<1>2. h = [op |-> f.op, topic |-> f.topic, id |-> f.id, n |-> n, count |-> f.count,
           pc |-> f.pc]
  BY <1>1
<1> HIDE DEF h
<1>3. [h EXCEPT !.pc = pc] =
         [op |-> f.op, topic |-> f.topic, id |-> f.id, n |-> n, count |-> f.count, pc |-> pc]
  BY <1>2
<1>4. At(f, n, pc) =
         [op |-> f.op, topic |-> f.topic, id |-> f.id, n |-> n, count |-> f.count, pc |-> pc]
  BY <1>3 DEF At, h
<1> QED
  BY <1>4, CallFields DEF CallFrames, Ids, Ops, Pcs

LEMMA FreeIndexFacts ==
    /\ FreeIndex \in 0..NumHandlers
    /\ FreeIndex \in Slots => handlers[FreeIndex] = NoTopic
    /\ \A j \in Slots : j < FreeIndex => handlers[j] # NoTopic
<1> DEFINE F == { i \in 0..NumHandlers : i \in Slots => handlers[i] = NoTopic }
<1>1. NumHandlers \in F /\ F \in SUBSET Nat
  BY Bounds
<1>2. \E x \in F : \A y \in F : ~(<< y, x >> \in OpToRel(<, Nat))
  <2>1. F # {}
    BY <1>1
  <2> QED
    BY <1>1, <2>1, WFMin, NatLessThanWellFounded
<1>3. \A x, y \in Nat : y < x => << y, x >> \in OpToRel(<, Nat)
  BY DEF OpToRel
<1>4. PICK x \in F : \A y \in F : ~(y < x)
  BY <1>1, <1>2, <1>3
<1>5. /\ x \in 0..NumHandlers
      /\ x \in Slots => handlers[x] = NoTopic
      /\ \A j \in Slots : j < x => handlers[j] # NoTopic
  <2>1. ASSUME NEW j \in Slots, j < x, handlers[j] = NoTopic
        PROVE  FALSE
    <3>1. j \in 0..NumHandlers
      BY Bounds
    <3>2. j \in F
      BY <2>1, <3>1
    <3> QED
      BY <1>4, <2>1, <3>2
  <2> QED
    BY <1>4, <2>1
<1> HIDE DEF F
<1> QED
  BY <1>5 DEF FreeIndex

-----------------------------------------------------------------------------
(* Types *)

QueuesTyped == toBroker \in Seq(Packets) /\ toClient \in Seq(Packets) /\ SendsFit

CallsTyped == calls \in Seq(CallFrames) /\ CallsFit

BrokerTyped ==
    /\ up \in BOOLEAN
    /\ brokerSubs \subseteq Topics \cup { NoTopic }
    /\ awaiting \subseteq 1..MaxMessages
    /\ acked \subseteq 1..MaxPacketId

ClientTyped ==
    /\ handlers \in [Slots -> Topics \cup { NoTopic }]
    /\ nextPacketId \in 1..MaxPacketId
    /\ bufTopic \in Topics \cup { NoTopic }
    /\ confirmed \subseteq Topics

BoundsTyped ==
    /\ requests \in 0..MaxRequests /\ messages \in 0..MaxMessages
    /\ timeouts \in 0..MaxTimeouts /\ drops \in 0..MaxDrops
    /\ refusals \in 0..MaxRefusals

LEMMA TypedParts ==
    Typed <=> QueuesTyped /\ CallsTyped /\ BrokerTyped /\ ClientTyped /\ BoundsTyped
              /\ DeadIsEmpty
BY DEF Typed, CoreTypes, QueuesTyped, CallsTyped, BrokerTyped, ClientTyped, BoundsTyped

LEMMA TypedPartsNext ==
    ASSUME QueuesTyped', CallsTyped', BrokerTyped', ClientTyped', BoundsTyped', DeadIsEmpty'
    PROVE  Typed'
BY DEF Typed, CoreTypes, QueuesTyped, CallsTyped, BrokerTyped, ClientTyped, BoundsTyped

\* The innermost call.
LEMMA TopFacts ==
    ASSUME CallsTyped, calls # << >>
    PROVE  /\ Len(calls) \in Nat /\ Len(calls) > 0 /\ Len(calls) \in 1..Len(calls)
           /\ 1 \in 1..Len(calls)
           /\ Top = calls[Len(calls)] /\ Top = Last(calls) /\ Top \in CallFrames
           /\ FrameFits(Top)
           /\ \A n \in 1..Len(calls) : calls[n] \in CallFrames /\ FrameFits(calls[n])
<1>1. calls \in Seq(CallFrames) /\ CallsFit
  BY DEF CallsTyped
<1>2. Len(calls) \in Nat /\ Len(calls) > 0 /\ Len(calls) \in 1..Len(calls)
  BY <1>1
<1>3. Top = calls[Len(calls)] /\ Top = Last(calls)
  BY DEF Top, Last
<1>4. \A n \in 1..Len(calls) : calls[n] \in CallFrames
  BY <1>1
<1>5. \A n \in 1..Len(calls) : FrameFits(calls[n])
  BY <1>1 DEF CallsFit
<1>6. 1 \in 1..Len(calls)
  BY <1>2
<1> QED
  BY <1>2, <1>3, <1>4, <1>5, <1>6

\* How the calls in progress can change.
LEMMA Entered ==
    ASSUME calls \in Seq(CallFrames), NEW f \in CallFrames, Enter(f)
    PROVE  /\ calls' = Append(calls, f)
           /\ calls' \in Seq(CallFrames) /\ Len(calls') = Len(calls) + 1
           /\ calls'[Len(calls) + 1] = f
           /\ \A n \in 1..Len(calls) : calls'[n] = calls[n]
           /\ \A n \in 1..Len(calls') : n \in 1..Len(calls) \/ n = Len(calls) + 1
BY DEF Enter

LEMMA Returned ==
    ASSUME calls \in Seq(CallFrames), calls # << >>, Return
    PROVE  /\ calls' = Front(calls)
           /\ calls' \in Seq(CallFrames) /\ Len(calls') = Len(calls) - 1
           /\ \A n \in 1..Len(calls') : calls'[n] = calls[n] /\ n \in 1..Len(calls)
                                        /\ n < Len(calls)
<1>1. Len(calls) > 0 /\ Len(calls) \in Nat
  OBVIOUS
<1>2. /\ Front(calls) \in Seq(CallFrames) /\ Len(Front(calls)) = Len(calls) - 1
      /\ \A n \in 1..(Len(calls) - 1) : Front(calls)[n] = calls[n]
  BY <1>1, FrontShape
<1> QED
  BY <1>1, <1>2 DEF Return

LEMMA Moved ==
    ASSUME CallsTyped, calls # << >>, NEW n \in 0..NumHandlers, NEW pc \in Pcs, Goto(n, pc)
    PROVE  LET g == At(Top, n, pc)
           IN  /\ calls' = [calls EXCEPT ![Len(calls)] = g]
               /\ g \in CallFrames /\ g.op = Top.op /\ g.topic = Top.topic /\ g.id = Top.id
               /\ g.n = n /\ g.count = Top.count /\ g.pc = pc
               /\ calls' \in Seq(CallFrames) /\ Len(calls') = Len(calls)
               /\ calls'[Len(calls)] = g
               /\ \A m \in 1..Len(calls) : m # Len(calls) => calls'[m] = calls[m]
<1> DEFINE g == At(Top, n, pc)
<1>1. /\ g \in CallFrames /\ g.op = Top.op /\ g.topic = Top.topic /\ g.id = Top.id
      /\ g.n = n /\ g.count = Top.count /\ g.pc = pc
  BY TopFacts, ChangedCall
<1>2. calls' = [calls EXCEPT ![Len(calls)] = g]
  BY TopFacts DEF Goto, CallsTyped, At
<1> HIDE DEF g
<1>3. /\ calls' \in Seq(CallFrames) /\ Len(calls') = Len(calls)
      /\ calls'[Len(calls)] = g
      /\ \A m \in 1..(Len(calls) - 1) : calls'[m] = calls[m]
  BY <1>1, <1>2, TopFacts, LastShape DEF CallsTyped
<1>4. \A m \in 1..Len(calls) : m # Len(calls) => m \in 1..(Len(calls) - 1)
  BY TopFacts
<1>5. \A m \in 1..Len(calls) : m # Len(calls) => calls'[m] = calls[m]
  BY <1>3, <1>4
<1> QED
  BY <1>1, <1>2, <1>3, <1>5 DEF g

LEMMA EnterTyped ==
    ASSUME CallsTyped, NEW f \in CallFrames, FrameFits(f), Enter(f),
           calls = << >> \/ Top.pc # "send", calls = << >> \/ f.op # "resubscribe",
           f.op = "resubscribe" => drops > 0, drops' = drops
    PROVE  CallsTyped'
<1>1. calls \in Seq(CallFrames) /\ CallsFit /\ Len(calls) \in Nat
  BY DEF CallsTyped
<1>2. /\ calls' \in Seq(CallFrames) /\ Len(calls') = Len(calls) + 1
      /\ calls'[Len(calls) + 1] = f
      /\ \A n \in 1..Len(calls) : calls'[n] = calls[n]
      /\ \A n \in 1..Len(calls') : n \in 1..Len(calls) \/ n = Len(calls) + 1
  BY <1>1, Entered
<1>3. \A n \in 1..Len(calls) : calls[n].pc # "send"
  BY <1>1, TopFacts DEF CallsFit
<1>4. f.op = "resubscribe" => Len(calls) + 1 = 1 /\ drops > 0
  BY <1>1
<1>5. CallsFit'
  BY <1>1, <1>2, <1>3, <1>4 DEF CallsFit, FrameFits
<1> QED
  BY <1>2, <1>5 DEF CallsTyped

LEMMA ReturnTyped ==
    ASSUME CallsTyped, calls # << >>, Return, drops' = drops
    PROVE  CallsTyped'
<1>1. calls \in Seq(CallFrames) /\ CallsFit /\ Len(calls) \in Nat
  BY DEF CallsTyped
<1>2. /\ calls' \in Seq(CallFrames) /\ Len(calls') = Len(calls) - 1
      /\ \A n \in 1..Len(calls') : calls'[n] = calls[n] /\ n \in 1..Len(calls)
                                   /\ n < Len(calls)
  BY <1>1, Returned
<1>3. CallsFit'
  BY <1>1, <1>2 DEF CallsFit, FrameFits
<1> QED
  BY <1>2, <1>3 DEF CallsTyped

LEMMA GotoTyped ==
    ASSUME CallsTyped, calls # << >>, NEW n \in 0..NumHandlers, NEW pc \in Pcs, Goto(n, pc),
           FrameFits(At(Top, n, pc)), drops' = drops
    PROVE  CallsTyped'
<1> DEFINE g == At(Top, n, pc)
<1>1. /\ g \in CallFrames /\ g.op = Top.op
      /\ calls' \in Seq(CallFrames) /\ Len(calls') = Len(calls)
      /\ calls'[Len(calls)] = g
      /\ \A m \in 1..Len(calls) : m # Len(calls) => calls'[m] = calls[m]
  BY Moved
<1>2. FrameFits(g)
  OBVIOUS
<1> HIDE DEF g
<1>3. /\ CallsFit /\ Len(calls) \in 1..Len(calls) /\ Top = calls[Len(calls)]
  BY TopFacts DEF CallsTyped
<1>4. CallsFit'
  BY <1>1, <1>2, <1>3 DEF CallsFit, FrameFits
<1> QED
  BY <1>1, <1>4 DEF CallsTyped

LEMMA SendTyped ==
    ASSUME QueuesTyped, NEW p \in Packets, p.type = "PUBLISH" => p.id <= MaxPacketId,
           Send(p), toClient' = toClient
    PROVE  QueuesTyped'
<1>1. /\ toBroker' \in Seq(Packets) /\ Len(toBroker') = Len(toBroker) + 1
      /\ toBroker'[Len(toBroker) + 1] = p
      /\ \A i \in 1..Len(toBroker) : toBroker'[i] = toBroker[i]
      /\ \A i \in 1..Len(toBroker') : i \in 1..Len(toBroker) \/ i = Len(toBroker) + 1
  BY DEF Send, QueuesTyped
<1>2. SendsFit'
  BY <1>1 DEF SendsFit, QueuesTyped
<1> QED
  BY <1>1, <1>2 DEF QueuesTyped

LEMMA NextIdTyped ==
    ASSUME ClientTyped
    PROVE  NextPacketId \in 1..MaxPacketId /\ NextPacketId \in Ids
BY Bounds DEF ClientTyped, NextPacketId, Ids

LEMMA MayCallFacts ==
    ASSUME CallsTyped, BoundsTyped, NEW op, MayCall(op)
    PROVE  /\ requests' = requests + 1 /\ requests' \in 0..MaxRequests
           /\ calls = << >> \/ Top.pc = "callback"
BY Bounds DEF MayCall, BoundsTyped

LEMMA StartTyped ==
    ASSUME Typed, NEW op, MayCall(op), NEW p \in Packets, NEW f \in CallFrames,
           FrameFits(f), f.op # "resubscribe", p.type = "PUBLISH" => p.id <= MaxPacketId,
           StartRequest(p, f)
    PROVE  Typed'
<1>1. /\ QueuesTyped /\ CallsTyped /\ BrokerTyped /\ ClientTyped /\ BoundsTyped /\ DeadIsEmpty
  BY TypedParts
<1>2. requests' \in 0..MaxRequests /\ (calls = << >> \/ Top.pc = "callback")
  BY <1>1, MayCallFacts
<1>3. BrokerTyped'
  BY <1>1 DEF StartRequest, BrokerTyped
<1>4. ClientTyped'
  BY <1>1, NextIdTyped DEF StartRequest, ClientTyped
<1>5. BoundsTyped'
  BY <1>1, <1>2 DEF StartRequest, BoundsTyped
<1>6. CASE up
  <2>1. QueuesTyped'
    BY <1>1, <1>6, SendTyped DEF StartRequest
  <2>2. CallsTyped'
    BY <1>1, <1>2, <1>6, EnterTyped DEF StartRequest
  <2>3. DeadIsEmpty'
    BY <1>6 DEF StartRequest, DeadIsEmpty
  <2> QED
    BY <1>3, <1>4, <1>5, <2>1, <2>2, <2>3, TypedPartsNext
<1>7. CASE ~up
  <2>1. QueuesTyped' /\ CallsTyped' /\ DeadIsEmpty'
    BY <1>1, <1>7 DEF StartRequest, QueuesTyped, SendsFit, CallsTyped, CallsFit,
       FrameFits,
       DeadIsEmpty
  <2> QED
    BY <1>3, <1>4, <1>5, <2>1, TypedPartsNext
<1> QED
  BY <1>6, <1>7

\* The frames and packets of the three requests.
LEMMA PublishFrame ==
    ASSUME ClientTyped
    PROVE  LET p == Packet("PUBLISH", NoTopic, NextPacketId)
               f == Call("publish", NoTopic, NextPacketId, 0, 0, "wait")
           IN  /\ p \in Packets /\ p.type = "PUBLISH" /\ p.id = NextPacketId
               /\ f \in CallFrames /\ FrameFits(f) /\ f.op = "publish" /\ f.pc = "wait"
               /\ f.id = NextPacketId
<1> DEFINE p == Packet("PUBLISH", NoTopic, NextPacketId)
           f == Call("publish", NoTopic, NextPacketId, 0, 0, "wait")
<1>1. p \in Packets /\ p.type = "PUBLISH" /\ p.id = NextPacketId
  BY NextIdTyped, PacketTyped DEF PacketTypes
<1>2. /\ f \in CallFrames /\ f.op = "publish" /\ f.pc = "wait" /\ f.id = NextPacketId
  <2>1. /\ "publish" \in Ops /\ "wait" \in Pcs /\ NextPacketId \in Ids
        /\ NoTopic \in Topics \cup { NoTopic }
        /\ 0 \in 0..NumHandlers /\ 0 \in 0..NumHandlers
    BY NextIdTyped, Bounds DEF Ops, Pcs
  <2> QED
    BY <2>1, CallTyped
<1> HIDE DEF f, p
<1>3. FrameFits(f)
  BY <1>2, NextIdTyped DEF FrameFits
<1> QED
  BY <1>1, <1>2, <1>3 DEF f, p

LEMMA SubscribeFrame ==
    ASSUME ClientTyped, NEW topic \in Topics, FreeIndex \in Slots
    PROVE  LET p == Packet("SUBSCRIBE", topic, NextPacketId)
               f == Call("subscribe", topic, NextPacketId, FreeIndex, 0, "wait")
           IN  /\ p \in Packets /\ p.type = "SUBSCRIBE" /\ p.topic = topic
               /\ f \in CallFrames /\ FrameFits(f) /\ f.op = "subscribe" /\ f.pc = "wait"
               /\ f.topic = topic /\ f.n = FreeIndex
<1> DEFINE p == Packet("SUBSCRIBE", topic, NextPacketId)
           f == Call("subscribe", topic, NextPacketId, FreeIndex, 0, "wait")
<1>1. p \in Packets /\ p.type = "SUBSCRIBE" /\ p.topic = topic
  BY NextIdTyped, PacketTyped DEF PacketTypes
<1>2. /\ f \in CallFrames /\ f.op = "subscribe" /\ f.pc = "wait" /\ f.topic = topic
      /\ f.n = FreeIndex
  <2>1. /\ "subscribe" \in Ops /\ "wait" \in Pcs /\ NextPacketId \in Ids
        /\ topic \in Topics \cup { NoTopic }
        /\ 0 \in 0..NumHandlers /\ FreeIndex \in 0..NumHandlers
    BY NextIdTyped, Bounds, FreeIndexFacts DEF Ops, Pcs
  <2> QED
    BY <2>1, CallTyped
<1> HIDE DEF f, p
<1>3. FrameFits(f)
  BY <1>2 DEF FrameFits
<1> QED
  BY <1>1, <1>2, <1>3 DEF f, p

LEMMA UnsubscribeFrame ==
    ASSUME ClientTyped, NEW topic \in Topics
    PROVE  LET p == Packet("UNSUBSCRIBE", topic, NextPacketId)
               f == Call("unsubscribe", topic, NextPacketId, 0, 0, "wait")
           IN  /\ p \in Packets /\ p.type = "UNSUBSCRIBE" /\ p.topic = topic
               /\ f \in CallFrames /\ FrameFits(f) /\ f.op = "unsubscribe" /\ f.pc = "wait"
               /\ f.topic = topic
<1> DEFINE p == Packet("UNSUBSCRIBE", topic, NextPacketId)
           f == Call("unsubscribe", topic, NextPacketId, 0, 0, "wait")
<1>1. p \in Packets /\ p.type = "UNSUBSCRIBE" /\ p.topic = topic
  BY NextIdTyped, PacketTyped DEF PacketTypes
<1>2. /\ f \in CallFrames /\ f.op = "unsubscribe" /\ f.pc = "wait" /\ f.topic = topic
  <2>1. /\ "unsubscribe" \in Ops /\ "wait" \in Pcs /\ NextPacketId \in Ids
        /\ topic \in Topics \cup { NoTopic }
        /\ 0 \in 0..NumHandlers /\ 0 \in 0..NumHandlers
    BY NextIdTyped, Bounds DEF Ops, Pcs
  <2> QED
    BY <2>1, CallTyped
<1> HIDE DEF f, p
<1>3. FrameFits(f)
  BY <1>2 DEF FrameFits
<1> QED
  BY <1>1, <1>2, <1>3 DEF f, p

LEMMA RequestsTyped ==
    ASSUME Typed,
           PublishQos0 \/ Publish
           \/ \E topic \in Topics : Subscribe(topic) \/ Unsubscribe(topic)
    PROVE  Typed'
<1>1. /\ QueuesTyped /\ CallsTyped /\ BrokerTyped /\ ClientTyped /\ BoundsTyped /\ DeadIsEmpty
  BY TypedParts
<1>2. CASE PublishQos0
  <2> DEFINE p == Packet("PUBLISH", NoTopic, 0)
  <2>1. p \in Packets /\ p.type = "PUBLISH" /\ p.id = 0
    BY PacketTyped, Bounds DEF PacketTypes
  <2>2. Send(p) /\ toClient' = toClient /\ up /\ up' = up
    BY <1>2 DEF PublishQos0
  <2> HIDE DEF p
  <2>3. QueuesTyped'
    BY <1>1, <2>1, <2>2, SendTyped, Bounds
  <2>4. requests' \in 0..MaxRequests
    BY <1>1, <1>2, MayCallFacts DEF PublishQos0
  <2>5. CallsTyped' /\ BrokerTyped' /\ ClientTyped' /\ BoundsTyped' /\ DeadIsEmpty'
    BY <1>1, <1>2, <2>2, <2>4 DEF PublishQos0, CallsTyped, CallsFit, FrameFits,
       BrokerTyped,
       ClientTyped, BoundsTyped, DeadIsEmpty, broker
  <2> QED
    BY <2>3, <2>5, TypedPartsNext
<1>3. CASE Publish
  BY <1>1, <1>3, PublishFrame, NextIdTyped, StartTyped, Bounds DEF Publish
<1>4. ASSUME NEW topic \in Topics, Subscribe(topic)
      PROVE  Typed'
  <2>1. CASE FreeIndex \in Slots
    BY <1>1, <1>4, <2>1, SubscribeFrame, StartTyped DEF Subscribe
  <2>2. CASE FreeIndex \notin Slots
    <3>1. requests' \in 0..MaxRequests
      BY <1>1, <1>4, MayCallFacts DEF Subscribe
    <3>2. /\ nextPacketId' = NextPacketId
          /\ UNCHANGED << up, toBroker, toClient, broker, handlers, bufTopic,
                          calls, confirmed, messages, timeouts, drops, refusals >>
      BY <1>4, <2>2 DEF Subscribe
    <3>3. /\ QueuesTyped' /\ CallsTyped' /\ BrokerTyped' /\ ClientTyped' /\ BoundsTyped'
          /\ DeadIsEmpty'
      BY <1>1, <3>1, <3>2, NextIdTyped DEF QueuesTyped, SendsFit, CallsTyped, CallsFit,
         FrameFits, BrokerTyped, ClientTyped, BoundsTyped, DeadIsEmpty, broker
    <3> QED
      BY <3>3, TypedPartsNext
  <2> QED
    BY <2>1, <2>2
<1>5. ASSUME NEW topic \in Topics, Unsubscribe(topic)
      PROVE  Typed'
  BY <1>1, <1>5, UnsubscribeFrame, StartTyped DEF Unsubscribe
<1> QED
  BY <1>2, <1>3, <1>4, <1>5

LEMMA ReadFacts ==
    ASSUME Typed, ReadPacket
    PROVE  /\ up /\ up' = up /\ toClient # << >> /\ toClient' = Tail(toClient)
           /\ toClient' \in Seq(Packets) /\ Head(toClient) \in Packets
           /\ bufTopic' \in Topics \cup { NoTopic }
           /\ UNCHANGED << brokerSubs, awaiting, acked >>
           /\ UNCHANGED << expired, unacked, unsubscribed >>
           /\ UNCHANGED << requests, messages, timeouts, drops, refusals >>
           /\ BrokerTyped' /\ BoundsTyped' /\ DeadIsEmpty'
           /\ toBroker' = toBroker => QueuesTyped'
<1>1. QueuesTyped /\ BrokerTyped /\ ClientTyped /\ BoundsTyped /\ DeadIsEmpty
  BY TypedParts
<1>2. /\ up /\ up' = up /\ toClient # << >> /\ toClient' = Tail(toClient)
      /\ bufTopic' \in Overwrite(Head(toClient))
      /\ UNCHANGED << brokerSubs, awaiting, acked >>
      /\ UNCHANGED << expired, unacked, unsubscribed >>
      /\ UNCHANGED << requests, messages, timeouts, drops, refusals >>
  BY DEF ReadPacket, broker, marks, bounds
<1>3. toClient' \in Seq(Packets) /\ Head(toClient) \in Packets
  BY <1>1, <1>2, HeadTailProperties DEF QueuesTyped
<1>4. bufTopic' \in Topics \cup { NoTopic }
  BY <1>1, <1>2, <1>3, PacketFields DEF Overwrite, ClientTyped
<1>5. BrokerTyped' /\ BoundsTyped' /\ DeadIsEmpty'
  BY <1>1, <1>2 DEF BrokerTyped, BoundsTyped, DeadIsEmpty
<1>6. toBroker' = toBroker => QueuesTyped'
  BY <1>1, <1>3 DEF QueuesTyped, SendsFit
<1> QED
  BY <1>2, <1>3, <1>4, <1>5, <1>6

\* The frame of a delivery.
LEMMA DeliverFrame ==
    ASSUME NEW p \in Packets
    PROVE  LET f == Call("deliver", p.topic, p.id, 0, 0, "match")
           IN  /\ f \in CallFrames /\ FrameFits(f) /\ f.op = "deliver" /\ f.pc = "match"
               /\ f.id = p.id
<1> DEFINE f == Call("deliver", p.topic, p.id, 0, 0, "match")
<1>1. /\ "deliver" \in Ops /\ "match" \in Pcs /\ 0 \in 0..NumHandlers
      /\ p.topic \in Topics \cup { NoTopic } /\ p.id \in Ids
  BY PacketFields, Bounds DEF Ops, Pcs
<1>2. f \in CallFrames /\ f.op = "deliver" /\ f.pc = "match" /\ f.id = p.id
  BY <1>1, CallTyped
<1> HIDE DEF f
<1>3. FrameFits(f)
  BY <1>2 DEF FrameFits
<1> QED
  BY <1>2, <1>3 DEF f

LEMMA ReadsTyped ==
    ASSUME Typed,
           \/ ReadMessage \/ ReadStray \/ PublishAnswered \/ SubscribeAnswered
           \/ UnsubscribeAnswered \/ ResubscribeAnswered
    PROVE  Typed'
<1>1. /\ QueuesTyped /\ CallsTyped /\ BrokerTyped /\ ClientTyped /\ BoundsTyped /\ DeadIsEmpty
  BY TypedParts
<1>2. ReadPacket /\ toBroker' = toBroker /\ nextPacketId' = nextPacketId
  BY DEF ReadMessage, ReadStray, PublishAnswered, SubscribeAnswered,
     UnsubscribeAnswered,
     ResubscribeAnswered, ReadAnswer
<1>3. /\ BrokerTyped' /\ BoundsTyped' /\ DeadIsEmpty' /\ QueuesTyped' /\ drops' = drops
      /\ bufTopic' \in Topics \cup { NoTopic } /\ Head(toClient) \in Packets
  BY <1>2, ReadFacts
<1>4. ASSUME handlers' = handlers, confirmed' = confirmed
      PROVE  ClientTyped'
  BY <1>1, <1>2, <1>3, <1>4 DEF ClientTyped
<1>5. CASE ReadMessage
  <2> DEFINE f == Call("deliver", Head(toClient).topic, Head(toClient).id, 0, 0, "match")
  <2>1. /\ f \in CallFrames /\ FrameFits(f) /\ f.op = "deliver"
    BY <1>3, DeliverFrame
  <2>2. Enter(f) /\ handlers' = handlers /\ confirmed' = confirmed
        /\ (calls = << >> \/ Top.pc = "wait")
    BY <1>5 DEF ReadMessage, Waiting
  <2> HIDE DEF f
  <2>3. CallsTyped'
    BY <1>1, <1>3, <2>1, <2>2, EnterTyped
  <2> QED
    BY <1>3, <1>4, <2>2, <2>3, TypedPartsNext
<1>6. CASE ReadStray
  <2>1. calls' = calls /\ handlers' = handlers /\ confirmed' = confirmed
    BY <1>6 DEF ReadStray
  <2>2. CallsTyped'
    BY <1>1, <1>3, <2>1 DEF CallsTyped, CallsFit, FrameFits
  <2> QED
    BY <1>3, <1>4, <2>1, <2>2, TypedPartsNext
<1>7. CASE PublishAnswered
  <2>1. calls # << >> /\ Return /\ handlers' = handlers /\ confirmed' = confirmed
    BY <1>7 DEF PublishAnswered, ReadAnswer, Waiting
  <2> QED
    BY <1>1, <1>3, <1>4, <2>1, ReturnTyped, TypedPartsNext
<1>8. CASE SubscribeAnswered
  <2>1. /\ calls # << >> /\ Return /\ Top.op = "subscribe"
        /\ handlers' = [handlers EXCEPT ![Top.n] = Top.topic]
        /\ confirmed' = confirmed \cup { Top.topic }
    BY <1>8 DEF SubscribeAnswered, ReadAnswer, Waiting
  <2>2. Top.topic \in Topics
    BY <1>1, <2>1, TopFacts DEF FrameFits
  <2>3. ClientTyped'
    BY <1>1, <1>2, <1>3, <2>1, <2>2 DEF ClientTyped
  <2> QED
    BY <1>1, <1>3, <2>1, <2>3, ReturnTyped, TypedPartsNext
<1>9. CASE UnsubscribeAnswered
  <2>1. /\ calls # << >> /\ Return
        /\ handlers' = [i \in Slots |->
                          IF handlers[i] = Top.topic THEN NoTopic ELSE handlers[i]]
        /\ confirmed' = confirmed \ { Top.topic }
    BY <1>9 DEF UnsubscribeAnswered, ReadAnswer, Waiting
  <2>2. ClientTyped'
    BY <1>1, <1>2, <1>3, <2>1 DEF ClientTyped
  <2> QED
    BY <1>1, <1>3, <2>1, <2>2, ReturnTyped, TypedPartsNext
<1>10. CASE ResubscribeAnswered
  <2>1. /\ calls # << >> /\ Top.op = "resubscribe" /\ Top.pc = "wait"
        /\ Goto(Top.n + 1, "send") /\ handlers' = handlers /\ confirmed' = confirmed
    BY <1>10 DEF ResubscribeAnswered, ReadAnswer, Waiting
  <2>2. Top \in CallFrames /\ FrameFits(Top)
    BY <1>1, <2>1, TopFacts
  <2>3. Top.n + 1 \in 0..NumHandlers /\ Top.n + 1 <= Top.count /\ "send" \in Pcs
    BY <2>1, <2>2, CallFields, Bounds DEF FrameFits, Pcs
  <2> DEFINE m == Top.n + 1
             g == At(Top, m, "send")
  <2>4. m \in 0..NumHandlers /\ m <= Top.count /\ Goto(m, "send")
    BY <2>1, <2>3
  <2> HIDE DEF m
  <2>5. /\ g.op = Top.op /\ g.pc = "send" /\ g.n = m /\ g.count = Top.count
    BY <2>2, <2>3, <2>4, ChangedCall
  <2> HIDE DEF g
  <2>6. FrameFits(g)
    BY <2>1, <2>4, <2>5 DEF FrameFits
  <2>7. CallsTyped'
    BY <1>1, <1>3, <2>1, <2>3, <2>4, <2>6, GotoTyped DEF g
  <2> QED
    BY <1>3, <1>4, <2>1, <2>7, TypedPartsNext
<1> QED
  BY <1>5, <1>6, <1>7, <1>8, <1>9, <1>10

LEMMA TooLongTyped ==
    ASSUME Typed, ReadTooLong
    PROVE  Typed'
<1>1. /\ QueuesTyped /\ CallsTyped /\ BrokerTyped /\ ClientTyped /\ BoundsTyped /\ DeadIsEmpty
  BY TypedParts
<1>2. /\ up /\ toClient # << >> /\ toClient' = Tail(toClient)
      /\ bufTopic' \in Topics \cup { NoTopic }
      /\ UNCHANGED << up, toBroker, brokerSubs, awaiting, acked, handlers, nextPacketId,
                      calls, confirmed, requests, messages, timeouts, drops, refusals >>
  BY DEF ReadTooLong, broker, bounds
<1>3. toClient' \in Seq(Packets)
  BY <1>1, <1>2, HeadTailProperties DEF QueuesTyped
<1>4. QueuesTyped' /\ CallsTyped'
  BY <1>1, <1>2, <1>3 DEF QueuesTyped, SendsFit, CallsTyped, CallsFit, FrameFits
<1>5. BrokerTyped' /\ ClientTyped' /\ BoundsTyped' /\ DeadIsEmpty'
  BY <1>1, <1>2 DEF BrokerTyped, ClientTyped, BoundsTyped, DeadIsEmpty
<1> QED
  BY <1>4, <1>5, TypedPartsNext

LEMMA TimeoutTyped ==
    ASSUME Typed, CommandTimeout
    PROVE  Typed'
<1>1. /\ QueuesTyped /\ CallsTyped /\ BrokerTyped /\ ClientTyped /\ BoundsTyped /\ DeadIsEmpty
  BY TypedParts
<1>2. /\ calls # << >> /\ Return
      /\ UNCHANGED << up, toBroker, toClient, brokerSubs, awaiting, acked, handlers,
                      nextPacketId, bufTopic, confirmed, requests, messages, drops, refusals >>
      /\ timeouts' \in { timeouts, timeouts + 1 }
      /\ timeouts' = timeouts \/ timeouts < MaxTimeouts
  BY DEF CommandTimeout, Waiting, broker
<1>3. CallsTyped'
  BY <1>1, <1>2, ReturnTyped
<1>4. QueuesTyped' /\ BrokerTyped' /\ ClientTyped' /\ DeadIsEmpty'
  BY <1>1, <1>2 DEF QueuesTyped, SendsFit, BrokerTyped, ClientTyped, DeadIsEmpty
<1>5. BoundsTyped'
  BY <1>1, <1>2, Bounds DEF BoundsTyped
<1> QED
  BY <1>3, <1>4, <1>5, TypedPartsNext

\* What delivery and resubscribe leave alone.
ElseUnchanged ==
    UNCHANGED << up, toClient, brokerSubs, awaiting, acked, handlers, bufTopic, confirmed,
                 requests, messages, timeouts, drops, refusals >>

LEMMA ElseTyped ==
    ASSUME Typed, ElseUnchanged
    PROVE  /\ BrokerTyped' /\ BoundsTyped' /\ drops' = drops
           /\ up \/ toBroker' = toBroker => DeadIsEmpty'
           /\ nextPacketId' \in 1..MaxPacketId => ClientTyped'
           /\ toBroker' = toBroker => QueuesTyped'
BY TypedParts DEF ElseUnchanged, BrokerTyped, BoundsTyped, DeadIsEmpty, ClientTyped,
   QueuesTyped, SendsFit

LEMMA DeliveryTyped ==
    ASSUME Typed, DeliverMatch \/ CallbackReturn \/ DeliverDone \/ DeliverDoneLate
    PROVE  Typed'
<1>1. /\ QueuesTyped /\ CallsTyped /\ ClientTyped
  BY TypedParts
<1>2. ElseUnchanged /\ nextPacketId' = nextPacketId /\ calls # << >> /\ Top.op = "deliver"
  BY DEF DeliverMatch, CallbackReturn, DeliverDone, DeliverDoneLate, ElseUnchanged,
     InCall, broker, bounds
<1>3. /\ BrokerTyped' /\ BoundsTyped' /\ drops' = drops /\ ClientTyped'
      /\ up \/ toBroker' = toBroker => DeadIsEmpty'
      /\ toBroker' = toBroker => QueuesTyped'
  BY <1>1, <1>2, ElseTyped DEF ClientTyped
<1>4. Top \in CallFrames /\ FrameFits(Top)
  BY <1>1, <1>2, TopFacts
<1>5. ASSUME NEW n \in 0..NumHandlers, NEW pc \in { "match", "callback" }, Goto(n, pc),
             pc = "callback" => n \in Slots, toBroker' = toBroker
      PROVE  Typed'
  <2> DEFINE g == At(Top, n, pc)
  <2>1. pc \in Pcs
    BY DEF Pcs
  <2>2. g.op = "deliver" /\ g.pc = pc /\ g.n = n
    BY <1>2, <1>4, <2>1, ChangedCall
  <2> HIDE DEF g
  <2>3. FrameFits(g)
    BY <1>5, <2>2 DEF FrameFits
  <2>4. CallsTyped'
    BY <1>1, <1>2, <1>3, <1>5, <2>1, <2>3, GotoTyped DEF g
  <2> QED
    BY <1>3, <1>5, <2>4, TypedPartsNext
<1>6. CASE DeliverMatch
  <2>1. Top.n \in Slots /\ toBroker' = toBroker
    BY <1>6 DEF DeliverMatch
  <2>2. Top.n \in 0..NumHandlers /\ Top.n + 1 \in 0..NumHandlers
    BY <2>1, Bounds
  <2> QED
    BY <1>5, <1>6, <2>1, <2>2 DEF DeliverMatch
<1>7. CASE CallbackReturn
  <2>1. Top.n \in Slots /\ toBroker' = toBroker
    BY <1>4, <1>7 DEF CallbackReturn, InCall, FrameFits
  <2>2. Top.n + 1 \in 0..NumHandlers
    BY <2>1, Bounds
  <2> QED
    BY <1>5, <1>7, <2>1, <2>2 DEF CallbackReturn
<1>8. CASE DeliverDone
  <2> DEFINE p == Packet("PUBACK", NoTopic, Top.id)
  <2>1. p \in Packets /\ p.type = "PUBACK"
    BY <1>4, CallFields, PacketTyped DEF PacketTypes
  <2>2. Return /\ \/ up /\ Send(p)
                  \/ toBroker' = toBroker
    BY <1>8 DEF DeliverDone
  <2> HIDE DEF p
  <2>3. CallsTyped'
    BY <1>1, <1>2, <1>3, <2>2, ReturnTyped
  <2>4. QueuesTyped' /\ DeadIsEmpty'
    BY <1>1, <1>2, <1>3, <2>1, <2>2, SendTyped DEF ElseUnchanged
  <2> QED
    BY <1>3, <2>3, <2>4, TypedPartsNext
<1>9. CASE DeliverDoneLate
  <2>1. Return /\ toBroker' = toBroker
    BY <1>9 DEF DeliverDoneLate
  <2>2. CallsTyped'
    BY <1>1, <1>2, <1>3, <2>1, ReturnTyped
  <2> QED
    BY <1>3, <2>1, <2>2, TypedPartsNext
<1> QED
  BY <1>6, <1>7, <1>8, <1>9

LEMMA ResubscribeFrame ==
    LET f == Call("resubscribe", NoTopic, 0, 0, FreeIndex, "send")
    IN  /\ f \in CallFrames /\ FrameFits(f) /\ f.op = "resubscribe" /\ f.pc = "send"
        /\ f.n = 0 /\ f.count = FreeIndex
<1> DEFINE f == Call("resubscribe", NoTopic, 0, 0, FreeIndex, "send")
<1>1. /\ "resubscribe" \in Ops /\ "send" \in Pcs /\ 0 \in 0..NumHandlers /\ 0 \in Ids
      /\ NoTopic \in Topics \cup { NoTopic } /\ FreeIndex \in 0..NumHandlers
  BY FreeIndexFacts, Bounds DEF Ops, Pcs
<1>2. /\ f \in CallFrames /\ f.op = "resubscribe" /\ f.pc = "send" /\ f.n = 0
      /\ f.count = FreeIndex
  BY <1>1, CallTyped
<1> HIDE DEF f
<1>3. FrameFits(f)
  BY <1>1, <1>2 DEF FrameFits
<1> QED
  BY <1>2, <1>3 DEF f

\* The packet and the place of resubscribe while it waits for the answer to it.
LEMMA ResendFacts ==
    ASSUME Typed, InCall("resubscribe", "send"), Top.n < Top.count
    PROVE  LET p == Packet("SUBSCRIBE", handlers[Top.n], NextPacketId)
               g == At(Top, Top.n, "wait")
           IN  /\ p \in Packets /\ p.type = "SUBSCRIBE" /\ p.topic = handlers[Top.n]
               /\ g \in CallFrames /\ FrameFits(g) /\ g.op = "resubscribe" /\ g.pc = "wait"
               /\ g.n = Top.n /\ g.count = Top.count
               /\ Top.n \in Slots /\ Top.n \in 0..NumHandlers /\ "wait" \in Pcs
<1>1. calls # << >> /\ Top.op = "resubscribe" /\ CallsTyped /\ ClientTyped
  BY TypedParts DEF InCall
<1>2. Top \in CallFrames /\ FrameFits(Top)
  BY <1>1, TopFacts
<1>3. /\ Top.n \in Slots /\ Top.n \in 0..NumHandlers /\ "wait" \in Pcs
      /\ Top.count \in 0..NumHandlers
  BY <1>2, CallFields, Bounds DEF Pcs
<1> DEFINE p == Packet("SUBSCRIBE", handlers[Top.n], NextPacketId)
           g == At(Top, Top.n, "wait")
<1>4. p \in Packets /\ p.type = "SUBSCRIBE" /\ p.topic = handlers[Top.n]
  <2>1. handlers[Top.n] \in Topics \cup { NoTopic }
    BY <1>1, <1>3 DEF ClientTyped
  <2>2. "SUBSCRIBE" \in PacketTypes /\ NextPacketId \in Ids
    BY <1>1, NextIdTyped DEF PacketTypes
  <2> QED
    BY <2>1, <2>2, PacketTyped
<1>5. /\ g \in CallFrames /\ g.op = "resubscribe" /\ g.pc = "wait" /\ g.n = Top.n
      /\ g.count = Top.count
  BY <1>1, <1>2, <1>3, ChangedCall
<1> HIDE DEF p, g
<1>6. FrameFits(g)
  BY <1>3, <1>5 DEF FrameFits
<1> QED
  BY <1>3, <1>4, <1>5, <1>6 DEF p, g

LEMMA ReconnectTyped ==
    ASSUME Typed, Reconnect \/ ResubscribeSend
    PROVE  Typed'
<1>1. /\ QueuesTyped /\ CallsTyped /\ BrokerTyped /\ ClientTyped /\ BoundsTyped /\ DeadIsEmpty
  BY TypedParts
<1>2. CASE Reconnect
  <2> DEFINE f == Call("resubscribe", NoTopic, 0, 0, FreeIndex, "send")
  <2>1. /\ ~up /\ calls = << >> /\ up' = TRUE /\ Enter(f)
        /\ UNCHANGED << toBroker, toClient, brokerSubs, awaiting, acked, handlers,
                        nextPacketId, bufTopic, confirmed >>
        /\ UNCHANGED << requests, messages, timeouts, drops, refusals >>
    BY <1>2 DEF Reconnect, broker, bounds
  <2>2. f \in CallFrames /\ FrameFits(f)
    BY ResubscribeFrame
  <2>3. drops > 0
    BY <1>1, <2>1 DEF DeadIsEmpty
  <2> HIDE DEF f
  <2>4. CallsTyped'
    BY <1>1, <2>1, <2>2, <2>3, EnterTyped
  <2>5. QueuesTyped' /\ BrokerTyped' /\ ClientTyped' /\ BoundsTyped' /\ DeadIsEmpty'
    BY <1>1, <2>1 DEF QueuesTyped, SendsFit, BrokerTyped, ClientTyped, BoundsTyped,
       DeadIsEmpty
  <2> QED
    BY <2>4, <2>5, TypedPartsNext
<1>3. CASE ResubscribeSend
  <2>1. /\ calls # << >> /\ Top.op = "resubscribe" /\ InCall("resubscribe", "send")
        /\ ElseUnchanged
    BY <1>3 DEF ResubscribeSend, InCall, ElseUnchanged, broker, bounds
  <2>2. /\ BrokerTyped' /\ BoundsTyped' /\ drops' = drops
        /\ up \/ toBroker' = toBroker => DeadIsEmpty'
        /\ nextPacketId' \in 1..MaxPacketId => ClientTyped'
        /\ toBroker' = toBroker => QueuesTyped'
    BY <2>1, ElseTyped
  <2>3. ClientTyped'
    BY <1>1, <1>3, <2>2, NextIdTyped DEF ResubscribeSend, ClientTyped
  <2>4. CASE Return /\ toBroker' = toBroker
    BY <1>1, <2>1, <2>2, <2>3, <2>4, ReturnTyped, TypedPartsNext
  <2>5. CASE /\ up /\ Top.n < Top.count
             /\ Send(Packet("SUBSCRIBE", handlers[Top.n], NextPacketId))
             /\ Goto(Top.n, "wait")
    <3> DEFINE p == Packet("SUBSCRIBE", handlers[Top.n], NextPacketId)
               g == At(Top, Top.n, "wait")
    <3>1. /\ p \in Packets /\ p.type = "SUBSCRIBE"
          /\ FrameFits(g) /\ Top.n \in 0..NumHandlers /\ "wait" \in Pcs
      BY <2>1, <2>5, ResendFacts
    <3>2. Send(p) /\ toClient' = toClient
      BY <2>1, <2>5 DEF ElseUnchanged
    <3> HIDE DEF p
    <3>3. QueuesTyped'
      BY <1>1, <3>1, <3>2, SendTyped
    <3>4. CallsTyped'
      BY <1>1, <2>1, <2>2, <2>5, <3>1, GotoTyped
    <3> QED
      BY <2>2, <2>3, <2>5, <3>3, <3>4, TypedPartsNext
  <2> QED
    BY <1>3, <2>4, <2>5 DEF ResubscribeSend
<1> QED
  BY <1>2, <1>3

\* The broker answers with at most one packet.
LEMMA ReplyFacts ==
    ASSUME NEW p \in Packets
    PROVE  \/ Reply(p) = << >> /\ \A ack \in Acks : p \notin Asking(ack)
           \/ \E q \in Packets :
                /\ Reply(p) = << q >> /\ q.type \in Acks
                /\ \A ack \in Acks : p \in Asking(ack) <=> q.type = ack
<1>1. \A type \in PacketTypes :
         /\ Packet(type, NoTopic, p.id) \in Packets
         /\ Packet(type, NoTopic, p.id).type = type
  BY PacketFields, PacketTyped
<1>2. CASE p.type = "SUBSCRIBE"
  BY <1>1, <1>2 DEF Reply, Acks, Asking, PacketTypes
<1>3. CASE p.type = "UNSUBSCRIBE"
  BY <1>1, <1>3 DEF Reply, Acks, Asking, PacketTypes
<1>4. CASE p.type = "PUBLISH" /\ p.id # 0
  BY <1>1, <1>4 DEF Reply, Acks, Asking, PacketTypes
<1>5. CASE /\ p.type # "SUBSCRIBE" /\ p.type # "UNSUBSCRIBE"
           /\ ~(p.type = "PUBLISH" /\ p.id # 0)
  BY <1>5 DEF Reply, Acks, Asking
<1> QED
  BY <1>2, <1>3, <1>4, <1>5

LEMMA ReceiveFacts ==
    ASSUME QueuesTyped, toBroker # << >>, toBroker' = Tail(toBroker),
           toClient' = toClient \o Reply(Head(toBroker))
    PROVE  /\ QueuesTyped' /\ Head(toBroker) \in Packets
           /\ Head(toBroker).type = "PUBLISH" => Head(toBroker).id <= MaxPacketId
           /\ \/ toClient' = toClient /\ \A ack \in Acks : Head(toBroker) \notin Asking(ack)
              \/ \E q \in Packets :
                   /\ toClient' = Append(toClient, q) /\ q.type \in Acks
                   /\ \A ack \in Acks : Head(toBroker) \in Asking(ack) <=> q.type = ack
<1> DEFINE p == Head(toBroker)
<1>1. /\ toBroker' \in Seq(Packets) /\ p \in Packets /\ Len(toBroker') = Len(toBroker) - 1
      /\ \A i \in 1..Len(toBroker') : toBroker'[i] = toBroker[i + 1]
  BY HeadTailProperties DEF QueuesTyped
<1>2. p = toBroker[1] /\ 1 \in 1..Len(toBroker)
      /\ \A i \in 1..Len(toBroker') : i + 1 \in 1..Len(toBroker)
  BY <1>1 DEF QueuesTyped
<1>3. SendsFit' /\ (p.type = "PUBLISH" => p.id <= MaxPacketId)
  BY <1>1, <1>2 DEF QueuesTyped, SendsFit
<1>4. toClient' = toClient \o Reply(p) /\ toClient \in Seq(Packets)
  BY DEF QueuesTyped
<1> HIDE DEF p
<1>5. \A q \in Packets : toClient \o << q >> = Append(toClient, q)
                         /\ Append(toClient, q) \in Seq(Packets)
  BY <1>4
<1>6. toClient \o << >> = toClient
  BY <1>4
<1>7. /\ toClient' \in Seq(Packets)
      /\ \/ toClient' = toClient /\ \A ack \in Acks : p \notin Asking(ack)
         \/ \E q \in Packets :
              /\ toClient' = Append(toClient, q) /\ q.type \in Acks
              /\ \A ack \in Acks : p \in Asking(ack) <=> q.type = ack
  <2>1. CASE Reply(p) = << >> /\ \A ack \in Acks : p \notin Asking(ack)
    BY <1>4, <1>6, <2>1
  <2>2. CASE \E q \in Packets :
               /\ Reply(p) = << q >> /\ q.type \in Acks
               /\ \A ack \in Acks : p \in Asking(ack) <=> q.type = ack
    <3>1. PICK q \in Packets :
               /\ Reply(p) = << q >> /\ q.type \in Acks
               /\ \A ack \in Acks : p \in Asking(ack) <=> q.type = ack
      BY <2>2
    <3>2. toClient' = Append(toClient, q) /\ toClient' \in Seq(Packets)
      BY <1>4, <1>5, <3>1
    <3> QED
      BY <3>1, <3>2
  <2> QED
    BY <1>1, <2>1, <2>2, ReplyFacts
<1> QED
  BY <1>1, <1>3, <1>7 DEF QueuesTyped, p

LEMMA NetworkTyped ==
    ASSUME Typed, Network
    PROVE  Typed'
<1>1. /\ QueuesTyped /\ CallsTyped /\ BrokerTyped /\ ClientTyped /\ BoundsTyped /\ DeadIsEmpty
  BY TypedParts
<1>2. calls' = calls /\ handlers' = handlers /\ nextPacketId' = nextPacketId
      /\ bufTopic' = bufTopic /\ confirmed' = confirmed
  BY DEF Network, BrokerReceive, BrokerRefuse, BrokerPublish, ConnectionLost
<1>3. ClientTyped'
  BY <1>1, <1>2 DEF ClientTyped
<1>4. ASSUME drops' \in Nat, drops' >= drops
      PROVE  CallsTyped'
  <2>1. drops \in Nat
    BY <1>1, Bounds DEF BoundsTyped
  <2>2. drops > 0 => drops' > 0
    BY <1>4, <2>1
  <2> QED
    BY <1>1, <1>2, <2>2 DEF CallsTyped, CallsFit, FrameFits
<1>5. drops \in Nat
  BY <1>1, Bounds DEF BoundsTyped
<1>6. CASE BrokerReceive
  <2> DEFINE p == Head(toBroker)
  <2>1. /\ toBroker # << >> /\ toBroker' = Tail(toBroker)
        /\ toClient' = toClient \o Reply(p)
        /\ brokerSubs' \in { brokerSubs \cup { p.topic }, brokerSubs \ { p.topic }, brokerSubs }
        /\ awaiting' \subseteq awaiting
        /\ acked' = IF p.type = "PUBLISH" /\ p.id # 0 THEN acked \cup { p.id } ELSE acked
        /\ up' = up
        /\ UNCHANGED << requests, messages, timeouts, drops, refusals >>
    BY <1>6 DEF BrokerReceive, bounds
  <2>2. /\ QueuesTyped' /\ p \in Packets /\ (p.type = "PUBLISH" => p.id <= MaxPacketId)
    BY <1>1, <2>1, ReceiveFacts
  <2> HIDE DEF p
  <2>3. p.topic \in Topics \cup { NoTopic } /\ p.id \in Nat
    BY <2>2, PacketFields, Bounds DEF Ids
  <2>4. BrokerTyped' /\ BoundsTyped' /\ DeadIsEmpty'
    <3>1. BoundsTyped'
      BY <1>1, <2>1 DEF BoundsTyped
    <3>2. DeadIsEmpty'
      BY <1>1, <2>1 DEF DeadIsEmpty
    <3>3. acked' \subseteq 1..MaxPacketId
      <4>1. acked \subseteq 1..MaxPacketId
        BY <1>1 DEF BrokerTyped
      <4>2. p.type = "PUBLISH" /\ p.id # 0 => p.id \in 1..MaxPacketId
        BY <2>2, <2>3, Bounds
      <4>3. acked' = acked \/ (p.id \in 1..MaxPacketId /\ acked' = acked \cup { p.id })
        BY <2>1, <4>2
      <4> QED
        BY <4>1, <4>3
    <3>4. brokerSubs' \subseteq Topics \cup { NoTopic } /\ awaiting' \subseteq 1..MaxMessages
      BY <1>1, <2>1, <2>3 DEF BrokerTyped
    <3> QED
      BY <1>1, <2>1, <3>1, <3>2, <3>3, <3>4 DEF BrokerTyped
  <2> QED
    BY <1>3, <1>4, <1>5, <2>1, <2>2, <2>4, TypedPartsNext
<1>7. CASE BrokerRefuse
  <2>1. /\ toBroker # << >> /\ toBroker' = Tail(toBroker)
        /\ toClient' = toClient \o Reply(Head(toBroker))
        /\ refusals' = refusals + 1 /\ refusals < MaxRefusals
        /\ UNCHANGED << up, brokerSubs, awaiting, acked, requests, messages, timeouts, drops >>
    BY <1>7 DEF BrokerRefuse, broker
  <2>2. QueuesTyped'
    BY <1>1, <2>1, ReceiveFacts
  <2>3. BrokerTyped' /\ BoundsTyped' /\ DeadIsEmpty'
    BY <1>1, <2>1, Bounds DEF BrokerTyped, BoundsTyped, DeadIsEmpty
  <2> QED
    BY <1>3, <1>4, <1>5, <2>1, <2>2, <2>3, TypedPartsNext
<1>8. ASSUME NEW topic \in Topics, BrokerPublish(topic)
      PROVE  Typed'
  <2>1. /\ up /\ messages < MaxMessages /\ messages' = messages + 1
        /\ \E id \in { 0, messages + 1 } :
              toClient' = Append(toClient, Packet("PUBLISH", topic, id))
        /\ awaiting' \subseteq awaiting \cup { messages + 1 }
        /\ UNCHANGED << up, toBroker, brokerSubs, acked, requests, timeouts, drops, refusals >>
    BY <1>8 DEF BrokerPublish
  <2>2. messages \in Nat /\ messages + 1 \in 1..MaxMessages /\ { 0, messages + 1 } \subseteq Ids
    BY <1>1, <2>1, Bounds DEF BoundsTyped, Ids
  <2>3. \A id \in { 0, messages + 1 } : Packet("PUBLISH", topic, id) \in Packets
    BY <2>2, PacketTyped DEF PacketTypes
  <2>4. QueuesTyped'
    BY <1>1, <2>1, <2>3 DEF QueuesTyped, SendsFit
  <2>5. BrokerTyped' /\ BoundsTyped' /\ DeadIsEmpty'
    BY <1>1, <2>1, <2>2, Bounds DEF BrokerTyped, BoundsTyped, DeadIsEmpty
  <2> QED
    BY <1>3, <1>4, <1>5, <2>1, <2>4, <2>5, TypedPartsNext
<1>9. CASE ConnectionLost
  <2>1. /\ drops < MaxDrops /\ drops' = drops + 1 /\ up' = FALSE
        /\ toBroker' = << >> /\ toClient' = << >> /\ brokerSubs' = {} /\ awaiting' = {}
        /\ UNCHANGED << acked, requests, messages, timeouts, refusals >>
    BY <1>9 DEF ConnectionLost
  <2>2. QueuesTyped'
    BY <2>1 DEF QueuesTyped, SendsFit
  <2>3. BrokerTyped' /\ BoundsTyped' /\ DeadIsEmpty'
    <3>1. drops' \in 0..MaxDrops /\ drops' > 0
      BY <1>5, <2>1, Bounds
    <3>2. BoundsTyped'
      BY <1>1, <2>1, <3>1 DEF BoundsTyped
    <3>3. DeadIsEmpty'
      BY <2>1, <3>1 DEF DeadIsEmpty
    <3>4. up' \in BOOLEAN /\ brokerSubs' = {} /\ awaiting' = {} /\ acked' = acked
      BY <2>1
    <3> QED
      BY <1>1, <3>2, <3>3, <3>4 DEF BrokerTyped
  <2>4. CallsTyped'
    BY <1>4, <1>5, <2>1
  <2> QED
    BY <1>3, <2>2, <2>3, <2>4, TypedPartsNext
<1> QED
  BY <1>6, <1>7, <1>8, <1>9 DEF Network

LEMMA InitTyped == Init => Typed
<1> SUFFICES ASSUME Init PROVE Typed
  OBVIOUS
<1>1. QueuesTyped /\ CallsTyped /\ DeadIsEmpty
  BY DEF Init, QueuesTyped, SendsFit, CallsTyped, CallsFit, DeadIsEmpty
<1>2. BrokerTyped /\ ClientTyped /\ BoundsTyped
  BY Bounds DEF Init, BrokerTyped, ClientTyped, BoundsTyped
<1> QED
  BY <1>1, <1>2, TypedParts

LEMMA NextTyped ==
    ASSUME Typed, [Next]_vars
    PROVE  Typed'
<1>1. CASE Next
  <2>1. CASE Client
    BY <2>1, RequestsTyped, ReadsTyped, TooLongTyped, TimeoutTyped, DeliveryTyped,
       ReconnectTyped DEF Client
  <2>2. CASE Network
    BY <2>2, NetworkTyped
  <2> QED
    BY <1>1, <2>1, <2>2 DEF Next
<1>2. CASE UNCHANGED vars
  <2>1. QueuesTyped /\ CallsTyped /\ BrokerTyped /\ ClientTyped /\ BoundsTyped /\ DeadIsEmpty
    BY TypedParts
  <2>2. UNCHANGED << up, toBroker, toClient, brokerSubs, awaiting, acked, handlers,
                     nextPacketId, bufTopic, calls, confirmed, requests, messages, timeouts,
                     drops, refusals >>
    BY <1>2 DEF vars, broker, bounds
  <2>3. QueuesTyped' /\ CallsTyped' /\ BrokerTyped' /\ ClientTyped' /\ BoundsTyped' /\ DeadIsEmpty'
    BY <2>1, <2>2 DEF QueuesTyped, SendsFit, CallsTyped, CallsFit, FrameFits,
       BrokerTyped,
       ClientTyped, BoundsTyped, DeadIsEmpty
  <2> QED
    BY <2>3, TypedPartsNext
<1> QED
  BY <1>1, <1>2

LEMMA AlwaysTyped == Spec => []Typed
BY InitTyped, NextTyped, PTL DEF Spec

-----------------------------------------------------------------------------
(* What the steps do to the two queues and to the calls *)

LEMMA Sent ==
    ASSUME QueuesTyped, NEW p \in Packets, Send(p), NEW P
    PROVE  /\ toBroker' = Append(toBroker, p) /\ Members(toBroker') = Members(toBroker) \cup { p }
           /\ Count(toBroker', P) = IF p \in P THEN Count(toBroker, P) + 1 ELSE Count(toBroker, P)
           /\ Count(toBroker, P) \in Nat
BY CountAppend, CountFacts, MembersAppend DEF QueuesTyped, Send

LEMMA ReadOne ==
    ASSUME QueuesTyped, toClient # << >>, toClient' = Tail(toClient), NEW P
    PROVE  /\ Members(toClient') \subseteq Members(toClient)
           /\ Head(toClient) \in Members(toClient) /\ Head(toClient) \in Packets
           /\ Count(toClient, P) = IF Head(toClient) \in P THEN Count(toClient', P) + 1
                                   ELSE Count(toClient', P)
           /\ Count(toClient', P) \in Nat
<1>1. toClient \in Seq(Packets) /\ toClient' \in Seq(Packets)
  BY HeadTailProperties DEF QueuesTyped
<1>2. Count(toClient', P) \in Nat
  BY <1>1, CountFacts
<1>3. Members(Tail(toClient)) \subseteq Members(toClient) /\ Head(toClient) \in Members(toClient)
  BY <1>1, MembersTail
<1>4. /\ Head(toClient) \in Packets
      /\ Count(toClient, P) = IF Head(toClient) \in P THEN Count(Tail(toClient), P) + 1
                              ELSE Count(Tail(toClient), P)
  BY <1>1, CountTail
<1> QED
  BY <1>2, <1>3, <1>4

LEMMA ReceivedOne ==
    ASSUME QueuesTyped, toBroker # << >>, toBroker' = Tail(toBroker), NEW P
    PROVE  /\ Members(toBroker') \subseteq Members(toBroker)
           /\ Members(toBroker) = Members(toBroker') \cup { Head(toBroker) }
           /\ Head(toBroker) \in Members(toBroker) /\ Head(toBroker) \in Packets
           /\ Count(toBroker, P) = IF Head(toBroker) \in P THEN Count(toBroker', P) + 1
                                   ELSE Count(toBroker', P)
           /\ Count(toBroker', P) \in Nat
<1>1. toBroker \in Seq(Packets) /\ toBroker' \in Seq(Packets)
  BY HeadTailProperties DEF QueuesTyped
<1>2. Count(toBroker', P) \in Nat
  BY <1>1, CountFacts
<1>3. /\ Members(Tail(toBroker)) \subseteq Members(toBroker) /\ Head(toBroker) \in Members(toBroker)
      /\ Members(toBroker) = Members(Tail(toBroker)) \cup { Head(toBroker) }
  BY <1>1, MembersTail
<1>4. /\ Head(toBroker) \in Packets
      /\ Count(toBroker, P) = IF Head(toBroker) \in P THEN Count(Tail(toBroker), P) + 1
                              ELSE Count(Tail(toBroker), P)
  BY <1>1, CountTail
<1> QED
  BY <1>2, <1>3, <1>4

LEMMA Delivered ==
    ASSUME QueuesTyped, NEW q \in Packets, toClient' = Append(toClient, q), NEW P
    PROVE  /\ Members(toClient') = Members(toClient) \cup { q }
           /\ Count(toClient', P) = IF q \in P THEN Count(toClient, P) + 1 ELSE Count(toClient, P)
           /\ Count(toClient, P) \in Nat
BY CountAppend, CountFacts, MembersAppend DEF QueuesTyped

LEMMA EnteredOne ==
    ASSUME CallsTyped, NEW f \in CallFrames, Enter(f), NEW P
    PROVE  /\ Members(calls') = Members(calls) \cup { f }
           /\ Count(calls', P) = IF f \in P THEN Count(calls, P) + 1 ELSE Count(calls, P)
           /\ Count(calls, P) \in Nat
BY CountAppend, CountFacts, MembersAppend DEF CallsTyped, Enter

LEMMA ReturnedOne ==
    ASSUME CallsTyped, calls # << >>, Return, NEW P
    PROVE  /\ Members(calls') \subseteq Members(calls) /\ Top \in Members(calls)
           /\ Count(calls, P) = IF Top \in P THEN Count(calls', P) + 1 ELSE Count(calls', P)
           /\ Count(calls', P) \in Nat
<1>1. calls \in Seq(CallFrames) /\ calls' \in Seq(CallFrames) /\ Len(calls) > 0
      /\ calls' = Front(calls) /\ Top = Last(calls)
  BY Returned, TopFacts DEF CallsTyped
<1> QED
  BY <1>1, CountFront, CountFacts, MembersFront

LEMMA MovedOne ==
    ASSUME CallsTyped, calls # << >>, NEW n \in 0..NumHandlers, NEW pc \in Pcs, Goto(n, pc),
           NEW P
    PROVE  LET g == At(Top, n, pc)
               rest == Count(Front(calls), P)
           IN  /\ Members(calls') \subseteq Members(calls) \cup { g } /\ Top \in Members(calls)
               /\ rest \in Nat
               /\ Count(calls, P) = IF Top \in P THEN rest + 1 ELSE rest
               /\ Count(calls', P) = IF g \in P THEN rest + 1 ELSE rest
<1> DEFINE g == At(Top, n, pc)
<1>1. g \in CallFrames /\ calls' = [calls EXCEPT ![Len(calls)] = g]
  BY Moved
<1>2. calls \in Seq(CallFrames) /\ Len(calls) > 0 /\ Top = Last(calls)
  BY TopFacts DEF CallsTyped
<1> HIDE DEF g
<1>3. Members(calls') \subseteq Members(calls) \cup { g }
  BY <1>1, <1>2, MembersLast
<1>4. Top \in Members(calls)
  BY <1>2, MembersFront
<1>5. LET rest == Count(Front(calls), P)
      IN  /\ rest \in Nat
          /\ Count(calls, P) = IF Top \in P THEN rest + 1 ELSE rest
          /\ Count(calls', P) = IF g \in P THEN rest + 1 ELSE rest
  <2>1. /\ Count(Front(calls), P) \in Nat
        /\ Count(calls, P) = IF Last(calls) \in P THEN Count(Front(calls), P) + 1
                             ELSE Count(Front(calls), P)
        /\ Count([calls EXCEPT ![Len(calls)] = g], P) =
              IF g \in P THEN Count(Front(calls), P) + 1 ELSE Count(Front(calls), P)
    BY <1>1, <1>2, CountLast
  <2> QED
    BY <1>1, <1>2, <2>1
<1> QED
  BY <1>3, <1>4, <1>5 DEF g

-----------------------------------------------------------------------------
(* No message is lost or acknowledged early *)

Carrying(id) == { p \in Packets : p.type = "PUBLISH" /\ p.id = id }
Delivering(id) == { f \in CallFrames : f.op = "deliver" /\ f.id = id }
Acking(id) == { p \in Packets : p.type = "PUBACK" /\ p.id = id }

InFlight(id) ==
    Count(toClient, Carrying(id)) + Count(calls, Delivering(id)) + Count(toBroker, Acking(id))

\* In how many places a message is that the broker waits for.
Due(id) == IF id \in unacked THEN 0 ELSE 1

Accounted == up => \A id \in awaiting : InFlight(id) = Due(id)

LEMMA InFlightNext ==
    ASSUME NEW id
    PROVE  InFlight(id)' = Count(toClient', Carrying(id)) + Count(calls', Delivering(id))
                           + Count(toBroker', Acking(id))
BY DEF InFlight, Carrying, Delivering, Acking

LEMMA SamePlaces ==
    ASSUME Typed, NEW id
    PROVE  /\ OnItsWay(id) = Places(toClient, Carrying(id))
           /\ BeingDelivered(id) = Places(calls, Delivering(id))
           /\ BeingAcked(id) = Places(toBroker, Acking(id))
<1>1. /\ \A i \in 1..Len(toClient) : toClient[i] \in Packets
      /\ \A i \in 1..Len(calls) : calls[i] \in CallFrames
      /\ \A i \in 1..Len(toBroker) : toBroker[i] \in Packets
  BY DEF Typed, CoreTypes
<1> QED
  BY <1>1 DEF OnItsWay, BeingDelivered, BeingAcked, Places, Carrying, Delivering, Acking

LEMMA AccountedMeans ==
    ASSUME Typed
    PROVE  Accounted <=> MessageAccounted
BY SamePlaces DEF Accounted, MessageAccounted, InFlight, Due, Count

AccountsKept == MessageIds /\ Accounted

\* A step that moves no message.
LEMMA NothingMoved ==
    ASSUME AccountsKept, messages' = messages, awaiting' \subseteq awaiting, up' => up,
           unacked' = unacked,
           \A p \in Members(toClient') : p \in Members(toClient) \/ p.type # "PUBLISH",
           \A f \in Members(calls') : \/ f \in Members(calls)
                                      \/ f.op # "deliver"
                                      \/ \E g \in Members(calls) : g.op = "deliver" /\ g.id = f.id,
           \A p \in Members(toBroker') : p \in Members(toBroker) \/ p.type # "PUBACK",
           \A id \in awaiting' : InFlight(id)' = InFlight(id)
    PROVE  AccountsKept'
<1>1. MessageIds'
  BY DEF AccountsKept, MessageIds
<1>2. Accounted'
  BY DEF AccountsKept, Accounted, Due
<1> QED
  BY <1>1, <1>2 DEF AccountsKept

\* A step that gives up a message.
LEMMA MessageGivenUp ==
    ASSUME AccountsKept, up, NEW gone \in 1..messages, messages' = messages,
           awaiting' = awaiting, unacked' = unacked \cup { gone },
           Members(toClient') \subseteq Members(toClient),
           Members(calls') \subseteq Members(calls), toBroker' = toBroker,
           InFlight(gone) = InFlight(gone)' + 1, InFlight(gone)' \in Nat,
           \A id \in awaiting : id # gone => InFlight(id)' = InFlight(id)
    PROVE  AccountsKept'
<1>1. MessageIds'
  BY DEF AccountsKept, MessageIds
<1>2. ASSUME NEW id \in awaiting
      PROVE  InFlight(id)' = Due(id)'
  <2>1. InFlight(id) = Due(id)
    BY DEF AccountsKept, Accounted
  <2>2. CASE id = gone
    <3>1. Due(id) \in { 0, 1 } /\ Due(id)' = 0
      BY <2>2 DEF Due
    <3> QED
      BY <2>1, <2>2, <3>1
  <2>3. CASE id # gone
    <3>1. Due(id)' = Due(id)
      BY <2>3 DEF Due
    <3> QED
      BY <2>1, <2>3, <3>1
  <2> QED
    BY <2>2, <2>3
<1>3. Accounted'
  BY <1>2 DEF Accounted
<1> QED
  BY <1>1, <1>3 DEF AccountsKept

LEMMA RequestsAccounted ==
    ASSUME Typed, AccountsKept,
           PublishQos0 \/ Publish
           \/ \E topic \in Topics : Subscribe(topic) \/ Unsubscribe(topic)
    PROVE  AccountsKept'
<1>1. QueuesTyped /\ CallsTyped /\ ClientTyped
  BY TypedParts
<1>2. /\ messages' = messages /\ awaiting' = awaiting /\ up' = up /\ toClient' = toClient
      /\ unacked' = unacked
  BY DEF PublishQos0, Publish, Subscribe, Unsubscribe, StartRequest, broker, marks
<1>3. ASSUME NEW p \in Packets, p.type # "PUBACK", Send(p), calls' = calls
      PROVE  AccountsKept'
  <2>1. Members(toBroker') = Members(toBroker) \cup { p }
        /\ \A id : Count(toBroker', Acking(id)) = Count(toBroker, Acking(id))
    BY <1>1, <1>3, Sent DEF Acking
  <2>2. \A id : InFlight(id)' = InFlight(id)
    BY <1>2, <1>3, <2>1, InFlightNext DEF InFlight
  <2> QED
    BY <1>2, <1>3, <2>1, <2>2, NothingMoved
<1>4. ASSUME toBroker' = toBroker, calls' = calls
      PROVE  AccountsKept'
  <2>1. \A id : InFlight(id)' = InFlight(id)
    BY <1>2, <1>4, InFlightNext DEF InFlight
  <2> QED
    BY <1>2, <1>4, <2>1, NothingMoved
<1>5. ASSUME NEW p \in Packets, p.type # "PUBACK", NEW f \in CallFrames, f.op # "deliver",
             StartRequest(p, f)
      PROVE  AccountsKept'
  <2>1. CASE up
    <3>1. Send(p) /\ Enter(f)
      BY <1>5, <2>1 DEF StartRequest
    <3>2. Members(toBroker') = Members(toBroker) \cup { p }
          /\ \A id : Count(toBroker', Acking(id)) = Count(toBroker, Acking(id))
      BY <1>1, <1>5, <3>1, Sent DEF Acking
    <3>3. Members(calls') = Members(calls) \cup { f }
          /\ \A id : Count(calls', Delivering(id)) = Count(calls, Delivering(id))
      BY <1>1, <1>5, <3>1, EnteredOne DEF Delivering
    <3>4. \A id : InFlight(id)' = InFlight(id)
      BY <1>2, <3>2, <3>3, InFlightNext DEF InFlight
    <3> QED
      BY <1>2, <1>5, <3>2, <3>3, <3>4, NothingMoved
  <2>2. CASE ~up
    BY <1>4, <1>5, <2>2 DEF StartRequest
  <2> QED
    BY <2>1, <2>2
<1>6. CASE PublishQos0
  <2> DEFINE p == Packet("PUBLISH", NoTopic, 0)
  <2>1. p \in Packets /\ p.type = "PUBLISH"
    BY PacketTyped, Bounds DEF PacketTypes
  <2>2. Send(p) /\ calls' = calls
    BY <1>6 DEF PublishQos0
  <2> HIDE DEF p
  <2> QED
    BY <1>3, <2>1, <2>2
<1>7. CASE Publish
  BY <1>1, <1>5, <1>7, PublishFrame DEF Publish
<1>8. ASSUME NEW topic \in Topics, Subscribe(topic)
      PROVE  AccountsKept'
  <2>1. CASE FreeIndex \in Slots
    BY <1>1, <1>5, <1>8, <2>1, SubscribeFrame DEF Subscribe
  <2>2. CASE FreeIndex \notin Slots
    BY <1>4, <1>8, <2>2 DEF Subscribe
  <2> QED
    BY <2>1, <2>2
<1>9. ASSUME NEW topic \in Topics, Unsubscribe(topic)
      PROVE  AccountsKept'
  BY <1>1, <1>5, <1>9, UnsubscribeFrame DEF Unsubscribe
<1> QED
  BY <1>6, <1>7, <1>8, <1>9

\* The answer a request waits for is never a message.
LEMMA AnswerFacts ==
    ASSUME Typed, NEW op \in { "publish", "subscribe", "unsubscribe", "resubscribe" },
           ReadAnswer(op)
    PROVE  /\ calls # << >> /\ Top.op = op /\ Top.pc = "wait"
           /\ ReadPacket /\ up /\ up' = up /\ toClient # << >> /\ toClient' = Tail(toClient)
           /\ Head(toClient) \in Packets
           /\ Head(toClient).type = AckOf(op) /\ AckOf(op) \in Acks
<1>1. ReadPacket /\ calls # << >> /\ Top.op = op /\ Top.pc = "wait"
      /\ Head(toClient).type = AckOf(op)
  BY DEF ReadAnswer, Waiting
<1>2. AckOf(op) \in Acks
  BY DEF AckOf, Acks
<1> QED
  BY <1>1, <1>2, ReadFacts

LEMMA ReadsAccounted ==
    ASSUME Typed, AccountsKept,
           \/ ReadMessage \/ ReadStray \/ PublishAnswered \/ SubscribeAnswered
           \/ UnsubscribeAnswered \/ ResubscribeAnswered
    PROVE  AccountsKept'
<1>1. QueuesTyped /\ CallsTyped
  BY TypedParts
<1>2. ReadPacket /\ toBroker' = toBroker
  BY DEF ReadMessage, ReadStray, PublishAnswered, SubscribeAnswered,
     UnsubscribeAnswered,
     ResubscribeAnswered, ReadAnswer
<1>3. /\ messages' = messages /\ awaiting' = awaiting /\ up' = up /\ unacked' = unacked
      /\ toClient # << >> /\ toClient' = Tail(toClient) /\ Head(toClient) \in Packets
  BY <1>2, ReadFacts
<1> DEFINE p == Head(toClient)
<1>4. /\ Members(toClient') \subseteq Members(toClient) /\ p \in Members(toClient)
      /\ \A id : /\ Count(toClient, Carrying(id)) = IF p \in Carrying(id)
                                                    THEN Count(toClient', Carrying(id)) + 1
                                                    ELSE Count(toClient', Carrying(id))
                 /\ Count(toClient', Carrying(id)) \in Nat
  BY <1>1, <1>3, ReadOne
<1> HIDE DEF p
<1>5. ASSUME p.type # "PUBLISH", Members(calls') \subseteq Members(calls)
                                 \/ \A f \in Members(calls') : f \in Members(calls)
                                                               \/ f.op # "deliver",
             \A id : Count(calls', Delivering(id)) = Count(calls, Delivering(id))
      PROVE  AccountsKept'
  <2>1. \A id : Count(toClient', Carrying(id)) = Count(toClient, Carrying(id))
    BY <1>4, <1>5 DEF Carrying
  <2>2. \A id : InFlight(id)' = InFlight(id)
    BY <1>2, <1>5, <2>1, InFlightNext DEF InFlight
  <2> QED
    BY <1>2, <1>3, <1>4, <1>5, <2>2, NothingMoved
<1>6. CASE ReadMessage
  <2> DEFINE f == Call("deliver", p.topic, p.id, 0, 0, "match")
  <2>1. /\ f \in CallFrames /\ f.op = "deliver" /\ f.id = p.id
    BY <1>3, DeliverFrame DEF p
  <2>2. Enter(f) /\ p.type = "PUBLISH"
    BY <1>6 DEF ReadMessage, p
  <2> HIDE DEF f
  <2>3. /\ Members(calls') = Members(calls) \cup { f }
        /\ \A id : /\ Count(calls', Delivering(id)) = IF f \in Delivering(id)
                                                      THEN Count(calls, Delivering(id)) + 1
                                                      ELSE Count(calls, Delivering(id))
                   /\ Count(calls, Delivering(id)) \in Nat
    BY <1>1, <2>1, <2>2, EnteredOne
  <2>4. \A id : f \in Delivering(id) <=> p \in Carrying(id)
    BY <1>3, <2>1, <2>2 DEF Delivering, Carrying, p
  <2>5. \A id : Count(toBroker, Acking(id)) \in Nat
    BY <1>1, CountFacts DEF QueuesTyped
  <2>6. \A id : InFlight(id)' = InFlight(id)
    BY <1>2, <1>4, <2>3, <2>4, <2>5, InFlightNext DEF InFlight
  <2>7. MessageIds'
    BY <1>2, <1>3, <1>4, <2>1, <2>2, <2>3 DEF AccountsKept, MessageIds
  <2>8. Accounted'
    BY <1>3, <2>6 DEF AccountsKept, Accounted, Due
  <2> QED
    BY <2>7, <2>8 DEF AccountsKept
<1>7. CASE ReadStray
  <2>1. calls' = calls /\ p.type # "PUBLISH"
    BY <1>7 DEF ReadStray, p
  <2> QED
    BY <1>5, <2>1 DEF Delivering
<1>8. ASSUME NEW op \in { "publish", "subscribe", "unsubscribe" }, ReadAnswer(op), Return
      PROVE  AccountsKept'
  <2>1. calls # << >> /\ Top.op # "deliver" /\ p.type # "PUBLISH"
    BY <1>8, AnswerFacts DEF p, Acks
  <2>2. /\ Members(calls') \subseteq Members(calls)
        /\ \A id : Count(calls', Delivering(id)) = Count(calls, Delivering(id))
    BY <1>1, <1>8, <2>1, ReturnedOne DEF Delivering
  <2> QED
    BY <1>5, <2>1, <2>2
<1>9. CASE PublishAnswered \/ SubscribeAnswered \/ UnsubscribeAnswered
  BY <1>8, <1>9 DEF PublishAnswered, SubscribeAnswered, UnsubscribeAnswered
<1>10. CASE ResubscribeAnswered
  <2>1. /\ calls # << >> /\ Top.op = "resubscribe" /\ Top.pc = "wait"
        /\ Goto(Top.n + 1, "send") /\ p.type # "PUBLISH"
    BY <1>10, AnswerFacts DEF ResubscribeAnswered, p, Acks
  <2>2. Top \in CallFrames /\ FrameFits(Top)
    BY <1>1, <2>1, TopFacts
  <2> DEFINE m == Top.n + 1
             g == At(Top, m, "send")
  <2>3. m \in 0..NumHandlers /\ "send" \in Pcs /\ Goto(m, "send")
    BY <2>1, <2>2, CallFields, Bounds DEF FrameFits, Pcs
  <2> HIDE DEF m
  <2>4. g.op = "resubscribe"
    BY <2>1, <2>2, <2>3, ChangedCall
  <2>5. /\ Members(calls') \subseteq Members(calls) \cup { g }
        /\ \A id : /\ Count(Front(calls), Delivering(id)) \in Nat
                   /\ Count(calls, Delivering(id)) = IF Top \in Delivering(id)
                                                     THEN Count(Front(calls), Delivering(id)) + 1
                                                     ELSE Count(Front(calls), Delivering(id))
                   /\ Count(calls', Delivering(id)) = IF g \in Delivering(id)
                                                      THEN Count(Front(calls), Delivering(id)) + 1
                                                      ELSE Count(Front(calls), Delivering(id))
    BY <1>1, <2>1, <2>3, MovedOne
  <2> HIDE DEF g
  <2>6. \A id : Top \notin Delivering(id) /\ g \notin Delivering(id)
    BY <2>1, <2>4 DEF Delivering
  <2> QED
    BY <1>5, <2>1, <2>4, <2>5, <2>6
<1> QED
  BY <1>6, <1>7, <1>9, <1>10

LEMMA TooLongAccounted ==
    ASSUME Typed, AccountsKept, ReadTooLong
    PROVE  AccountsKept'
<1>1. QueuesTyped
  BY TypedParts
<1> DEFINE p == Head(toClient)
<1>2. /\ up /\ toClient # << >> /\ toClient' = Tail(toClient) /\ p.type = "PUBLISH"
      /\ unacked' = IF p.id = 0 THEN unacked ELSE unacked \cup { p.id }
      /\ UNCHANGED << up, toBroker, awaiting, calls, messages >>
  BY DEF ReadTooLong, broker, bounds
<1>3. /\ Members(toClient') \subseteq Members(toClient) /\ p \in Members(toClient) /\ p \in Packets
      /\ \A id : /\ Count(toClient, Carrying(id)) = IF p \in Carrying(id)
                                                    THEN Count(toClient', Carrying(id)) + 1
                                                    ELSE Count(toClient', Carrying(id))
                 /\ Count(toClient', Carrying(id)) \in Nat
  BY <1>1, <1>2, ReadOne
<1> HIDE DEF p
<1>4. \A id : Count(calls, Delivering(id)) \in Nat /\ Count(toBroker, Acking(id)) \in Nat
  BY TypedParts, CountFacts DEF QueuesTyped, CallsTyped
<1>5. \A id : id # p.id => InFlight(id)' = InFlight(id)
  <2>1. \A id : id # p.id => p \notin Carrying(id)
    BY DEF Carrying
  <2> QED
    BY <1>2, <1>3, <2>1, InFlightNext DEF InFlight
<1>6. CASE p.id = 0
  <2>1. \A id \in awaiting : InFlight(id)' = InFlight(id)
    BY <1>5, <1>6 DEF AccountsKept, MessageIds
  <2> QED
    BY <1>2, <1>3, <1>6, <2>1, NothingMoved
<1>7. CASE p.id # 0
  <2>1. p.id \in 1..messages
    <3>1. p.id \in Nat
      BY <1>3, PacketFields, Bounds DEF Ids
    <3>2. p.id <= messages
      BY <1>2, <1>3 DEF AccountsKept, MessageIds
    <3>3. messages \in Nat
      BY TypedParts, Bounds DEF BoundsTyped
    <3> QED
      BY <1>7, <3>1, <3>2, <3>3
  <2>2. PICK gone \in 1..messages : gone = p.id
    BY <2>1
  <2>3. p \in Carrying(gone)
    BY <1>2, <1>3, <2>2 DEF Carrying
  <2>4. InFlight(gone) = InFlight(gone)' + 1 /\ InFlight(gone)' \in Nat
    <3> DEFINE c == Count(toClient', Carrying(gone))
               d == Count(calls, Delivering(gone))
               a == Count(toBroker, Acking(gone))
    <3>1. c \in Nat /\ d \in Nat /\ a \in Nat /\ Count(toClient, Carrying(gone)) = c + 1
      BY <1>3, <1>4, <2>3
    <3>2. InFlight(gone)' = c + d + a
      BY <1>2, InFlightNext
    <3>3. InFlight(gone) = Count(toClient, Carrying(gone)) + d + a
      BY DEF InFlight
    <3> QED
      BY <3>1, <3>2, <3>3
  <2>5. /\ unacked' = unacked \cup { gone }
        /\ \A id \in awaiting : id # gone => InFlight(id)' = InFlight(id)
    BY <1>2, <1>5, <1>7, <2>2
  <2> QED
    BY <1>2, <1>3, <2>4, <2>5, MessageGivenUp
<1> QED
  BY <1>6, <1>7

LEMMA TimeoutAccounted ==
    ASSUME Typed, AccountsKept, CommandTimeout
    PROVE  AccountsKept'
<1>1. CallsTyped
  BY TypedParts
<1>2. /\ calls # << >> /\ Return /\ Top.pc = "wait"
      /\ UNCHANGED << up, toBroker, toClient, awaiting, unacked, messages >>
  BY DEF CommandTimeout, Waiting, broker
<1>3. Top.op # "deliver"
  BY <1>1, <1>2, TopFacts DEF FrameFits
<1>4. /\ Members(calls') \subseteq Members(calls)
      /\ \A id : Count(calls', Delivering(id)) = Count(calls, Delivering(id))
  BY <1>1, <1>2, <1>3, ReturnedOne DEF Delivering
<1>5. \A id : InFlight(id)' = InFlight(id)
  BY <1>2, <1>4, InFlightNext DEF InFlight
<1> QED
  BY <1>2, <1>4, <1>5, NothingMoved

\* Delivery goes on in the same frame, or ends with the acknowledgement.
LEMMA DeliveryAccounted ==
    ASSUME Typed, AccountsKept, DeliverMatch \/ CallbackReturn \/ DeliverDone
    PROVE  AccountsKept'
<1>1. QueuesTyped /\ CallsTyped /\ DeadIsEmpty
  BY TypedParts
<1>2. /\ calls # << >> /\ Top.op = "deliver"
      /\ UNCHANGED << up, toClient, awaiting, unacked, messages >>
  BY DEF DeliverMatch, CallbackReturn, DeliverDone, InCall, broker, marks, bounds
<1>3. Top \in CallFrames /\ FrameFits(Top)
  BY <1>1, <1>2, TopFacts
<1>4. ASSUME NEW n \in 0..NumHandlers, NEW pc \in { "match", "callback" }, Goto(n, pc),
             toBroker' = toBroker
      PROVE  AccountsKept'
  <2> DEFINE g == At(Top, n, pc)
  <2>1. pc \in Pcs
    BY DEF Pcs
  <2>2. g \in CallFrames /\ g.op = "deliver" /\ g.id = Top.id
    BY <1>2, <1>3, <2>1, ChangedCall
  <2>3. /\ Members(calls') \subseteq Members(calls) \cup { g } /\ Top \in Members(calls)
        /\ \A id : /\ Count(calls, Delivering(id)) = IF Top \in Delivering(id)
                                                     THEN Count(Front(calls), Delivering(id)) + 1
                                                     ELSE Count(Front(calls), Delivering(id))
                   /\ Count(calls', Delivering(id)) = IF g \in Delivering(id)
                                                      THEN Count(Front(calls), Delivering(id)) + 1
                                                      ELSE Count(Front(calls), Delivering(id))
    BY <1>1, <1>2, <1>4, <2>1, MovedOne
  <2> HIDE DEF g
  <2>4. \A id : Top \in Delivering(id) <=> g \in Delivering(id)
    BY <1>2, <1>3, <2>2 DEF Delivering
  <2>5. \A id : InFlight(id)' = InFlight(id)
    BY <1>2, <1>4, <2>3, <2>4, InFlightNext DEF InFlight
  <2> QED
    BY <1>2, <1>4, <2>2, <2>3, <2>5, NothingMoved
<1>5. CASE DeliverMatch
  <2>1. Top.n \in 0..NumHandlers /\ Top.n + 1 \in 0..NumHandlers /\ toBroker' = toBroker
    BY <1>5, Bounds DEF DeliverMatch
  <2> QED
    BY <1>4, <1>5, <2>1 DEF DeliverMatch
<1>6. CASE CallbackReturn
  <2>1. Top.n + 1 \in 0..NumHandlers /\ toBroker' = toBroker
    BY <1>3, <1>6, Bounds DEF CallbackReturn, InCall, FrameFits
  <2> QED
    BY <1>4, <1>6, <2>1 DEF CallbackReturn
<1>7. CASE DeliverDone
  <2> DEFINE p == Packet("PUBACK", NoTopic, Top.id)
  <2>1. p \in Packets /\ p.type = "PUBACK" /\ p.id = Top.id
    BY <1>3, CallFields, PacketTyped DEF PacketTypes
  <2>2. Return /\ IF Top.id # 0 /\ up THEN Send(p) ELSE toBroker' = toBroker
    BY <1>7 DEF DeliverDone
  <2> HIDE DEF p
  <2>3. /\ Members(calls') \subseteq Members(calls) /\ Top \in Members(calls)
        /\ \A id : /\ Count(calls, Delivering(id)) = IF Top \in Delivering(id)
                                                     THEN Count(calls', Delivering(id)) + 1
                                                     ELSE Count(calls', Delivering(id))
                   /\ Count(calls', Delivering(id)) \in Nat
    BY <1>1, <1>2, <2>2, ReturnedOne
  <2>4. Top.id <= messages
    BY <1>2, <2>3 DEF AccountsKept, MessageIds
  <2>5. CASE Top.id # 0 /\ up
    <3>1. /\ Members(toBroker') = Members(toBroker) \cup { p }
          /\ \A id : /\ Count(toBroker', Acking(id)) = IF p \in Acking(id)
                                                       THEN Count(toBroker, Acking(id)) + 1
                                                       ELSE Count(toBroker, Acking(id))
                     /\ Count(toBroker, Acking(id)) \in Nat
      BY <1>1, <2>1, <2>2, <2>5, Sent
    <3>2. \A id : p \in Acking(id) <=> Top \in Delivering(id)
      BY <1>2, <1>3, <2>1 DEF Acking, Delivering
    <3>3. \A id : Count(toClient, Carrying(id)) \in Nat
      BY <1>1, CountFacts DEF QueuesTyped
    <3>4. \A id : InFlight(id)' = InFlight(id)
      BY <1>2, <2>3, <3>1, <3>2, <3>3, InFlightNext DEF InFlight
    <3>5. MessageIds'
      BY <1>2, <2>1, <2>3, <2>4, <3>1 DEF AccountsKept, MessageIds
    <3>6. Accounted'
      BY <1>2, <3>4 DEF AccountsKept, Accounted, Due
    <3> QED
      BY <3>5, <3>6 DEF AccountsKept
  <2>6. CASE ~(Top.id # 0 /\ up)
    <3>1. toBroker' = toBroker
      BY <2>2, <2>6
    <3>2. ASSUME NEW id \in awaiting
          PROVE  InFlight(id)' = InFlight(id)
      <4>1. id # Top.id
        BY <1>1, <2>6, Bounds DEF AccountsKept, MessageIds, DeadIsEmpty
      <4>2. Top \notin Delivering(id)
        BY <4>1 DEF Delivering
      <4> QED
        BY <1>2, <2>3, <3>1, <4>2, InFlightNext DEF InFlight
    <3> QED
      BY <1>2, <2>3, <3>1, <3>2, NothingMoved
  <2> QED
    BY <2>5, <2>6
<1> QED
  BY <1>5, <1>6, <1>7

LEMMA LateAccounted ==
    ASSUME Typed, AccountsKept, DeliverDoneLate
    PROVE  AccountsKept'
<1>1. QueuesTyped /\ CallsTyped
  BY TypedParts
<1> DEFINE f == Top
<1>2. /\ up /\ calls # << >> /\ f.op = "deliver" /\ f.id # 0 /\ Return
      /\ unacked' = unacked \cup { f.id }
      /\ UNCHANGED << up, toBroker, toClient, awaiting, messages >>
  BY DEF DeliverDoneLate, InCall, broker, bounds
<1>3. f \in CallFrames
  BY <1>1, <1>2, TopFacts
<1>4. /\ Members(calls') \subseteq Members(calls) /\ f \in Members(calls)
      /\ \A id : /\ Count(calls, Delivering(id)) = IF f \in Delivering(id)
                                                   THEN Count(calls', Delivering(id)) + 1
                                                   ELSE Count(calls', Delivering(id))
                 /\ Count(calls', Delivering(id)) \in Nat
  BY <1>1, <1>2, ReturnedOne
<1> HIDE DEF f
<1>5. \A id : Count(toClient, Carrying(id)) \in Nat /\ Count(toBroker, Acking(id)) \in Nat
  BY <1>1, CountFacts DEF QueuesTyped
<1>6. \A id : id # f.id => InFlight(id)' = InFlight(id)
  <2>1. \A id : id # f.id => f \notin Delivering(id)
    BY DEF Delivering
  <2> QED
    BY <1>2, <1>4, <2>1, InFlightNext DEF InFlight
<1>7. f.id \in 1..messages
  <2>1. f.id \in Nat
    BY <1>3, CallFields, Bounds DEF Ids
  <2>2. f.id <= messages
    BY <1>2, <1>4 DEF AccountsKept, MessageIds
  <2>3. messages \in Nat
    BY TypedParts, Bounds DEF BoundsTyped
  <2> QED
    BY <1>2, <2>1, <2>2, <2>3
<1>8. PICK gone \in 1..messages : gone = f.id
  BY <1>7
<1>9. f \in Delivering(gone)
  BY <1>2, <1>3, <1>8 DEF Delivering
<1>10. InFlight(gone) = InFlight(gone)' + 1 /\ InFlight(gone)' \in Nat
  BY <1>2, <1>4, <1>5, <1>9, InFlightNext DEF InFlight
<1>11. /\ unacked' = unacked \cup { gone }
       /\ \A id \in awaiting : id # gone => InFlight(id)' = InFlight(id)
  BY <1>2, <1>6, <1>8
<1> QED
  BY <1>2, <1>4, <1>10, <1>11, MessageGivenUp

LEMMA ReconnectAccounted ==
    ASSUME Typed, AccountsKept, Reconnect \/ ResubscribeSend
    PROVE  AccountsKept'
<1>1. QueuesTyped /\ CallsTyped /\ DeadIsEmpty
  BY TypedParts
<1>2. UNCHANGED << toClient, awaiting, unacked, messages >>
  BY DEF Reconnect, ResubscribeSend, broker, marks, bounds
<1>3. CASE Reconnect
  <2> DEFINE f == Call("resubscribe", NoTopic, 0, 0, FreeIndex, "send")
  <2>1. f \in CallFrames /\ f.op = "resubscribe"
    BY ResubscribeFrame
  <2>2. Enter(f) /\ ~up /\ toBroker' = toBroker
    BY <1>3 DEF Reconnect
  <2> HIDE DEF f
  <2>3. Members(calls') = Members(calls) \cup { f }
    BY <1>1, <2>1, <2>2, EnteredOne
  <2>4. awaiting' = {}
    BY <1>1, <1>2, <2>2 DEF DeadIsEmpty
  <2>5. MessageIds'
    BY <1>2, <2>1, <2>2, <2>3 DEF AccountsKept, MessageIds
  <2>6. Accounted'
    BY <2>4 DEF Accounted
  <2> QED
    BY <2>5, <2>6 DEF AccountsKept
<1>4. CASE ResubscribeSend
  <2>1. /\ calls # << >> /\ Top.op = "resubscribe" /\ InCall("resubscribe", "send")
        /\ up' = up
    BY <1>4 DEF ResubscribeSend, InCall
  <2>2. \A id : Top \notin Delivering(id)
    BY <2>1 DEF Delivering
  <2>3. CASE Return /\ toBroker' = toBroker
    <3>1. /\ Members(calls') \subseteq Members(calls)
          /\ \A id : Count(calls', Delivering(id)) = Count(calls, Delivering(id))
      BY <1>1, <2>1, <2>2, <2>3, ReturnedOne
    <3>2. \A id : InFlight(id)' = InFlight(id)
      BY <1>2, <2>3, <3>1, InFlightNext DEF InFlight
    <3> QED
      BY <1>2, <2>1, <2>3, <3>1, <3>2, NothingMoved
  <2>4. CASE /\ Top.n < Top.count
             /\ Send(Packet("SUBSCRIBE", handlers[Top.n], NextPacketId))
             /\ Goto(Top.n, "wait")
    <3> DEFINE p == Packet("SUBSCRIBE", handlers[Top.n], NextPacketId)
               g == At(Top, Top.n, "wait")
    <3>1. /\ p \in Packets /\ p.type = "SUBSCRIBE" /\ g.op = "resubscribe"
          /\ Top.n \in 0..NumHandlers /\ "wait" \in Pcs
      BY <2>1, <2>4, ResendFacts
    <3>2. Send(p)
      BY <2>4
    <3>3. /\ Members(calls') \subseteq Members(calls) \cup { g }
          /\ \A id : /\ Count(calls, Delivering(id)) = IF Top \in Delivering(id)
                                                       THEN Count(Front(calls), Delivering(id)) + 1
                                                       ELSE Count(Front(calls), Delivering(id))
                     /\ Count(calls', Delivering(id)) = IF g \in Delivering(id)
                                                        THEN Count(Front(calls), Delivering(id)) + 1
                                                        ELSE Count(Front(calls), Delivering(id))
      BY <1>1, <2>1, <2>4, <3>1, MovedOne
    <3> HIDE DEF p, g
    <3>4. \A id : g \notin Delivering(id) /\ p \notin Acking(id)
      BY <3>1 DEF Delivering, Acking
    <3>5. Members(toBroker') = Members(toBroker) \cup { p }
          /\ \A id : Count(toBroker', Acking(id)) = Count(toBroker, Acking(id))
      BY <1>1, <3>1, <3>2, <3>4, Sent
    <3>6. \A id : InFlight(id)' = InFlight(id)
      BY <1>2, <2>2, <3>3, <3>4, <3>5, InFlightNext DEF InFlight
    <3> QED
      BY <1>2, <2>1, <3>1, <3>3, <3>5, <3>6, NothingMoved
  <2> QED
    BY <1>4, <2>3, <2>4 DEF ResubscribeSend
<1> QED
  BY <1>3, <1>4

\* What the broker answers with is no message.
LEMMA ReceiveAccounted ==
    ASSUME Typed, QueuesTyped, toBroker # << >>, toBroker' = Tail(toBroker),
           toClient' = toClient \o Reply(Head(toBroker))
    PROVE  /\ Members(toBroker') \subseteq Members(toBroker)
           /\ \A q \in Members(toClient') : q \in Members(toClient) \/ q.type # "PUBLISH"
           /\ \A id : Count(toClient', Carrying(id)) = Count(toClient, Carrying(id))
           /\ \A id : /\ Count(toBroker, Acking(id)) = IF Head(toBroker) \in Acking(id)
                                                       THEN Count(toBroker', Acking(id)) + 1
                                                       ELSE Count(toBroker', Acking(id))
                      /\ Count(toBroker', Acking(id)) \in Nat
<1>1. /\ Members(toBroker') \subseteq Members(toBroker)
      /\ \A id : /\ Count(toBroker, Acking(id)) = IF Head(toBroker) \in Acking(id)
                                                  THEN Count(toBroker', Acking(id)) + 1
                                                  ELSE Count(toBroker', Acking(id))
                 /\ Count(toBroker', Acking(id)) \in Nat
  BY ReceivedOne
<1>2. CASE toClient' = toClient
  BY <1>1, <1>2
<1>3. ASSUME NEW q \in Packets, toClient' = Append(toClient, q), q.type \in Acks
      PROVE  /\ \A r \in Members(toClient') : r \in Members(toClient) \/ r.type # "PUBLISH"
             /\ \A id : Count(toClient', Carrying(id)) = Count(toClient, Carrying(id))
  <2>1. q.type # "PUBLISH" /\ \A id : q \notin Carrying(id)
    BY <1>3 DEF Acks, Carrying
  <2> QED
    BY <1>3, <2>1, Delivered
<1> QED
  BY <1>1, <1>2, <1>3, ReceiveFacts

LEMMA NetworkAccounted ==
    ASSUME Typed, AccountsKept, Network
    PROVE  AccountsKept'
<1>1. QueuesTyped /\ CallsTyped /\ BoundsTyped
  BY TypedParts
<1>2. calls' = calls
  BY DEF Network, BrokerReceive, BrokerRefuse, BrokerPublish, ConnectionLost
<1>3. CASE BrokerReceive
  <2> DEFINE p == Head(toBroker)
  <2>1. /\ toBroker # << >> /\ toBroker' = Tail(toBroker)
        /\ toClient' = toClient \o Reply(p) /\ up' = up /\ messages' = messages
        /\ awaiting' = IF p.type = "PUBACK" THEN awaiting \ { p.id } ELSE awaiting
        /\ unacked' = unacked
    BY <1>3 DEF BrokerReceive, marks, bounds
  <2>2. /\ Members(toBroker') \subseteq Members(toBroker)
        /\ \A q \in Members(toClient') : q \in Members(toClient) \/ q.type # "PUBLISH"
        /\ \A id : Count(toClient', Carrying(id)) = Count(toClient, Carrying(id))
        /\ \A id : /\ Count(toBroker, Acking(id)) = IF p \in Acking(id)
                                                    THEN Count(toBroker', Acking(id)) + 1
                                                    ELSE Count(toBroker', Acking(id))
                   /\ Count(toBroker', Acking(id)) \in Nat
    BY <1>1, <2>1, ReceiveAccounted
  <2> HIDE DEF p
  <2>3. ASSUME NEW id \in awaiting'
        PROVE  InFlight(id)' = InFlight(id)
    <3>1. p \notin Acking(id)
      BY <2>1 DEF Acking
    <3> QED
      BY <1>2, <2>2, <3>1, InFlightNext DEF InFlight
  <2> QED
    BY <1>2, <2>1, <2>2, <2>3, NothingMoved
<1>4. CASE BrokerRefuse
  <2>1. /\ toBroker # << >> /\ toBroker' = Tail(toBroker) /\ Head(toBroker).type = "SUBSCRIBE"
        /\ toClient' = toClient \o Reply(Head(toBroker)) /\ up' = up /\ messages' = messages
        /\ awaiting' = awaiting /\ unacked' = unacked
    BY <1>4 DEF BrokerRefuse, broker, marks
  <2>2. /\ Members(toBroker') \subseteq Members(toBroker)
        /\ \A q \in Members(toClient') : q \in Members(toClient) \/ q.type # "PUBLISH"
        /\ \A id : Count(toClient', Carrying(id)) = Count(toClient, Carrying(id))
        /\ \A id : Count(toBroker, Acking(id)) = IF Head(toBroker) \in Acking(id)
                                                 THEN Count(toBroker', Acking(id)) + 1
                                                 ELSE Count(toBroker', Acking(id))
    BY <1>1, <2>1, ReceiveAccounted
  <2>3. \A id : Head(toBroker) \notin Acking(id)
    BY <2>1 DEF Acking
  <2>4. \A id : InFlight(id)' = InFlight(id)
    BY <1>2, <2>2, <2>3, InFlightNext DEF InFlight
  <2> QED
    BY <1>2, <2>1, <2>2, <2>4, NothingMoved
<1>5. ASSUME NEW topic \in Topics, BrokerPublish(topic)
      PROVE  AccountsKept'
  <2>1. /\ up /\ messages < MaxMessages /\ messages' = messages + 1 /\ toBroker' = toBroker
        /\ up' = up /\ unacked' = unacked
    BY <1>5 DEF BrokerPublish, marks
  <2>2. messages \in Nat /\ messages + 1 \in Ids /\ 0 \in Ids
    BY <1>1, <2>1, Bounds DEF BoundsTyped, Ids
  <2>3. PICK id \in { 0, messages + 1 } :
              /\ toClient' = Append(toClient, Packet("PUBLISH", topic, id))
              /\ awaiting' = IF id = 0 THEN awaiting ELSE awaiting \cup { id }
    BY <1>5, <2>2 DEF BrokerPublish
  <2> DEFINE q == Packet("PUBLISH", topic, id)
  <2>4. q \in Packets /\ q.type = "PUBLISH" /\ q.id = id
    BY <2>2, PacketTyped DEF PacketTypes
  <2>5. toClient' = Append(toClient, q)
    BY <2>3
  <2> HIDE DEF q
  <2>6. /\ Members(toClient') = Members(toClient) \cup { q }
        /\ \A j : /\ Count(toClient', Carrying(j)) = IF q \in Carrying(j)
                                                     THEN Count(toClient, Carrying(j)) + 1
                                                     ELSE Count(toClient, Carrying(j))
                  /\ Count(toClient, Carrying(j)) \in Nat
    BY <1>1, <2>4, <2>5, Delivered
  <2>7. MessageIds'
    <3>1. awaiting' \subseteq 1..messages' /\ unacked' \subseteq 1..messages'
      BY <2>1, <2>2, <2>3 DEF AccountsKept, MessageIds
    <3>2. \A p \in Members(toClient') : p.type = "PUBLISH" => p.id <= messages'
      <4>1. Members(toClient) \subseteq Packets
        BY <1>1, MembersTyped DEF QueuesTyped
      <4>2. \A p \in Packets : p.id \in Nat
        BY PacketFields, Bounds DEF Ids
      <4> QED
        BY <2>1, <2>2, <2>4, <2>6, <4>1, <4>2 DEF AccountsKept, MessageIds
    <3>3. \A f \in Members(calls) : f.op = "deliver" => f.id <= messages'
      <4>1. Members(calls) \subseteq CallFrames
        BY <1>1, MembersTyped DEF CallsTyped
      <4>2. \A f \in CallFrames : f.id \in Nat
        BY CallFields, Bounds DEF Ids
      <4> QED
        BY <2>1, <2>2, <4>1, <4>2 DEF AccountsKept, MessageIds
    <3>4. \A p \in Members(toBroker) : p.type = "PUBACK" => p.id <= messages'
      <4>1. Members(toBroker) \subseteq Packets
        BY <1>1, MembersTyped DEF QueuesTyped
      <4>2. \A p \in Packets : p.id \in Nat
        BY PacketFields, Bounds DEF Ids
      <4> QED
        BY <2>1, <2>2, <4>1, <4>2 DEF AccountsKept, MessageIds
    <3> QED
      BY <1>2, <2>1, <3>1, <3>2, <3>3, <3>4 DEF MessageIds
  <2>8. ASSUME NEW j \in awaiting'
        PROVE  InFlight(j)' = Due(j)'
    <3>1. CASE j \in awaiting
      <4>1. q \notin Carrying(j)
        BY <2>2, <2>3, <2>4, <3>1 DEF AccountsKept, MessageIds, Carrying
      <4>2. InFlight(j)' = InFlight(j)
        BY <1>2, <2>1, <2>6, <4>1, InFlightNext DEF InFlight
      <4> QED
        BY <2>1, <3>1, <4>2 DEF AccountsKept, Accounted, Due
    <3>2. CASE j \notin awaiting
      <4>1. j = id /\ id = messages + 1
        BY <2>3, <3>2
      <4>2. q \in Carrying(j)
        BY <2>4, <4>1 DEF Carrying
      <4>3. Count(toClient, Carrying(j)) = 0
        <5>1. \A p \in Members(toClient) : p \notin Carrying(j)
          BY <2>2, <4>1 DEF AccountsKept, MessageIds, Carrying
        <5> QED
          BY <1>1, <5>1, MembersTyped DEF QueuesTyped
      <4>4. Count(calls, Delivering(j)) = 0
        <5>1. \A f \in Members(calls) : f \notin Delivering(j)
          BY <2>2, <4>1 DEF AccountsKept, MessageIds, Delivering
        <5> QED
          BY <1>1, <5>1, MembersTyped DEF CallsTyped
      <4>5. Count(toBroker, Acking(j)) = 0
        <5>1. \A p \in Members(toBroker) : p \notin Acking(j)
          BY <2>2, <4>1 DEF AccountsKept, MessageIds, Acking
        <5> QED
          BY <1>1, <5>1, MembersTyped DEF QueuesTyped
      <4>6. InFlight(j)' = 1
        BY <1>2, <2>1, <2>6, <4>2, <4>3, <4>4, <4>5, InFlightNext
      <4>7. j \notin unacked
        BY <2>2, <4>1 DEF AccountsKept, MessageIds
      <4> QED
        BY <2>1, <4>6, <4>7 DEF Due
    <3> QED
      BY <3>1, <3>2
  <2> QED
    BY <2>7, <2>8 DEF AccountsKept, Accounted
<1>6. CASE ConnectionLost
  <2>1. /\ ~up' /\ toBroker' = << >> /\ toClient' = << >> /\ awaiting' = {}
        /\ messages' = messages /\ unacked' = {}
    BY <1>6 DEF ConnectionLost
  <2>2. MessageIds'
    BY <1>2, <2>1, MembersEmpty DEF AccountsKept, MessageIds
  <2> QED
    BY <2>1, <2>2 DEF AccountsKept, Accounted
<1> QED
  BY <1>3, <1>4, <1>5, <1>6 DEF Network

LEMMA AlwaysAccounted == Spec => []AccountsKept
<1>1. Init => AccountsKept
  <2> SUFFICES ASSUME Init PROVE AccountsKept
    OBVIOUS
  <2>1. /\ awaiting = {} /\ unacked = {} /\ toClient = << >> /\ toBroker = << >>
        /\ calls = << >>
    BY DEF Init
  <2> QED
    BY <2>1, MembersEmpty DEF AccountsKept, Accounted, MessageIds
<1>2. Typed /\ AccountsKept /\ [Next]_vars => AccountsKept'
  <2> SUFFICES ASSUME Typed, AccountsKept, [Next]_vars PROVE AccountsKept'
    OBVIOUS
  <2>1. CASE Client
    BY <2>1, RequestsAccounted, ReadsAccounted, TooLongAccounted, TimeoutAccounted,
       DeliveryAccounted, LateAccounted, ReconnectAccounted DEF Client
  <2>2. CASE Network
    BY <2>2, NetworkAccounted
  <2>3. CASE UNCHANGED vars
    <3>1. UNCHANGED << up, toBroker, toClient, awaiting, unacked, calls, messages >>
      BY <2>3 DEF vars, broker, marks, bounds
    <3>2. \A id : InFlight(id)' = InFlight(id)
      BY <3>1, InFlightNext DEF InFlight
    <3> QED
      BY <3>1, <3>2, NothingMoved
  <2> QED
    BY <2>1, <2>2, <2>3 DEF Next
<1> QED
  BY <1>1, <1>2, AlwaysTyped, PTL DEF Spec

\* For any numbers of messages, requests, nested calls, timeouts and lost
\* connections: as long as the broker waits for the acknowledgement of a QoS 1
\* message, the message is on its way, or being delivered, or its PUBACK is on
\* its way, and only one of the three; or it was too long for the read buffer or
\* its handlers outlasted the timer, and then it is in none of them.
THEOREM MessagesAccounted == Spec => []MessageAccounted
<1>1. Typed /\ AccountsKept => MessageAccounted
  BY AccountedMeans DEF AccountsKept
<1> QED
  BY <1>1, AlwaysTyped, AlwaysAccounted, PTL

\* The flags among the marks.
Flags == expired \in BOOLEAN /\ unsubscribed \in BOOLEAN

LEMMA FlagsNext ==
    ASSUME Typed, Flags, [Next]_vars
    PROVE  Flags'
<1>1. CASE PublishQos0 \/ Publish
  BY <1>1 DEF PublishQos0, Publish, StartRequest, marks, Flags
<1>2. CASE \E topic \in Topics : Subscribe(topic) \/ Unsubscribe(topic)
  BY <1>2 DEF Subscribe, Unsubscribe, StartRequest, marks, Flags
<1>3. CASE \/ ReadMessage \/ ReadStray \/ PublishAnswered \/ SubscribeAnswered
           \/ UnsubscribeAnswered \/ ResubscribeAnswered
  BY <1>3 DEF ReadMessage, ReadStray, PublishAnswered, SubscribeAnswered,
     UnsubscribeAnswered, ResubscribeAnswered, ReadAnswer, ReadPacket, marks, Flags
<1>4. CASE ReadTooLong \/ CommandTimeout \/ DeliverDoneLate
  <2>1. unsubscribed' = unsubscribed /\ expired' \in { expired, FALSE, Len(calls) > 1 }
    BY <1>4 DEF ReadTooLong, CommandTimeout, DeliverDoneLate
  <2>2. (Len(calls) > 1) \in BOOLEAN
    OBVIOUS
  <2> QED
    BY <2>1, <2>2 DEF Flags
<1>5. CASE DeliverMatch \/ CallbackReturn \/ DeliverDone \/ Reconnect \/ ResubscribeSend
  BY <1>5 DEF DeliverMatch, CallbackReturn, DeliverDone, Reconnect, ResubscribeSend, marks,
     Flags
<1>6. CASE Network
  BY <1>6 DEF Network, BrokerReceive, BrokerRefuse, BrokerPublish, ConnectionLost, marks, Flags
<1>7. CASE UNCHANGED vars
  BY <1>7 DEF vars, marks, Flags
<1> QED
  BY <1>1, <1>2, <1>3, <1>4, <1>5, <1>6, <1>7 DEF Next, Client

\* Packets, calls, handler table and counters keep their types for any numbers
\* of topics, handlers, requests and nested calls: identifiers stay within
\* their range and no handler is written beyond the table.
THEOREM ExchangeTypes == Spec => []TypeOK
<1>1. Init => Flags
  BY DEF Init, Flags
<1>2. Typed /\ AccountsKept /\ Flags => TypeOK
  <2> SUFFICES ASSUME Typed, AccountsKept, Flags PROVE TypeOK
    OBVIOUS
  <2>1. unacked \subseteq 1..MaxMessages
    BY Bounds DEF AccountsKept, MessageIds, Typed, CoreTypes
  <2> QED
    BY <2>1 DEF Typed, CoreTypes, Flags, TypeOK
<1> QED
  BY <1>1, <1>2, FlagsNext, AlwaysTyped, AlwaysAccounted, PTL DEF Spec

-----------------------------------------------------------------------------
(* A confirmed subscription keeps its handler *)

\* How a step that does not start a subscribe changes the calls in progress.
CallsGoOn ==
    \/ calls' = calls
    \/ \E f \in CallFrames :
          /\ Enter(f) /\ f.op # "subscribe"
          /\ f.op = "publish" => Publish
          /\ f.op = "unsubscribe" => \E topic \in Topics : Unsubscribe(topic)
          /\ f.op = "resubscribe" => Reconnect
    \/ calls # << >> /\ Return
    \/ /\ calls # << >> /\ Top.op \in { "deliver", "resubscribe" }
       /\ Top.op = "resubscribe" => ResubscribeSend \/ ResubscribeAnswered
       /\ \E n \in 0..NumHandlers, pc \in Pcs : Goto(n, pc)

SubscribeStarts(topic) ==
    LET f == Call("subscribe", topic, NextPacketId, FreeIndex, 0, "wait")
    IN  /\ up /\ FreeIndex \in Slots /\ f \in CallFrames /\ f.op = "subscribe"
        /\ f.n = FreeIndex /\ f.topic = topic /\ Enter(f)
        /\ MayCall("subscribe") /\ handlers' = handlers /\ confirmed' = confirmed

LEMMA SubscribeShape ==
    ASSUME Typed, NEW topic \in Topics, Subscribe(topic)
    PROVE  \/ SubscribeStarts(topic)
           \/ calls' = calls /\ handlers' = handlers /\ confirmed' = confirmed
<1>1. ClientTyped
  BY TypedParts
<1>2. CASE FreeIndex \in Slots
  <2> DEFINE f == Call("subscribe", topic, NextPacketId, FreeIndex, 0, "wait")
  <2>1. f \in CallFrames /\ f.op = "subscribe" /\ f.n = FreeIndex /\ f.topic = topic
    BY <1>1, <1>2, SubscribeFrame
  <2>2. /\ MayCall("subscribe") /\ handlers' = handlers /\ confirmed' = confirmed
        /\ (up /\ Enter(f)) \/ (~up /\ calls' = calls)
    BY <1>2 DEF Subscribe, StartRequest
  <2> HIDE DEF f
  <2> QED
    BY <1>2, <2>1, <2>2 DEF SubscribeStarts, f
<1>3. CASE FreeIndex \notin Slots
  BY <1>3 DEF Subscribe
<1> QED
  BY <1>2, <1>3

LEMMA StartShape ==
    ASSUME NEW p, NEW f \in CallFrames, f.op \in { "publish", "unsubscribe" },
           f.op = "publish" => Publish,
           f.op = "unsubscribe" => \E topic \in Topics : Unsubscribe(topic), StartRequest(p, f)
    PROVE  CallsGoOn /\ handlers' = handlers /\ confirmed' = confirmed
<1>1. CASE up
  BY <1>1 DEF StartRequest, CallsGoOn
<1>2. CASE ~up
  BY <1>2 DEF StartRequest, CallsGoOn
<1> QED
  BY <1>1, <1>2

LEMMA ClientShape ==
    ASSUME Typed, Client, ~SubscribeAnswered, ~UnsubscribeAnswered
    PROVE  /\ handlers' = handlers /\ confirmed' = confirmed
           /\ CallsGoOn \/ \E topic \in Topics : SubscribeStarts(topic)
<1>1. CallsTyped /\ ClientTyped
  BY TypedParts
<1>2. CASE PublishQos0
  BY <1>2 DEF PublishQos0, CallsGoOn
<1>3. CASE Publish
  BY <1>1, <1>3, PublishFrame, StartShape DEF Publish
<1>4. CASE \E topic \in Topics : Subscribe(topic)
  BY <1>4, SubscribeShape DEF CallsGoOn, SubscribeStarts
<1>5. CASE \E topic \in Topics : Unsubscribe(topic)
  BY <1>1, <1>5, UnsubscribeFrame, StartShape DEF Unsubscribe
<1>6. CASE ReadMessage
  <2>1. Head(toClient) \in Packets
    BY <1>6, ReadFacts DEF ReadMessage
  <2> QED
    BY <1>6, <2>1, DeliverFrame DEF ReadMessage, CallsGoOn
<1>7. CASE ReadStray \/ ReadTooLong
  BY <1>7 DEF ReadStray, ReadTooLong, CallsGoOn
<1>8. CASE PublishAnswered
  BY <1>8 DEF PublishAnswered, ReadAnswer, Waiting, CallsGoOn
<1>9. CASE CommandTimeout
  BY <1>9 DEF CommandTimeout, Waiting, CallsGoOn
<1>10. ASSUME calls # << >>, Top.op \in { "deliver", "resubscribe" }, NEW n \in 0..NumHandlers,
              NEW pc \in { "match", "callback", "wait", "send" }, Goto(n, pc),
              Top.op = "resubscribe" => ResubscribeSend \/ ResubscribeAnswered
       PROVE  CallsGoOn
  <2>1. pc \in Pcs
    BY DEF Pcs
  <2> QED
    BY <1>10, <2>1 DEF CallsGoOn
<1>11. CASE DeliverMatch
  <2>1. /\ calls # << >> /\ Top.op = "deliver" /\ handlers' = handlers /\ confirmed' = confirmed
        /\ Top.n \in 0..NumHandlers /\ Top.n + 1 \in 0..NumHandlers
    BY <1>11, Bounds DEF DeliverMatch, InCall
  <2> QED
    BY <1>10, <1>11, <2>1 DEF DeliverMatch
<1>12. CASE CallbackReturn
  <2>1. /\ calls # << >> /\ Top.op = "deliver" /\ Top.pc = "callback"
        /\ handlers' = handlers /\ confirmed' = confirmed
    BY <1>12 DEF CallbackReturn, InCall
  <2>2. Top.n + 1 \in 0..NumHandlers
    BY <1>1, <2>1, TopFacts, Bounds DEF FrameFits
  <2> QED
    BY <1>10, <1>12, <2>1, <2>2 DEF CallbackReturn
<1>13. CASE DeliverDone \/ DeliverDoneLate
  BY <1>13 DEF DeliverDone, DeliverDoneLate, InCall, CallsGoOn
<1>14. CASE Reconnect
  <2> DEFINE f == Call("resubscribe", NoTopic, 0, 0, FreeIndex, "send")
  <2>1. f \in CallFrames /\ f.op = "resubscribe"
    BY ResubscribeFrame
  <2>2. Enter(f) /\ handlers' = handlers /\ confirmed' = confirmed
    BY <1>14 DEF Reconnect
  <2> HIDE DEF f
  <2> QED
    BY <1>14, <2>1, <2>2 DEF CallsGoOn
<1>15. CASE ResubscribeSend
  <2>1. /\ calls # << >> /\ Top.op = "resubscribe" /\ InCall("resubscribe", "send")
        /\ handlers' = handlers /\ confirmed' = confirmed
    BY <1>15 DEF ResubscribeSend, InCall
  <2>2. CASE Return
    BY <2>1, <2>2 DEF CallsGoOn
  <2>3. CASE Top.n < Top.count /\ Goto(Top.n, "wait")
    <3>1. Top.n \in 0..NumHandlers
      BY <2>1, <2>3, ResendFacts
    <3> QED
      BY <1>10, <1>15, <2>1, <2>3, <3>1
  <2> QED
    BY <1>15, <2>1, <2>2, <2>3 DEF ResubscribeSend
<1>16. CASE ResubscribeAnswered
  <2>1. /\ calls # << >> /\ Top.op = "resubscribe" /\ Top.pc = "wait"
        /\ Goto(Top.n + 1, "send") /\ handlers' = handlers /\ confirmed' = confirmed
    BY <1>16 DEF ResubscribeAnswered, ReadAnswer, Waiting
  <2>2. Top \in CallFrames /\ FrameFits(Top)
    BY <1>1, <2>1, TopFacts
  <2>3. Top.n + 1 \in 0..NumHandlers
    BY <2>1, <2>2, CallFields, Bounds DEF FrameFits
  <2> QED
    BY <1>10, <1>16, <2>1, <2>3
<1> QED
  BY <1>2, <1>3, <1>4, <1>5, <1>6, <1>7, <1>8, <1>9, <1>11, <1>12, <1>13, <1>14, <1>15,
     <1>16
     DEF Client

LEMMA ReservedStays ==
    ASSUME Typed, Reserved, CallsGoOn,
           \A i \in Slots : handlers[i] = NoTopic => handlers'[i] = NoTopic
    PROVE  Reserved'
<1>1. CallsTyped /\ calls \in Seq(CallFrames)
  BY TypedParts DEF CallsTyped
<1>2. \A n \in 1..Len(calls) : calls[n].op = "subscribe" => calls[n].n \in Slots
  BY <1>1 DEF CallsTyped, CallsFit, FrameFits
<1>3. CASE calls' = calls
  BY <1>2, <1>3 DEF Reserved
<1>4. ASSUME NEW f \in CallFrames, Enter(f), f.op # "subscribe"
      PROVE  Reserved'
  <2>1. /\ calls'[Len(calls) + 1] = f
        /\ \A n \in 1..Len(calls) : calls'[n] = calls[n]
        /\ \A n \in 1..Len(calls') : n \in 1..Len(calls) \/ n = Len(calls) + 1
    BY <1>1, <1>4, Entered
  <2> QED
    BY <1>2, <1>4, <2>1 DEF Reserved
<1>5. CASE calls # << >> /\ Return
  <2>1. \A n \in 1..Len(calls') : calls'[n] = calls[n] /\ n \in 1..Len(calls)
    BY <1>1, <1>5, Returned
  <2> QED
    BY <1>2, <2>1 DEF Reserved
<1>6. ASSUME calls # << >>, Top.op \in { "deliver", "resubscribe" },
             NEW n \in 0..NumHandlers, NEW pc \in Pcs, Goto(n, pc)
      PROVE  Reserved'
  <2> DEFINE g == At(Top, n, pc)
  <2>1. /\ g.op = Top.op /\ Len(calls') = Len(calls) /\ calls'[Len(calls)] = g
        /\ \A m \in 1..Len(calls) : m # Len(calls) => calls'[m] = calls[m]
    BY <1>1, <1>6, Moved
  <2> HIDE DEF g
  <2> QED
    BY <1>2, <1>6, <2>1 DEF Reserved
<1> QED
  BY <1>3, <1>4, <1>5, <1>6 DEF CallsGoOn

LEMMA ReservedAtStart ==
    ASSUME Typed, Reserved, HandlersDoNotSubscribe, NEW topic \in Topics, SubscribeStarts(topic)
    PROVE  Reserved' /\ calls = << >>
<1> DEFINE f == Call("subscribe", topic, NextPacketId, FreeIndex, 0, "wait")
<1>1. /\ f \in CallFrames /\ f.n = FreeIndex /\ FreeIndex \in Slots /\ Enter(f)
      /\ MayCall("subscribe") /\ handlers' = handlers
  BY DEF SubscribeStarts
<1>2. calls = << >> /\ calls \in Seq(CallFrames)
  BY <1>1, TypedParts DEF MayCall, HandlersDoNotSubscribe, CallsTyped
<1> HIDE DEF f
<1>3. Len(calls') = 1 /\ calls'[1] = f
  BY <1>1, <1>2, Entered
<1>4. handlers[FreeIndex] = NoTopic
  BY <1>1, FreeIndexFacts
<1> QED
  BY <1>1, <1>2, <1>3, <1>4 DEF Reserved

\* The outermost call of a stack whose innermost one subscribes is that one.
LEMMA SubscribeAlone ==
    ASSUME Typed, Reserved, SubscribeAnswered
    PROVE  /\ Len(calls) = 1 /\ calls # << >> /\ Top = calls[1] /\ Top.op = "subscribe"
           /\ Top.n \in Slots /\ Top.topic \in Topics /\ handlers[Top.n] = NoTopic
           /\ Len(calls') = 0 /\ calls' = << >>
           /\ handlers' = [handlers EXCEPT ![Top.n] = Top.topic]
           /\ confirmed' = confirmed \cup { Top.topic }
           /\ handlers' \in [Slots -> Topics \cup { NoTopic }]
           /\ Handled' = Handled \cup { Top.topic }
<1>1. CallsTyped /\ calls \in Seq(CallFrames) /\ ClientTyped
  BY TypedParts DEF CallsTyped
<1>2. /\ calls # << >> /\ Top.op = "subscribe" /\ Return
      /\ handlers' = [handlers EXCEPT ![Top.n] = Top.topic]
      /\ confirmed' = confirmed \cup { Top.topic }
  BY DEF SubscribeAnswered, ReadAnswer, Waiting
<1>3. /\ Len(calls) \in 1..Len(calls) /\ Top = calls[Len(calls)] /\ FrameFits(Top)
  BY <1>1, <1>2, TopFacts
<1>4. Len(calls) = 1 /\ handlers[Top.n] = NoTopic
  BY <1>2, <1>3 DEF Reserved
<1>5. Top.n \in Slots /\ Top.topic \in Topics
  BY <1>2, <1>3 DEF FrameFits
<1>6. Len(calls') = 0 /\ calls' = << >>
  <2>1. calls' \in Seq(CallFrames) /\ Len(calls') = Len(calls) - 1
    BY <1>1, <1>2, Returned
  <2> QED
    BY <1>4, <2>1
<1>7. Top.topic # NoTopic /\ handlers \in [Slots -> Topics \cup { NoTopic }]
  BY <1>1, <1>5, ExchangeAssumption DEF ClientTyped
<1> DEFINE t == Top.topic
           m == Top.n
<1> HIDE DEF t, m
<1>8. /\ handlers' = [handlers EXCEPT ![m] = t] /\ handlers[m] = NoTopic /\ m \in Slots
      /\ t # NoTopic /\ t \in Topics
  BY <1>2, <1>4, <1>5, <1>7 DEF t, m
<1>9. /\ handlers' \in [Slots -> Topics \cup { NoTopic }]
      /\ \A i \in Slots : handlers'[i] = IF i = m THEN t ELSE handlers[i]
  BY <1>7, <1>8
<1>10. Handled' = Handled \cup { t }
  BY <1>8, <1>9 DEF Handled
<1> QED
  BY <1>2, <1>3, <1>4, <1>5, <1>6, <1>9, <1>10 DEF t

LEMMA UnsubscribeEffect ==
    ASSUME Typed, UnsubscribeAnswered
    PROVE  /\ calls # << >> /\ Top.op = "unsubscribe" /\ Return
           /\ \A i \in Slots : handlers'[i] = IF handlers[i] = Top.topic THEN NoTopic
                                              ELSE handlers[i]
           /\ Handled' = Handled \ { Top.topic } /\ confirmed' = confirmed \ { Top.topic }
<1>1. /\ calls # << >> /\ Top.op = "unsubscribe" /\ Return
      /\ handlers' = [i \in Slots |-> IF handlers[i] = Top.topic THEN NoTopic ELSE handlers[i]]
      /\ confirmed' = confirmed \ { Top.topic }
  BY DEF UnsubscribeAnswered, ReadAnswer, Waiting
<1> DEFINE t == Top.topic
<1> HIDE DEF t
<1>2. \A i \in Slots : handlers'[i] = IF handlers[i] = t THEN NoTopic ELSE handlers[i]
  BY <1>1 DEF t
<1>3. Handled' = Handled \ { t }
  BY <1>2 DEF Handled
<1> QED
  BY <1>1, <1>2, <1>3 DEF t

LEMMA ReservedNext ==
    ASSUME Typed, Reserved, HandlersDoNotSubscribe, Next
    PROVE  Reserved'
<1>1. CASE Client
  <2>1. CASE SubscribeAnswered
    BY <2>1, SubscribeAlone DEF Reserved
  <2>2. CASE UnsubscribeAnswered
    <3>1. /\ CallsGoOn
          /\ \A i \in Slots : handlers[i] = NoTopic => handlers'[i] = NoTopic
      BY <2>2, UnsubscribeEffect DEF CallsGoOn
    <3> QED
      BY <3>1, ReservedStays
  <2>3. CASE ~SubscribeAnswered /\ ~UnsubscribeAnswered
    BY <1>1, <2>3, ClientShape, ReservedStays, ReservedAtStart
  <2> QED
    BY <2>1, <2>2, <2>3
<1>2. CASE Network
  <2>1. calls' = calls /\ handlers' = handlers
    BY <1>2 DEF Network, BrokerReceive, BrokerRefuse, BrokerPublish, ConnectionLost
  <2> QED
    BY <2>1, ReservedStays DEF CallsGoOn
<1> QED
  BY <1>1, <1>2 DEF Next

\* If message handlers do not subscribe, a topic whose subscribe has returned
\* SUCCESS keeps a handler until it is unsubscribed: whatever else handlers call
\* while a subscribe waits, the slot it has chosen stays free for it.
THEOREM SubscriptionsKept ==
    ASSUME HandlersDoNotSubscribe
    PROVE  Spec => []SubscriptionKept
<1>1. Init => KeptInv
  BY DEF Init, KeptInv, Reserved, SubscriptionKept
<1>2. Typed /\ KeptInv /\ [Next]_vars => KeptInv'
  <2> SUFFICES ASSUME Typed, KeptInv, [Next]_vars PROVE KeptInv'
    OBVIOUS
  <2>1. CASE Next
    <3>1. Reserved'
      BY <2>1, ReservedNext DEF KeptInv
    <3>2. SubscriptionKept'
      <4>1. CASE SubscribeAnswered
        BY <4>1, SubscribeAlone DEF KeptInv, SubscriptionKept
      <4>2. CASE UnsubscribeAnswered
        BY <4>2, UnsubscribeEffect DEF KeptInv, SubscriptionKept
      <4>3. CASE Client /\ ~SubscribeAnswered /\ ~UnsubscribeAnswered
        BY <4>3, ClientShape DEF KeptInv, SubscriptionKept, Handled
      <4>4. CASE Network
        <5>1. confirmed' = confirmed /\ handlers' = handlers
          BY <4>4 DEF Network, BrokerReceive, BrokerRefuse, BrokerPublish,
             ConnectionLost
        <5> QED
          BY <5>1 DEF KeptInv, SubscriptionKept, Handled
      <4> QED
        BY <2>1, <4>1, <4>2, <4>3, <4>4 DEF Next
    <3> QED
      BY <3>1, <3>2 DEF KeptInv
  <2>2. CASE UNCHANGED vars
    <3>1. calls' = calls /\ handlers' = handlers /\ confirmed' = confirmed
      BY <2>2 DEF vars
    <3>2. Reserved'
      BY <3>1, ReservedStays DEF KeptInv, CallsGoOn
    <3> QED
      BY <3>1, <3>2 DEF KeptInv, SubscriptionKept, Handled
  <2> QED
    BY <2>1, <2>2
<1>3. KeptInv => SubscriptionKept
  BY DEF KeptInv
<1> QED
  BY <1>1, <1>2, <1>3, AlwaysTyped, PTL DEF Spec


-----------------------------------------------------------------------------
(* Requests, answers and the calls that wait for them *)

\* A call asks for an acknowledgement and waits.
Asks(p, ack) ==
    /\ Send(p) /\ toClient' = toClient
    /\ \A a \in Acks : p \in Asking(a) <=> a = ack
    /\ \A a \in Acks : Waiters(a)' = IF a = ack THEN Waiters(a) + 1 ELSE Waiters(a)
    /\ ack = "SUBACK" /\ HandlersDoNotSubscribe => Waiters("UNSUBACK") = 0

\* A call reads the acknowledgement it waits for.
TakesAnswer(ack) ==
    /\ toClient # << >> /\ toClient' = Tail(toClient) /\ toBroker' = toBroker
    /\ Head(toClient).type = ack
    /\ \A a \in Acks : Waiters(a) = IF a = ack THEN Waiters(a)' + 1 ELSE Waiters(a)'

SameWaiters == \A ack \in Acks : Waiters(ack)' = Waiters(ack)

SkipsPacket ==
    toClient # << >> /\ toClient' = Tail(toClient) /\ toBroker' = toBroker /\ SameWaiters

SendsOther ==
    /\ toClient' = toClient /\ SameWaiters
    /\ \/ toBroker' = toBroker
       \/ \E p \in Packets : Send(p) /\ \A ack \in Acks : p \notin Asking(ack)

BrokerAnswers ==
    /\ toBroker # << >> /\ toBroker' = Tail(toBroker)
    /\ toClient' = toClient \o Reply(Head(toBroker)) /\ SameWaiters
    /\ acked' = IF Head(toBroker) \in Asking("PUBACK") THEN acked \cup { Head(toBroker).id }
                ELSE acked

BrokerTells ==
    /\ toBroker' = toBroker /\ SameWaiters
    /\ \E q \in Packets : toClient' = Append(toClient, q) /\ q.type = "PUBLISH"

\* What a step may do that ends on a live connection without a timeout so far.
FlowStep ==
    \/ ~up /\ toBroker' = << >> /\ toClient' = << >>
    \/ /\ up /\ timeouts = 0
       /\ \/ \E p \in Packets, ack \in Acks : Asks(p, ack)
          \/ \E ack \in Acks : TakesAnswer(ack)
          \/ SkipsPacket \/ SendsOther \/ BrokerAnswers \/ BrokerTells

LEMMA CountsNext ==
    ASSUME NEW ack
    PROVE  /\ Asked(ack)' = Count(toBroker', Asking(ack))
           /\ Answered(ack)' = Count(toClient', Answering(ack))
           /\ Waiters(ack)' = Count(calls', WaitingFor(ack))
BY DEF Asked, Answered, Waiters, Asking, Answering, WaitingFor

LEMMA CountsTyped ==
    ASSUME Typed, NEW ack
    PROVE  Asked(ack) \in Nat /\ Answered(ack) \in Nat /\ Waiters(ack) \in Nat
<1>1. QueuesTyped /\ CallsTyped
  BY TypedParts
<1> QED
  BY <1>1, CountFacts DEF QueuesTyped, CallsTyped, Asked, Answered, Waiters

LEMMA WaitersSame ==
    ASSUME calls' = calls
    PROVE  SameWaiters
BY CountsNext DEF SameWaiters, Waiters

LEMMA WaitersEnter ==
    ASSUME Typed, NEW f \in CallFrames, Enter(f), NEW ack
    PROVE  Waiters(ack)' = IF f \in WaitingFor(ack) THEN Waiters(ack) + 1 ELSE Waiters(ack)
<1>1. CallsTyped
  BY TypedParts
<1> QED
  BY <1>1, EnteredOne, CountsNext DEF Waiters

LEMMA WaitersReturn ==
    ASSUME Typed, calls # << >>, Return, NEW ack
    PROVE  Waiters(ack) = IF Top \in WaitingFor(ack) THEN Waiters(ack)' + 1 ELSE Waiters(ack)'
<1>1. CallsTyped
  BY TypedParts
<1> QED
  BY <1>1, ReturnedOne, CountsNext DEF Waiters

LEMMA WaitersMove ==
    ASSUME Typed, calls # << >>, NEW n \in 0..NumHandlers, NEW pc \in Pcs, Goto(n, pc), NEW ack
    PROVE  LET g == At(Top, n, pc)
               rest == Count(Front(calls), WaitingFor(ack))
           IN  /\ rest \in Nat
               /\ Waiters(ack) = IF Top \in WaitingFor(ack) THEN rest + 1 ELSE rest
               /\ Waiters(ack)' = IF g \in WaitingFor(ack) THEN rest + 1 ELSE rest
<1>1. CallsTyped
  BY TypedParts
<1> QED
  BY <1>1, MovedOne, CountsNext DEF Waiters

\* Whose answer a call waits for.
LEMMA WaitsFor ==
    ASSUME NEW f \in CallFrames, f.pc = "wait",
           f.op \in { "publish", "subscribe", "unsubscribe", "resubscribe" }
    PROVE  AckOf(f.op) \in Acks /\ \A a \in Acks : f \in WaitingFor(a) <=> a = AckOf(f.op)
BY DEF WaitingFor, AckOf, Acks

LEMMA WaitsNot ==
    ASSUME NEW f \in CallFrames, f.pc # "wait"
    PROVE  \A a \in Acks : f \notin WaitingFor(a)
BY DEF WaitingFor

LEMMA RequestsFlow ==
    ASSUME Typed, up', timeouts' = 0,
           PublishQos0 \/ Publish
           \/ \E topic \in Topics : Subscribe(topic) \/ Unsubscribe(topic)
    PROVE  FlowStep
<1>1. QueuesTyped /\ CallsTyped /\ ClientTyped
  BY TypedParts
<1>2. up /\ timeouts = 0 /\ toClient' = toClient
  BY DEF PublishQos0, Publish, Subscribe, Unsubscribe, StartRequest
<1>3. ASSUME NEW op \in { "publish", "subscribe", "unsubscribe" }, MayCall(op),
             NEW p \in Packets, NEW f \in CallFrames, f.op = op, f.pc = "wait",
             \A a \in Acks : p \in Asking(a) <=> a = AckOf(op),
             StartRequest(p, f)
      PROVE  FlowStep
  <2>1. Send(p) /\ Enter(f)
    BY <1>2, <1>3 DEF StartRequest
  <2>2. /\ AckOf(op) \in Acks
        /\ \A a \in Acks : Waiters(a)' = IF a = AckOf(op) THEN Waiters(a) + 1 ELSE Waiters(a)
    BY <1>3, <2>1, WaitsFor, WaitersEnter
  <2>3. AckOf(op) = "SUBACK" /\ HandlersDoNotSubscribe => Waiters("UNSUBACK") = 0
    <3> SUFFICES ASSUME AckOf(op) = "SUBACK", HandlersDoNotSubscribe
                 PROVE  Waiters("UNSUBACK") = 0
      OBVIOUS
    <3>1. op = "subscribe"
      BY <1>3 DEF AckOf
    <3>2. calls = << >>
      BY <1>3, <3>1 DEF MayCall, HandlersDoNotSubscribe
    <3> QED
      BY <3>2, CountEmpty DEF Waiters
  <2>4. Asks(p, AckOf(op))
    BY <1>2, <1>3, <2>1, <2>2, <2>3 DEF Asks
  <2> QED
    BY <1>2, <2>2, <2>4 DEF FlowStep
<1>4. CASE PublishQos0
  <2> DEFINE p == Packet("PUBLISH", NoTopic, 0)
  <2>1. p \in Packets /\ p.type = "PUBLISH" /\ p.id = 0
    BY PacketTyped, Bounds DEF PacketTypes
  <2>2. Send(p) /\ calls' = calls
    BY <1>4 DEF PublishQos0
  <2> HIDE DEF p
  <2>3. \A ack \in Acks : p \notin Asking(ack)
    BY <2>1 DEF Asking, Acks
  <2> QED
    BY <1>2, <2>1, <2>2, <2>3, WaitersSame DEF FlowStep, SendsOther
<1>5. CASE Publish
  <2> DEFINE p == Packet("PUBLISH", NoTopic, NextPacketId)
             f == Call("publish", NoTopic, NextPacketId, 0, 0, "wait")
  <2>1. /\ p \in Packets /\ p.type = "PUBLISH" /\ p.id = NextPacketId
        /\ f \in CallFrames /\ f.op = "publish" /\ f.pc = "wait"
    BY <1>1, PublishFrame
  <2>2. MayCall("publish") /\ StartRequest(p, f)
    BY <1>5 DEF Publish
  <2> HIDE DEF p, f
  <2>3. p.id # 0
    BY <1>1, <2>1, NextIdTyped, Bounds
  <2>4. \A a \in Acks : p \in Asking(a) <=> a = AckOf("publish")
    BY <2>1, <2>3 DEF Asking, AckOf, Acks
  <2> QED
    BY <1>3, <2>1, <2>2, <2>4
<1>6. ASSUME NEW topic \in Topics, Subscribe(topic)
      PROVE  FlowStep
  <2>1. CASE FreeIndex \in Slots
    <3> DEFINE p == Packet("SUBSCRIBE", topic, NextPacketId)
               f == Call("subscribe", topic, NextPacketId, FreeIndex, 0, "wait")
    <3>1. /\ p \in Packets /\ p.type = "SUBSCRIBE"
          /\ f \in CallFrames /\ f.op = "subscribe" /\ f.pc = "wait"
      BY <1>1, <2>1, SubscribeFrame
    <3>2. MayCall("subscribe") /\ StartRequest(p, f)
      BY <1>6, <2>1 DEF Subscribe
    <3> HIDE DEF p, f
    <3>3. \A a \in Acks : p \in Asking(a) <=> a = AckOf("subscribe")
      BY <3>1 DEF Asking, AckOf, Acks
    <3> QED
      BY <1>3, <3>1, <3>2, <3>3
  <2>2. CASE FreeIndex \notin Slots
    BY <1>2, <1>6, <2>2, WaitersSame DEF Subscribe, FlowStep, SendsOther
  <2> QED
    BY <2>1, <2>2
<1>7. ASSUME NEW topic \in Topics, Unsubscribe(topic)
      PROVE  FlowStep
  <2> DEFINE p == Packet("UNSUBSCRIBE", topic, NextPacketId)
             f == Call("unsubscribe", topic, NextPacketId, 0, 0, "wait")
  <2>1. /\ p \in Packets /\ p.type = "UNSUBSCRIBE"
        /\ f \in CallFrames /\ f.op = "unsubscribe" /\ f.pc = "wait"
    BY <1>1, UnsubscribeFrame
  <2>2. MayCall("unsubscribe") /\ StartRequest(p, f)
    BY <1>7 DEF Unsubscribe
  <2> HIDE DEF p, f
  <2>3. \A a \in Acks : p \in Asking(a) <=> a = AckOf("unsubscribe")
    BY <2>1 DEF Asking, AckOf, Acks
  <2> QED
    BY <1>3, <2>1, <2>2, <2>3
<1> QED
  BY <1>4, <1>5, <1>6, <1>7

LEMMA ReadsFlow ==
    ASSUME Typed, up', timeouts' = 0,
           \/ ReadMessage \/ ReadStray \/ PublishAnswered \/ SubscribeAnswered
           \/ UnsubscribeAnswered \/ ResubscribeAnswered
    PROVE  FlowStep
<1>1. CallsTyped
  BY TypedParts
<1>2. ReadPacket /\ toBroker' = toBroker
  BY DEF ReadMessage, ReadStray, PublishAnswered, SubscribeAnswered,
     UnsubscribeAnswered,
     ResubscribeAnswered, ReadAnswer
<1>3. /\ up /\ timeouts = 0 /\ toClient # << >> /\ toClient' = Tail(toClient)
      /\ Head(toClient) \in Packets
  BY <1>2, ReadFacts
<1>4. CASE ReadMessage
  <2> DEFINE f == Call("deliver", Head(toClient).topic, Head(toClient).id, 0, 0, "match")
  <2>1. f \in CallFrames /\ f.pc = "match"
    BY <1>3, DeliverFrame
  <2>2. Enter(f)
    BY <1>4 DEF ReadMessage
  <2> HIDE DEF f
  <2>3. SameWaiters
    BY <2>1, <2>2, WaitersEnter, WaitsNot DEF SameWaiters
  <2> QED
    BY <1>2, <1>3, <2>3 DEF FlowStep, SkipsPacket
<1>5. CASE ReadStray
  BY <1>2, <1>3, <1>5, WaitersSame DEF ReadStray, FlowStep, SkipsPacket
<1>6. ASSUME NEW op \in { "publish", "subscribe", "unsubscribe" }, ReadAnswer(op), Return
      PROVE  FlowStep
  <2>1. /\ calls # << >> /\ Top.op = op /\ Top.pc = "wait"
        /\ Head(toClient).type = AckOf(op) /\ AckOf(op) \in Acks
    BY <1>6, AnswerFacts
  <2>2. Top \in CallFrames
    BY <1>1, <2>1, TopFacts
  <2>3. \A a \in Acks : Waiters(a) = IF a = AckOf(op) THEN Waiters(a)' + 1 ELSE Waiters(a)'
    BY <1>6, <2>1, <2>2, WaitsFor, WaitersReturn
  <2> QED
    BY <1>2, <1>3, <2>1, <2>3 DEF FlowStep, TakesAnswer
<1>7. CASE PublishAnswered \/ SubscribeAnswered \/ UnsubscribeAnswered
  BY <1>6, <1>7 DEF PublishAnswered, SubscribeAnswered, UnsubscribeAnswered
<1>8. CASE ResubscribeAnswered
  <2>1. /\ calls # << >> /\ Top.op = "resubscribe" /\ Top.pc = "wait"
        /\ Goto(Top.n + 1, "send") /\ Head(toClient).type = AckOf("resubscribe")
        /\ AckOf("resubscribe") \in Acks
    BY <1>8, AnswerFacts DEF ResubscribeAnswered
  <2>2. Top \in CallFrames /\ FrameFits(Top)
    BY <1>1, <2>1, TopFacts
  <2> DEFINE m == Top.n + 1
             g == At(Top, m, "send")
  <2>3. m \in 0..NumHandlers /\ "send" \in Pcs /\ Goto(m, "send")
    BY <2>1, <2>2, CallFields, Bounds DEF FrameFits, Pcs
  <2> HIDE DEF m
  <2>4. g \in CallFrames /\ g.pc = "send"
    BY <2>2, <2>3, ChangedCall
  <2>5. \A a : /\ Count(Front(calls), WaitingFor(a)) \in Nat
               /\ Waiters(a) = IF Top \in WaitingFor(a) THEN Count(Front(calls), WaitingFor(a)) + 1
                               ELSE Count(Front(calls), WaitingFor(a))
               /\ Waiters(a)' = IF g \in WaitingFor(a) THEN Count(Front(calls), WaitingFor(a)) + 1
                                ELSE Count(Front(calls), WaitingFor(a))
    BY <2>1, <2>3, WaitersMove
  <2> HIDE DEF g
  <2>6. \A a \in Acks : /\ g \notin WaitingFor(a)
                        /\ Top \in WaitingFor(a) <=> a = AckOf("resubscribe")
    BY <2>1, <2>2, <2>4, WaitsFor, WaitsNot
  <2>7. TakesAnswer(AckOf("resubscribe"))
    BY <1>2, <1>3, <2>1, <2>5, <2>6 DEF TakesAnswer
  <2> QED
    BY <1>3, <2>1, <2>7 DEF FlowStep
<1> QED
  BY <1>4, <1>5, <1>7, <1>8

LEMMA TooLongFlow ==
    ASSUME Typed, up', timeouts' = 0, ReadTooLong
    PROVE  FlowStep
BY WaitersSame DEF ReadTooLong, FlowStep, SkipsPacket, bounds

LEMMA DeliveryFlow ==
    ASSUME Typed, up', timeouts' = 0,
           DeliverMatch \/ CallbackReturn \/ DeliverDone \/ DeliverDoneLate
    PROVE  FlowStep
<1>1. CallsTyped
  BY TypedParts
<1>2. /\ calls # << >> /\ Top.op = "deliver" /\ Top.pc \in { "match", "callback" }
      /\ up /\ timeouts = 0 /\ toClient' = toClient
  BY DEF DeliverMatch, CallbackReturn, DeliverDone, DeliverDoneLate, InCall, bounds
<1>3. Top \in CallFrames /\ FrameFits(Top)
  BY <1>1, <1>2, TopFacts
<1>4. \A a \in Acks : Top \notin WaitingFor(a)
  BY <1>2, <1>3, WaitsNot
<1>5. ASSUME NEW n \in 0..NumHandlers, NEW pc \in { "match", "callback" }, Goto(n, pc),
             toBroker' = toBroker
      PROVE  FlowStep
  <2> DEFINE g == At(Top, n, pc)
  <2>1. pc \in Pcs
    BY DEF Pcs
  <2>2. g \in CallFrames /\ g.pc = pc
    BY <1>3, <2>1, ChangedCall
  <2>3. \A a : /\ Waiters(a) = IF Top \in WaitingFor(a) THEN Count(Front(calls), WaitingFor(a)) + 1
                               ELSE Count(Front(calls), WaitingFor(a))
               /\ Waiters(a)' = IF g \in WaitingFor(a) THEN Count(Front(calls), WaitingFor(a)) + 1
                                ELSE Count(Front(calls), WaitingFor(a))
    BY <1>2, <1>5, <2>1, WaitersMove
  <2> HIDE DEF g
  <2>4. \A a \in Acks : g \notin WaitingFor(a)
    BY <2>2, WaitsNot
  <2> QED
    BY <1>2, <1>4, <1>5, <2>3, <2>4 DEF FlowStep, SendsOther, SameWaiters
<1>6. CASE DeliverMatch
  <2>1. Top.n \in 0..NumHandlers /\ Top.n + 1 \in 0..NumHandlers /\ toBroker' = toBroker
    BY <1>6, Bounds DEF DeliverMatch
  <2> QED
    BY <1>5, <1>6, <2>1 DEF DeliverMatch
<1>7. CASE CallbackReturn
  <2>1. Top.n + 1 \in 0..NumHandlers /\ toBroker' = toBroker
    BY <1>3, <1>7, Bounds DEF CallbackReturn, InCall, FrameFits
  <2> QED
    BY <1>5, <1>7, <2>1 DEF CallbackReturn
<1>8. CASE DeliverDone
  <2> DEFINE p == Packet("PUBACK", NoTopic, Top.id)
  <2>1. p \in Packets /\ p.type = "PUBACK"
    BY <1>3, CallFields, PacketTyped DEF PacketTypes
  <2>2. Return /\ (Send(p) \/ toBroker' = toBroker)
    BY <1>8 DEF DeliverDone
  <2> HIDE DEF p
  <2>3. SameWaiters
    BY <1>2, <1>4, <2>2, WaitersReturn DEF SameWaiters
  <2>4. \A ack \in Acks : p \notin Asking(ack)
    BY <2>1 DEF Asking
  <2> QED
    BY <1>2, <2>1, <2>2, <2>3, <2>4 DEF FlowStep, SendsOther
<1>9. CASE DeliverDoneLate
  <2>1. Return /\ toBroker' = toBroker
    BY <1>9 DEF DeliverDoneLate
  <2>2. SameWaiters
    BY <1>2, <1>4, <2>1, WaitersReturn DEF SameWaiters
  <2> QED
    BY <1>2, <2>1, <2>2 DEF FlowStep, SendsOther
<1> QED
  BY <1>6, <1>7, <1>8, <1>9

LEMMA ResubscribeFlow ==
    ASSUME Typed, up', timeouts' = 0, Reconnect \/ ResubscribeSend
    PROVE  FlowStep
<1>1. CallsTyped /\ DeadIsEmpty
  BY TypedParts
<1>2. CASE Reconnect
  BY <1>1, <1>2 DEF Reconnect, DeadIsEmpty, FlowStep
<1>3. CASE ResubscribeSend
  <2>1. /\ calls # << >> /\ Top.op = "resubscribe" /\ Top.pc = "send"
        /\ InCall("resubscribe", "send") /\ up /\ timeouts = 0 /\ toClient' = toClient
    BY <1>3 DEF ResubscribeSend, InCall, bounds
  <2>2. /\ Top \in CallFrames /\ Top = calls[Len(calls)] /\ Len(calls) \in 1..Len(calls)
        /\ calls \in Seq(CallFrames)
    BY <1>1, <2>1, TopFacts DEF CallsTyped
  <2>3. \A a \in Acks : Top \notin WaitingFor(a)
    BY <2>1, <2>2, WaitsNot
  <2>4. CASE Return /\ toBroker' = toBroker
    BY <2>1, <2>3, <2>4, WaitersReturn DEF FlowStep, SendsOther, SameWaiters
  <2>5. CASE /\ Top.n < Top.count
             /\ Send(Packet("SUBSCRIBE", handlers[Top.n], NextPacketId))
             /\ Goto(Top.n, "wait")
    <3> DEFINE p == Packet("SUBSCRIBE", handlers[Top.n], NextPacketId)
               g == At(Top, Top.n, "wait")
    <3>1. /\ p \in Packets /\ p.type = "SUBSCRIBE"
          /\ g \in CallFrames /\ g.op = "resubscribe" /\ g.pc = "wait"
          /\ Top.n \in 0..NumHandlers /\ "wait" \in Pcs
      BY <2>1, <2>5, ResendFacts
    <3>2. Send(p)
      BY <2>5
    <3>3. \A a : /\ Count(Front(calls), WaitingFor(a)) \in Nat
                 /\ Waiters(a) = IF Top \in WaitingFor(a)
                                 THEN Count(Front(calls), WaitingFor(a)) + 1
                                 ELSE Count(Front(calls), WaitingFor(a))
                 /\ Waiters(a)' = IF g \in WaitingFor(a)
                                  THEN Count(Front(calls), WaitingFor(a)) + 1
                                  ELSE Count(Front(calls), WaitingFor(a))
      BY <2>1, <2>5, <3>1, WaitersMove
    <3> HIDE DEF p, g
    <3>4. /\ AckOf("resubscribe") = "SUBACK" /\ "SUBACK" \in Acks
          /\ \A a \in Acks : g \in WaitingFor(a) <=> a = AckOf("resubscribe")
      BY <3>1, WaitsFor DEF AckOf, Acks
    <3>5. \A a \in Acks : p \in Asking(a) <=> a = "SUBACK"
      BY <3>1 DEF Asking, Acks
    <3>6. Waiters("UNSUBACK") = 0
      <4>1. Len(calls) = 1
        BY <1>1, <2>1, <2>2 DEF CallsTyped, CallsFit
      <4>2. \A i \in 1..Len(calls) : calls[i] \notin WaitingFor("UNSUBACK")
        BY <2>2, <2>3, <4>1 DEF Acks
      <4> QED
        BY <2>2, <4>2, CountFacts DEF Waiters
    <3>7. Asks(p, "SUBACK")
      BY <2>1, <2>3, <3>2, <3>3, <3>4, <3>5, <3>6 DEF Asks
    <3> QED
      BY <2>1, <3>1, <3>4, <3>7 DEF FlowStep
  <2> QED
    BY <1>3, <2>1, <2>4, <2>5 DEF ResubscribeSend
<1> QED
  BY <1>2, <1>3

LEMMA NextFlow ==
    ASSUME Typed, [Next]_vars, up', timeouts' = 0
    PROVE  FlowStep
<1>1. CASE Client
  <2>1. CASE CommandTimeout
    <3>1. timeouts \in Nat
      BY TypedParts DEF BoundsTyped
    <3> QED
      BY <2>1, <3>1 DEF CommandTimeout
  <2> QED
    BY <1>1, <2>1, RequestsFlow, ReadsFlow, TooLongFlow, DeliveryFlow, ResubscribeFlow
       DEF Client
<1>2. CASE Network
  <2>1. SameWaiters
    BY <1>2, WaitersSame
       DEF Network, BrokerReceive, BrokerRefuse, BrokerPublish, ConnectionLost
  <2>2. CASE BrokerReceive
    <3>1. Head(toBroker) \in Packets /\ toBroker # << >>
      BY <2>2, TypedParts, HeadTailProperties DEF QueuesTyped, BrokerReceive
    <3>2. /\ toBroker' = Tail(toBroker) /\ toClient' = toClient \o Reply(Head(toBroker))
          /\ acked' = IF Head(toBroker).type = "PUBLISH" /\ Head(toBroker).id # 0
                      THEN acked \cup { Head(toBroker).id } ELSE acked
          /\ up /\ timeouts = 0
      BY <2>2 DEF BrokerReceive, bounds
    <3> QED
      BY <2>1, <3>1, <3>2 DEF BrokerAnswers, FlowStep, Asking
  <2>3. CASE BrokerRefuse
    <3>1. Head(toBroker) \notin Asking("PUBACK")
      BY <2>3 DEF BrokerRefuse, Asking
    <3> QED
      BY <2>1, <2>3, <3>1 DEF BrokerRefuse, BrokerAnswers, FlowStep, broker
  <2>4. ASSUME NEW topic \in Topics, BrokerPublish(topic)
        PROVE  FlowStep
    <3>1. /\ up /\ timeouts = 0 /\ toBroker' = toBroker /\ messages < MaxMessages
      BY <2>4 DEF BrokerPublish
    <3>2. messages + 1 \in Ids /\ 0 \in Ids
      BY <3>1, TypedParts, Bounds DEF BoundsTyped, Ids
    <3>3. PICK id \in { 0, messages + 1 } :
                 toClient' = Append(toClient, Packet("PUBLISH", topic, id))
      BY <2>4 DEF BrokerPublish
    <3>4. /\ Packet("PUBLISH", topic, id) \in Packets
          /\ Packet("PUBLISH", topic, id).type = "PUBLISH"
      BY <3>2, <3>3, PacketTyped DEF PacketTypes
    <3> QED
      BY <2>1, <3>1, <3>3, <3>4 DEF FlowStep, BrokerTells
  <2>5. CASE ConnectionLost
    BY <2>5 DEF ConnectionLost
  <2> QED
    BY <1>2, <2>2, <2>3, <2>4, <2>5 DEF Network
<1>3. CASE UNCHANGED vars
  <2>1. UNCHANGED << up, toBroker, toClient, calls, timeouts >>
    BY <1>3 DEF vars, bounds
  <2> QED
    BY <2>1, WaitersSame DEF FlowStep, SendsOther
<1> QED
  BY <1>1, <1>2, <1>3 DEF Next

\* How the counts change with each kind of step.
LEMMA AsksCounts ==
    ASSUME Typed, NEW p \in Packets, NEW ack \in Acks, Asks(p, ack), NEW a \in Acks
    PROVE  /\ Asked(a)' = IF a = ack THEN Asked(a) + 1 ELSE Asked(a)
           /\ Answered(a)' = Answered(a)
<1>1. QueuesTyped
  BY TypedParts
<1>2. Count(toBroker', Asking(a)) = IF p \in Asking(a) THEN Asked(a) + 1 ELSE Asked(a)
  BY <1>1, Sent DEF Asks, Asked
<1> QED
  BY <1>2, CountsNext DEF Asks, Answered

LEMMA ReadsCounts ==
    ASSUME Typed, toClient # << >>, toClient' = Tail(toClient), toBroker' = toBroker,
           NEW a \in Acks
    PROVE  /\ Asked(a)' = Asked(a) /\ Answered(a)' \in Nat
           /\ Answered(a) = IF Head(toClient).type = a THEN Answered(a)' + 1 ELSE Answered(a)'
<1>1. QueuesTyped
  BY TypedParts
<1>2. /\ Head(toClient) \in Packets /\ Count(toClient', Answering(a)) \in Nat
      /\ Count(toClient, Answering(a)) = IF Head(toClient) \in Answering(a)
                                         THEN Count(toClient', Answering(a)) + 1
                                         ELSE Count(toClient', Answering(a))
  BY <1>1, ReadOne
<1>3. Head(toClient) \in Answering(a) <=> Head(toClient).type = a
  BY <1>2 DEF Answering
<1> QED
  BY <1>2, <1>3, CountsNext DEF Asked, Answered

LEMMA OthersCounts ==
    ASSUME Typed, SendsOther, NEW a \in Acks
    PROVE  Asked(a)' = Asked(a) /\ Answered(a)' = Answered(a)
<1>1. QueuesTyped
  BY TypedParts
<1>2. CASE toBroker' = toBroker
  BY <1>2, CountsNext DEF SendsOther, Asked, Answered
<1>3. ASSUME NEW p \in Packets, Send(p), p \notin Asking(a)
      PROVE  Asked(a)' = Asked(a) /\ Answered(a)' = Answered(a)
  BY <1>1, <1>3, Sent, CountsNext DEF SendsOther, Asked, Answered
<1> QED
  BY <1>2, <1>3 DEF SendsOther

LEMMA AnswersCounts ==
    ASSUME Typed, BrokerAnswers, NEW a \in Acks
    PROVE  IF Head(toBroker) \in Asking(a)
           THEN Asked(a) = Asked(a)' + 1 /\ Answered(a)' = Answered(a) + 1
           ELSE Asked(a)' = Asked(a) /\ Answered(a)' = Answered(a)
<1>1. QueuesTyped
  BY TypedParts
<1>2. /\ Count(toBroker', Asking(a)) \in Nat
      /\ Count(toBroker, Asking(a)) = IF Head(toBroker) \in Asking(a)
                                      THEN Count(toBroker', Asking(a)) + 1
                                      ELSE Count(toBroker', Asking(a))
  BY <1>1, ReceivedOne DEF BrokerAnswers
<1>3. \/ toClient' = toClient /\ \A ack \in Acks : Head(toBroker) \notin Asking(ack)
      \/ \E q \in Packets :
           /\ toClient' = Append(toClient, q) /\ q.type \in Acks
           /\ \A ack \in Acks : Head(toBroker) \in Asking(ack) <=> q.type = ack
  BY <1>1, ReceiveFacts DEF BrokerAnswers
<1>4. CASE toClient' = toClient /\ \A ack \in Acks : Head(toBroker) \notin Asking(ack)
  BY <1>2, <1>4, CountsNext DEF Asked, Answered
<1>5. ASSUME NEW q \in Packets, toClient' = Append(toClient, q),
             Head(toBroker) \in Asking(a) <=> q.type = a
      PROVE  IF Head(toBroker) \in Asking(a)
             THEN Asked(a) = Asked(a)' + 1 /\ Answered(a)' = Answered(a) + 1
             ELSE Asked(a)' = Asked(a) /\ Answered(a)' = Answered(a)
  <2>1. Count(toClient', Answering(a)) = IF q \in Answering(a) THEN Count(toClient, Answering(a)) + 1
                                         ELSE Count(toClient, Answering(a))
    BY <1>1, <1>5, Delivered
  <2>2. q \in Answering(a) <=> q.type = a
    BY DEF Answering
  <2> QED
    BY <1>2, <1>5, <2>1, <2>2, CountsNext DEF Asked, Answered
<1> QED
  BY <1>3, <1>4, <1>5

LEMMA TellsCounts ==
    ASSUME Typed, BrokerTells, NEW a \in Acks
    PROVE  Asked(a)' = Asked(a) /\ Answered(a)' = Answered(a)
<1>1. QueuesTyped
  BY TypedParts
<1>2. PICK q \in Packets : toClient' = Append(toClient, q) /\ q.type = "PUBLISH"
  BY DEF BrokerTells
<1>3. q \notin Answering(a)
  BY <1>2 DEF Answering, Acks
<1> QED
  BY <1>1, <1>2, <1>3, Delivered, CountsNext DEF BrokerTells, Asked, Answered

\* While no command has timed out, each acknowledgement on its way, or asked
\* for, has a call that waits for it.
LEMMA MatchedNext ==
    ASSUME Typed, Matched, [Next]_vars
    PROVE  Matched'
<1> SUFFICES ASSUME up', timeouts' = 0, NEW ack \in Acks
             PROVE  Asked(ack)' + Answered(ack)' <= Waiters(ack)'
  BY DEF Matched
<1>1. FlowStep
  BY NextFlow
<1>2. Asked(ack) \in Nat /\ Answered(ack) \in Nat /\ Waiters(ack) \in Nat
  BY CountsTyped
<1>3. Asked(ack)' \in Nat /\ Answered(ack)' \in Nat /\ Waiters(ack)' \in Nat
  <2>1. Typed'
    BY NextTyped
  <2>2. toBroker' \in Seq(Packets) /\ toClient' \in Seq(Packets) /\ calls' \in Seq(CallFrames)
    BY <2>1 DEF Typed, CoreTypes
  <2> QED
    BY <2>2, CountFacts, CountsNext
<1>4. CASE ~up /\ toBroker' = << >> /\ toClient' = << >>
  BY <1>3, <1>4, CountEmpty, CountsNext
<1>5. CASE up /\ timeouts = 0
  <2>1. Asked(ack) + Answered(ack) <= Waiters(ack)
    BY <1>5 DEF Matched
  <2>2. ASSUME NEW p \in Packets, NEW a \in Acks, Asks(p, a)
        PROVE  Asked(ack)' + Answered(ack)' <= Waiters(ack)'
    <3>1. /\ Asked(ack)' = IF ack = a THEN Asked(ack) + 1 ELSE Asked(ack)
          /\ Answered(ack)' = Answered(ack)
      BY <2>2, AsksCounts
    <3>2. Waiters(ack)' = IF ack = a THEN Waiters(ack) + 1 ELSE Waiters(ack)
      BY <2>2 DEF Asks
    <3> QED
      BY <1>2, <2>1, <3>1, <3>2
  <2>3. ASSUME NEW a \in Acks, TakesAnswer(a)
        PROVE  Asked(ack)' + Answered(ack)' <= Waiters(ack)'
    <3>1. /\ Asked(ack)' = Asked(ack)
          /\ Answered(ack) = IF a = ack THEN Answered(ack)' + 1 ELSE Answered(ack)'
      BY <2>3, ReadsCounts DEF TakesAnswer
    <3>2. Waiters(ack) = IF ack = a THEN Waiters(ack)' + 1 ELSE Waiters(ack)'
      BY <2>3 DEF TakesAnswer
    <3> QED
      BY <1>2, <1>3, <2>1, <3>1, <3>2
  <2>4. CASE SkipsPacket
    <3>1. Asked(ack)' = Asked(ack) /\ Answered(ack)' <= Answered(ack)
      BY <1>3, <2>4, ReadsCounts DEF SkipsPacket
    <3>2. Waiters(ack)' = Waiters(ack)
      BY <2>4 DEF SkipsPacket, SameWaiters
    <3> QED
      BY <1>2, <1>3, <2>1, <3>1, <3>2
  <2>5. CASE SendsOther \/ BrokerTells
    BY <2>1, <2>5, OthersCounts, TellsCounts DEF SendsOther, BrokerTells, SameWaiters
  <2>6. CASE BrokerAnswers
    <3>1. IF Head(toBroker) \in Asking(ack)
          THEN Asked(ack) = Asked(ack)' + 1 /\ Answered(ack)' = Answered(ack) + 1
          ELSE Asked(ack)' = Asked(ack) /\ Answered(ack)' = Answered(ack)
      BY <2>6, AnswersCounts
    <3>2. Waiters(ack)' = Waiters(ack)
      BY <2>6 DEF BrokerAnswers, SameWaiters
    <3> QED
      BY <1>2, <1>3, <2>1, <3>1, <3>2
  <2> QED
    BY <1>1, <1>5, <2>2, <2>3, <2>4, <2>5, <2>6 DEF FlowStep
<1> QED
  BY <1>1, <1>4, <1>5 DEF FlowStep

LEMMA InitMatched == Init => Matched
<1> SUFFICES ASSUME Init, NEW ack \in Acks
             PROVE  Asked(ack) + Answered(ack) <= Waiters(ack)
  BY DEF Matched
<1> QED
  BY CountEmpty DEF Init, Asked, Answered, Waiters

-----------------------------------------------------------------------------
(* A publish is confirmed by its own acknowledgement *)

LEMMA CallsStep ==
    ASSUME Typed, [Next]_vars
    PROVE  CallsGoOn \/ \E topic \in Topics : SubscribeStarts(topic)
<1>1. CASE SubscribeAnswered
  BY <1>1 DEF SubscribeAnswered, ReadAnswer, Waiting, CallsGoOn
<1>2. CASE UnsubscribeAnswered
  BY <1>2 DEF UnsubscribeAnswered, ReadAnswer, Waiting, CallsGoOn
<1>3. CASE Client /\ ~SubscribeAnswered /\ ~UnsubscribeAnswered
  BY <1>3, ClientShape
<1>4. CASE Network \/ UNCHANGED vars
  <2>1. calls' = calls
    BY <1>4 DEF Network, BrokerReceive, BrokerRefuse, BrokerPublish, ConnectionLost,
       vars
  <2> QED
    BY <2>1 DEF CallsGoOn
<1> QED
  BY <1>1, <1>2, <1>3, <1>4 DEF Next

\* The outermost call stays the same call until it returns.
LEMMA OutermostStays ==
    ASSUME Typed, [Next]_vars, Len(calls) > 0, Len(calls') > 0
    PROVE  /\ calls'[1].op = calls[1].op /\ calls'[1].id = calls[1].id
           /\ calls'[1].topic = calls[1].topic
<1>1. CallsTyped /\ calls \in Seq(CallFrames) /\ calls # << >>
  BY TypedParts DEF CallsTyped
<1>2. Len(calls) \in Nat /\ 1 \in 1..Len(calls) /\ Top = calls[Len(calls)]
  BY <1>1, TopFacts
<1>3. CASE calls' = calls
  BY <1>3
<1>4. ASSUME NEW f \in CallFrames, Enter(f)
      PROVE  calls'[1] = calls[1]
  BY <1>1, <1>2, <1>4, Entered
<1>5. CASE Return
  <2>1. \A n \in 1..Len(calls') : calls'[n] = calls[n]
    BY <1>1, <1>5, Returned
  <2>2. Len(calls') \in Nat
    BY <1>1, <1>2, <1>5, Returned
  <2> QED
    BY <2>1, <2>2
<1>6. ASSUME NEW n \in 0..NumHandlers, NEW pc \in Pcs, Goto(n, pc)
      PROVE  /\ calls'[1].op = calls[1].op /\ calls'[1].id = calls[1].id
             /\ calls'[1].topic = calls[1].topic
  <2> DEFINE g == At(Top, n, pc)
  <2>1. /\ g.op = Top.op /\ g.topic = Top.topic /\ g.id = Top.id /\ calls'[Len(calls)] = g
        /\ \A m \in 1..Len(calls) : m # Len(calls) => calls'[m] = calls[m]
    BY <1>1, <1>6, Moved
  <2> HIDE DEF g
  <2> QED
    BY <1>2, <2>1
<1> QED
  BY <1>3, <1>4, <1>5, <1>6, CallsStep DEF CallsGoOn, SubscribeStarts

LEMMA PublishAlone ==
    ASSUME Typed, HandlersDoNotPublish, Publish, up
    PROVE  LET p == Packet("PUBLISH", NoTopic, NextPacketId)
           IN  /\ calls = << >> /\ Len(calls') = 1 /\ up' = up /\ timeouts' = timeouts
               /\ calls'[1].op = "publish" /\ calls'[1].id = NextPacketId
               /\ p \in Packets /\ p.id = NextPacketId /\ Send(p) /\ toClient' = toClient
<1> DEFINE p == Packet("PUBLISH", NoTopic, NextPacketId)
           f == Call("publish", NoTopic, NextPacketId, 0, 0, "wait")
<1>1. /\ p \in Packets /\ p.id = NextPacketId
      /\ f \in CallFrames /\ f.op = "publish" /\ f.id = NextPacketId
  BY TypedParts, PublishFrame
<1>2. /\ MayCall("publish") /\ Send(p) /\ Enter(f) /\ up' = up /\ timeouts' = timeouts
      /\ toClient' = toClient
  BY DEF Publish, StartRequest
<1> HIDE DEF p, f
<1>3. calls = << >> /\ calls \in Seq(CallFrames)
  BY <1>2, TypedParts DEF MayCall, HandlersDoNotPublish, CallsTyped
<1>4. Len(calls') = 1 /\ calls'[1] = f
  BY <1>1, <1>2, <1>3, Entered
<1> QED
  BY <1>1, <1>2, <1>3, <1>4 DEF p

LEMMA PublishOutermostNext ==
    ASSUME Typed, PublishOutermost, HandlersDoNotPublish, [Next]_vars
    PROVE  PublishOutermost'
<1>1. CallsTyped /\ calls \in Seq(CallFrames)
  BY TypedParts DEF CallsTyped
<1>2. CASE calls' = calls
  BY <1>2 DEF PublishOutermost
<1>3. ASSUME NEW f \in CallFrames, Enter(f), f.op = "publish" => Publish
      PROVE  PublishOutermost'
  <2>1. /\ calls'[Len(calls) + 1] = f
        /\ \A n \in 1..Len(calls) : calls'[n] = calls[n]
        /\ \A n \in 1..Len(calls') : n \in 1..Len(calls) \/ n = Len(calls) + 1
    BY <1>1, <1>3, Entered
  <2>2. f.op = "publish" => calls = << >>
    BY <1>3 DEF Publish, MayCall, HandlersDoNotPublish
  <2> QED
    BY <2>1, <2>2 DEF PublishOutermost
<1>4. CASE calls # << >> /\ Return
  <2>1. \A n \in 1..Len(calls') : calls'[n] = calls[n] /\ n \in 1..Len(calls)
    BY <1>1, <1>4, Returned
  <2> QED
    BY <2>1 DEF PublishOutermost
<1>5. ASSUME calls # << >>, Top.op \in { "deliver", "resubscribe" },
             NEW n \in 0..NumHandlers, NEW pc \in Pcs, Goto(n, pc)
      PROVE  PublishOutermost'
  <2> DEFINE g == At(Top, n, pc)
  <2>1. /\ g.op = Top.op /\ Len(calls') = Len(calls) /\ calls'[Len(calls)] = g
        /\ \A m \in 1..Len(calls) : m # Len(calls) => calls'[m] = calls[m]
    BY <1>1, <1>5, Moved
  <2> HIDE DEF g
  <2> QED
    BY <1>5, <2>1 DEF PublishOutermost
<1>6. ASSUME NEW topic \in Topics, SubscribeStarts(topic)
      PROVE  PublishOutermost'
  <2> DEFINE f == Call("subscribe", topic, NextPacketId, FreeIndex, 0, "wait")
  <2>1. f \in CallFrames /\ Enter(f) /\ f.op = "subscribe"
    BY <1>6 DEF SubscribeStarts
  <2> HIDE DEF f
  <2> QED
    BY <1>3, <2>1
<1> QED
  BY <1>2, <1>3, <1>4, <1>5, <1>6, CallsStep DEF CallsGoOn

\* If only the outermost call can be in P, at most one is.
LEMMA OneAtMost ==
    ASSUME NEW S, NEW c \in Seq(S), NEW P, \A n \in 1..Len(c) : c[n] \in P => n = 1
    PROVE  Count(c, P) = IF Len(c) > 0 /\ c[1] \in P THEN 1 ELSE 0
<1>1. CASE Len(c) > 0 /\ c[1] \in P
  <2>1. Places(c, P) = { 1 }
    BY <1>1 DEF Places
  <2> QED
    BY <1>1, <2>1, FS_Singleton DEF Count
<1>2. CASE ~(Len(c) > 0 /\ c[1] \in P)
  <2>1. Places(c, P) = {}
    BY <1>2 DEF Places
  <2> QED
    BY <1>2, <2>1, FS_EmptySet DEF Count
<1> QED
  BY <1>1, <1>2

\* One call waits for PUBACK, the outermost one, or none does.
LEMMA PublishWaiter ==
    ASSUME NEW c \in Seq(CallFrames),
           \A n \in 1..Len(c) : c[n].op = "publish" => n = 1 /\ c[n].pc = "wait"
    PROVE  Count(c, WaitingFor("PUBACK")) = IF Len(c) > 0 /\ c[1].op = "publish" THEN 1 ELSE 0
<1>1. \A n \in 1..Len(c) : c[n] \in WaitingFor("PUBACK") <=> c[n].op = "publish"
  BY DEF WaitingFor
<1>2. Len(c) > 0 => 1 \in 1..Len(c)
  OBVIOUS
<1> QED
  BY <1>1, <1>2, OneAtMost

LEMMA AckedGrows ==
    ASSUME [Next]_vars, ~Publish
    PROVE  acked \subseteq acked'
<1>1. ASSUME NEW topic \in Topics, Subscribe(topic) \/ Unsubscribe(topic)
      PROVE  acked' = acked
  BY <1>1 DEF Subscribe, Unsubscribe, StartRequest, Packet, broker
<1>2. CASE PublishQos0 \/ ReadMessage \/ ReadStray \/ PublishAnswered \/ SubscribeAnswered
           \/ UnsubscribeAnswered \/ ResubscribeAnswered
  BY <1>2 DEF PublishQos0, ReadMessage, ReadStray, PublishAnswered, SubscribeAnswered,
     UnsubscribeAnswered, ResubscribeAnswered, ReadAnswer, ReadPacket, broker
<1>3. CASE \/ CommandTimeout \/ DeliverMatch \/ CallbackReturn \/ DeliverDone
           \/ DeliverDoneLate \/ ReadTooLong \/ Reconnect \/ ResubscribeSend \/ UNCHANGED vars
  BY <1>3 DEF CommandTimeout, DeliverMatch, CallbackReturn, DeliverDone, DeliverDoneLate,
     ReadTooLong, Reconnect, ResubscribeSend, broker, vars
<1>4. CASE Network
  BY <1>4 DEF Network, BrokerReceive, BrokerRefuse, BrokerPublish, ConnectionLost,
     broker
<1> QED
  BY <1>1, <1>2, <1>3, <1>4 DEF Next, Client

LEMMA OwnAnswersNext ==
    ASSUME Typed, PublishInv, HandlersDoNotPublish, [Next]_vars
    PROVE  OwnAnswers'
<1> SUFFICES ASSUME up', timeouts' = 0
             PROVE  /\ \A p \in Members(toBroker') :
                          p \in Asking("PUBACK") => Publishing' /\ p.id = calls'[1].id
                    /\ Answered("PUBACK")' > 0 => Publishing' /\ calls'[1].id \in acked'
  BY DEF OwnAnswers, Asking
<1>1. /\ Typed' /\ toBroker' \in Seq(Packets) /\ toClient' \in Seq(Packets)
      /\ calls' \in Seq(CallFrames)
  BY NextTyped DEF Typed, CoreTypes
<1>2. PublishOutermost' /\ Matched' /\ FlowStep
  BY PublishOutermostNext, MatchedNext, NextFlow DEF PublishInv
<1>3. QueuesTyped /\ CallsTyped /\ calls \in Seq(CallFrames) /\ "PUBACK" \in Acks
  BY TypedParts DEF CallsTyped, Acks
<1>4. Waiters("PUBACK") = IF Publishing THEN 1 ELSE 0
  <2>1. \A n \in 1..Len(calls) : calls[n].op = "publish" => n = 1 /\ calls[n].pc = "wait"
    BY <1>3 DEF PublishInv, PublishOutermost, CallsTyped, CallsFit, FrameFits
  <2> QED
    BY <1>3, <2>1, PublishWaiter DEF Waiters, Publishing, Outermost
<1>5. Waiters("PUBACK")' = IF Publishing' THEN 1 ELSE 0
  <2>1. CallsFit'
    BY <1>1 DEF Typed
  <2>2. \A n \in 1..Len(calls') : calls'[n].op = "publish" => n = 1 /\ calls'[n].pc = "wait"
    BY <1>2, <2>1 DEF PublishOutermost, CallsFit, FrameFits
  <2>3. Count(calls', WaitingFor("PUBACK"))
           = IF Len(calls') > 0 /\ calls'[1].op = "publish" THEN 1 ELSE 0
    BY <1>1, <2>2, PublishWaiter
  <2> QED
    BY <2>3, CountsNext DEF Publishing, Outermost
<1>6. /\ Asked("PUBACK")' \in Nat /\ Answered("PUBACK")' \in Nat
      /\ Asked("PUBACK") \in Nat /\ Answered("PUBACK") \in Nat
  BY <1>1, CountFacts, CountsNext, CountsTyped
<1>7. Asked("PUBACK")' + Answered("PUBACK")' <= Waiters("PUBACK")'
  BY <1>2, <1>3 DEF Matched
<1>8. CASE ~Publishing'
  <2>1. Asked("PUBACK")' = 0 /\ Answered("PUBACK")' = 0
    BY <1>5, <1>6, <1>7, <1>8
  <2>2. \A p \in Members(toBroker') : p \notin Asking("PUBACK")
    BY <1>1, <2>1, MembersTyped, CountsNext
  <2> QED
    BY <2>1, <2>2
<1>9. CASE Publishing' /\ Publish
  <2> DEFINE p == Packet("PUBLISH", NoTopic, NextPacketId)
  <2>1. up
    BY <1>9 DEF Publish, StartRequest
  <2>2. /\ calls = << >> /\ calls'[1].id = NextPacketId /\ timeouts = 0
        /\ p \in Packets /\ p.id = NextPacketId /\ Send(p) /\ toClient' = toClient
    BY <1>9, <2>1, PublishAlone
  <2> HIDE DEF p
  <2>3. ~Publishing
    BY <1>3, <2>2 DEF Publishing, Outermost
  <2>4. Answered("PUBACK") = 0 /\ \A q \in Members(toBroker) : q \notin Asking("PUBACK")
    BY <1>6, <2>1, <2>2, <2>3 DEF PublishInv, OwnAnswers
  <2>5. Members(toBroker') = Members(toBroker) \cup { p }
    BY <1>3, <2>2, Sent
  <2>6. Answered("PUBACK")' = 0
    BY <2>2, <2>4, CountsNext DEF Answered
  <2> QED
    BY <1>9, <2>2, <2>4, <2>5, <2>6
<1>10. CASE Publishing' /\ ~Publish
  <2>1. Publishing
    <3>1. SUFFICES ASSUME ~Publishing PROVE FALSE
      OBVIOUS
    <3>2. Len(calls) = 0
      BY <1>3, <1>10, <3>1, OutermostStays DEF Publishing, Outermost
    <3>3. calls = << >>
      BY <1>3, <3>2
    <3>4. PICK f \in CallFrames : Enter(f) /\ f.op # "publish"
      BY <1>10, <3>2, <3>3, CallsStep DEF CallsGoOn, SubscribeStarts, Publishing,
         Outermost
    <3> QED
      BY <1>3, <1>10, <3>3, <3>4, Entered DEF Publishing, Outermost
  <2>2. calls'[1].id = calls[1].id /\ acked \subseteq acked'
    BY <1>10, <2>1, OutermostStays, AckedGrows DEF Publishing, Outermost
  <2>3. CASE toBroker' = << >> /\ toClient' = << >>
    <3>1. Members(toBroker') = {} /\ Answered("PUBACK")' = 0
      BY <2>3, MembersEmpty, CountEmpty, CountsNext
    <3> QED
      BY <3>1
  <2>4. CASE up /\ timeouts = 0
    <3>1. /\ \A p \in Members(toBroker) : p \in Asking("PUBACK") => p.id = calls[1].id
          /\ Answered("PUBACK") > 0 => calls[1].id \in acked
      BY <2>4 DEF PublishInv, OwnAnswers
    <3>2. ASSUME \A p \in Members(toBroker') : p \in Members(toBroker) \/ p \notin Asking("PUBACK"),
                 Answered("PUBACK")' <= Answered("PUBACK")
          PROVE  /\ \A p \in Members(toBroker') :
                       p \in Asking("PUBACK") => Publishing' /\ p.id = calls'[1].id
                 /\ Answered("PUBACK")' > 0 => Publishing' /\ calls'[1].id \in acked'
      BY <1>6, <1>10, <2>2, <3>1, <3>2
    <3>3. ASSUME NEW p \in Packets, NEW ack \in Acks, Asks(p, ack)
          PROVE  /\ Members(toBroker') = Members(toBroker) \cup { p } /\ p \notin Asking("PUBACK")
                 /\ Answered("PUBACK")' = Answered("PUBACK")
      <4>1. ack # "PUBACK"
        BY <1>3, <1>4, <1>5, <1>10, <2>1, <3>3 DEF Asks
      <4>2. Members(toBroker') = Members(toBroker) \cup { p }
        BY <1>3, <3>3, Sent DEF Asks
      <4> QED
        BY <1>3, <3>3, <4>1, <4>2, AsksCounts DEF Asks
    <3>4. ASSUME toClient # << >>, toClient' = Tail(toClient), toBroker' = toBroker
          PROVE  Answered("PUBACK")' <= Answered("PUBACK")
      BY <1>3, <1>6, <3>4, ReadsCounts
    <3>5. CASE SendsOther
      <4>1. Answered("PUBACK")' = Answered("PUBACK")
        BY <1>3, <3>5, OthersCounts
      <4>2. \A p \in Members(toBroker') : p \in Members(toBroker) \/ p \notin Asking("PUBACK")
        BY <1>3, <3>5, Sent DEF SendsOther
      <4> QED
        BY <1>6, <3>2, <4>1, <4>2
    <3>6. CASE BrokerTells
      <4>1. Answered("PUBACK")' = Answered("PUBACK") /\ toBroker' = toBroker
        BY <1>3, <3>6, TellsCounts DEF BrokerTells
      <4> QED
        BY <1>6, <3>2, <4>1
    <3>7. CASE BrokerAnswers
      <4>1. /\ Members(toBroker') \subseteq Members(toBroker)
            /\ Head(toBroker) \in Members(toBroker)
        BY <1>3, <3>7, ReceivedOne DEF BrokerAnswers
      <4>2. CASE Head(toBroker) \in Asking("PUBACK")
        <5>1. calls[1].id \in acked'
          BY <3>1, <3>7, <4>1, <4>2 DEF BrokerAnswers
        <5> QED
          BY <1>10, <2>2, <3>1, <4>1, <5>1
      <4>3. CASE Head(toBroker) \notin Asking("PUBACK")
        <5>1. Answered("PUBACK")' = Answered("PUBACK")
          BY <1>3, <3>7, <4>3, AnswersCounts
        <5> QED
          BY <1>6, <3>2, <4>1, <5>1
      <4> QED
        BY <4>2, <4>3
    <3> QED
      BY <1>2, <1>6, <2>4, <3>2, <3>3, <3>4, <3>5, <3>6, <3>7
         DEF FlowStep, TakesAnswer, SkipsPacket
  <2> QED
    BY <1>2, <2>3, <2>4 DEF FlowStep
<1> QED
  BY <1>8, <1>9, <1>10

\* If message handlers do not publish with QoS 1, a QoS 1 publish that returns
\* SUCCESS while no command has timed out has been acknowledged by the broker,
\* although the client does not compare packet identifiers and reuses them.
THEOREM PublishesConfirmed ==
    ASSUME HandlersDoNotPublish
    PROVE  Spec => PublishConfirmed
<1>1. Init => PublishInv
  <2> SUFFICES ASSUME Init PROVE PublishInv
    OBVIOUS
  <2>1. toBroker = << >> /\ toClient = << >> /\ calls = << >>
    BY DEF Init
  <2>2. Members(toBroker) = {} /\ Answered("PUBACK") = 0
    BY <2>1, MembersEmpty, CountEmpty DEF Answered
  <2> QED
    BY <2>1, <2>2, InitMatched DEF PublishInv, PublishOutermost, OwnAnswers
<1>2. Typed /\ PublishInv /\ [Next]_vars => PublishInv'
  BY MatchedNext, PublishOutermostNext, OwnAnswersNext DEF PublishInv
<1>3. Typed /\ PublishInv /\ [Next]_vars =>
        [timeouts = 0 /\ PublishAnswered => Top.id \in acked]_vars
  <2> SUFFICES ASSUME Typed, PublishInv, timeouts = 0, PublishAnswered
               PROVE  Top.id \in acked
    OBVIOUS
  <2>1. /\ calls # << >> /\ Top.op = "publish" /\ up /\ toClient # << >>
        /\ Head(toClient) \in Packets /\ Head(toClient).type = AckOf("publish")
    BY AnswerFacts DEF PublishAnswered
  <2>2. CallsTyped /\ toClient \in Seq(Packets)
    BY TypedParts DEF QueuesTyped
  <2>3. Top = calls[Len(calls)] /\ Len(calls) \in 1..Len(calls)
    BY <2>1, <2>2, TopFacts
  <2>4. Top = calls[1]
    BY <2>1, <2>3 DEF PublishInv, PublishOutermost
  <2>5. Head(toClient) \in Answering("PUBACK") /\ Head(toClient) \in Members(toClient)
    BY <2>1, <2>2, MembersTail DEF Answering, AckOf
  <2>6. Answered("PUBACK") > 0
    <3>1. Answered("PUBACK") \in Nat /\ Answered("PUBACK") # 0
      BY <2>2, <2>5, CountsTyped, MembersTyped DEF Answered
    <3> QED
      BY <3>1
  <2> QED
    BY <2>1, <2>4, <2>6 DEF PublishInv, OwnAnswers
<1> QED
  BY <1>1, <1>2, <1>3, AlwaysTyped, PTL DEF Spec, PublishConfirmed

-----------------------------------------------------------------------------
(* The handler table and the subscriptions of the broker: the inductive    *)
(* invariants                                                              *)

\* Whatever is in P comes before whatever is in Q.
Before(s, P, Q) ==
    \A i, j \in 1..Len(s) : s[i] \in P /\ s[j] \in Q => i < j

\* Subscriptions are answered before what is unsubscribed while they wait.
Ordered ==
    up /\ timeouts = 0 =>
        /\ Before(toBroker, Asking("SUBACK"), Asking("UNSUBACK"))
        /\ Before(toClient, Answering("SUBACK"), Answering("UNSUBACK"))
        /\ Asked("SUBACK") > 0 => Answered("UNSUBACK") = 0

\* The answer a subscribe waits for was read by a call inside it.
AnswerLost == Asked("SUBACK") = 0 /\ Answered("SUBACK") = 0

\* The topics resubscribe has still to send are there, or it will not get to them.
Intact ==
    timeouts = 0 /\ Len(calls) > 0 /\ calls[1].op = "resubscribe" =>
        \/ calls[1].pc = "wait" /\ (~up \/ AnswerLost)
        \/ \A j \in Slots : calls[1].n <= j /\ j < calls[1].count => handlers[j] # NoTopic

FlowInv == Reserved /\ Matched /\ Ordered /\ Intact

\* Until an unsubscribe is sent, handlers fill the table from its start.
Packed ==
    ~unsubscribed =>
        /\ \A i, j \in Slots : i < j /\ handlers[j] # NoTopic => handlers[i] # NoTopic
        /\ \A n \in 1..Len(calls) :
              /\ calls[n].op # "unsubscribe"
              /\ calls[n].op = "subscribe" =>
                    \A j \in Slots : j < calls[n].n => handlers[j] # NoTopic
              /\ calls[n].op = "resubscribe" =>
                    \A j \in Slots : j < calls[n].count <=> handlers[j] # NoTopic

\* What the broker will have once it has received what is on its way, as far as
\* topics are unsubscribed.
Remains(topic) ==
    /\ topic \in brokerSubs
    /\ \A p \in Members(toBroker) : ~(p.type = "UNSUBSCRIBE" /\ p.topic = topic)

Leaving(topic) ==
    \E n \in 1..Len(calls) : calls[n].op = "unsubscribe" /\ calls[n].topic = topic

Subscribing == Outermost("subscribe") \/ Outermost("resubscribe")

Below(n) == { handlers[j] : j \in 0..(n - 1) }

\* The broker has the topics in "before", and "topic" too when it has answered.
Progress(before, topic) ==
    /\ \A p \in Members(toBroker) : p.type = "SUBSCRIBE" => p.topic = topic
    /\ brokerSubs = IF Asked("SUBACK") > 0 THEN before ELSE before \cup { topic }

Named ==
    /\ NoTopic \notin brokerSubs
    /\ \A p \in Members(toBroker) : p.type = "SUBSCRIBE" => p.topic # NoTopic

Settled ==
    ~Subscribing =>
        \A topic \in Topics :
            IF Leaving(topic) THEN ~Remains(topic) ELSE topic \in Handled <=> Remains(topic)

Added ==
    Outermost("subscribe") =>
        AnswerLost \/ Waiters("UNSUBACK") > 0 \/ Progress(Handled, calls[1].topic)

Restored ==
    Outermost("resubscribe") =>
        IF calls[1].pc = "send" THEN brokerSubs = Below(calls[1].n)
        ELSE AnswerLost \/ Progress(Below(calls[1].n), handlers[calls[1].n])

Agree == Named /\ Settled /\ Added /\ Restored

\* What the agreement of client and broker depends on.
Undisturbed == up /\ timeouts = 0 /\ refusals = 0 /\ (drops = 0 \/ ~unsubscribed)

Synced == Undisturbed => Agree

SyncInv == FlowInv /\ Packed /\ Synced

-----------------------------------------------------------------------------
(* Resubscribe never sends a freed slot *)

LEMMA BeforeEmpty ==
    ASSUME NEW P, NEW Q
    PROVE  Before(<< >>, P, Q)
BY DEF Before

LEMMA BeforeAppend ==
    ASSUME NEW S, NEW s \in Seq(S), NEW e \in S, NEW P, NEW Q, Before(s, P, Q),
           e \in P => e \notin Q /\ Count(s, Q) = 0
    PROVE  Before(Append(s, e), P, Q)
<1>1. /\ Len(Append(s, e)) = Len(s) + 1 /\ Append(s, e)[Len(s) + 1] = e /\ Len(s) \in Nat
      /\ \A i \in 1..Len(s) : Append(s, e)[i] = s[i]
  OBVIOUS
<1>2. e \in P => e \notin Q /\ \A i \in 1..Len(s) : s[i] \notin Q
  BY CountFacts
<1>3. ASSUME NEW i \in 1..(Len(s) + 1), NEW j \in 1..(Len(s) + 1),
             Append(s, e)[i] \in P, Append(s, e)[j] \in Q
      PROVE  i < j
  <2>1. CASE i \in 1..Len(s) /\ j \in 1..Len(s)
    BY <1>1, <1>3, <2>1 DEF Before
  <2>2. CASE j = Len(s) + 1
    BY <1>1, <1>2, <1>3, <2>2
  <2>3. CASE i = Len(s) + 1
    BY <1>1, <1>2, <1>3, <2>3
  <2> QED
    BY <1>1, <2>1, <2>2, <2>3
<1> QED
  BY <1>1, <1>3 DEF Before

LEMMA BeforeTail ==
    ASSUME NEW S, NEW s \in Seq(S), s # << >>, NEW P, NEW Q, Before(s, P, Q)
    PROVE  Before(Tail(s), P, Q) /\ (Head(s) \in Q => Count(s, P) = 0)
<1>1. /\ Len(s) \in Nat /\ Len(s) > 0 /\ Len(Tail(s)) = Len(s) - 1 /\ Head(s) = s[1]
      /\ \A i \in 1..Len(Tail(s)) : Tail(s)[i] = s[i + 1]
  BY HeadTailProperties
<1>2. ASSUME NEW i \in 1..Len(Tail(s)), NEW j \in 1..Len(Tail(s)),
             Tail(s)[i] \in P, Tail(s)[j] \in Q
      PROVE  i < j
  <2>1. i + 1 \in 1..Len(s) /\ j + 1 \in 1..Len(s)
    BY <1>1
  <2>2. i + 1 < j + 1
    BY <1>1, <1>2, <2>1 DEF Before
  <2> QED
    BY <1>1, <2>2
<1>3. ASSUME Head(s) \in Q
      PROVE  \A i \in 1..Len(s) : s[i] \notin P
  BY <1>1, <1>3 DEF Before
<1> QED
  BY <1>2, <1>3, CountFacts DEF Before

LEMMA OrderedNext ==
    ASSUME Typed, Matched, Ordered, HandlersDoNotSubscribe, [Next]_vars
    PROVE  Ordered'
<1> DEFINE Sub == Asking("SUBACK")
           Unsub == Asking("UNSUBACK")
           Suback == Answering("SUBACK")
           Unsuback == Answering("UNSUBACK")
<1> SUFFICES ASSUME up', timeouts' = 0
             PROVE  /\ Before(toBroker', Sub, Unsub) /\ Before(toClient', Suback, Unsuback)
                    /\ Asked("SUBACK")' > 0 => Answered("UNSUBACK")' = 0
  BY DEF Ordered, Asking, Answering
<1> HIDE DEF Sub, Unsub, Suback, Unsuback
<1>1. /\ toBroker \in Seq(Packets) /\ toClient \in Seq(Packets)
      /\ "SUBACK" \in Acks /\ "UNSUBACK" \in Acks
  BY DEF Typed, CoreTypes, Acks
<1>2. /\ Asked("SUBACK") = Count(toBroker, Sub) /\ Asked("UNSUBACK") = Count(toBroker, Unsub)
      /\ Answered("SUBACK") = Count(toClient, Suback)
      /\ Answered("UNSUBACK") = Count(toClient, Unsuback)
  BY DEF Asked, Answered, Sub, Unsub, Suback, Unsuback
<1>3. /\ Asked("SUBACK") \in Nat /\ Asked("UNSUBACK") \in Nat
      /\ Answered("SUBACK") \in Nat /\ Answered("UNSUBACK") \in Nat
  BY CountsTyped
<1>4. \A p \in Packets : /\ p \in Sub <=> p.type = "SUBSCRIBE"
                         /\ p \in Unsub <=> p.type = "UNSUBSCRIBE"
                         /\ p \in Suback <=> p.type = "SUBACK"
                         /\ p \in Unsuback <=> p.type = "UNSUBACK"
  BY DEF Sub, Unsub, Suback, Unsuback, Asking, Answering
<1>5. FlowStep
  BY NextFlow
<1>6. CASE toBroker' = << >> /\ toClient' = << >>
  BY <1>6, BeforeEmpty, CountEmpty, CountsNext
<1>7. CASE up /\ timeouts = 0
  <2>1. /\ Before(toBroker, Sub, Unsub) /\ Before(toClient, Suback, Unsuback)
        /\ Asked("SUBACK") > 0 => Answered("UNSUBACK") = 0
    BY <1>7 DEF Ordered, Sub, Unsub, Suback, Unsuback
  <2>2. ASSUME NEW p \in Packets, NEW ack \in Acks, Asks(p, ack)
        PROVE  /\ Before(toBroker', Sub, Unsub) /\ Before(toClient', Suback, Unsuback)
               /\ Asked("SUBACK")' > 0 => Answered("UNSUBACK")' = 0
    <3>1. toBroker' = Append(toBroker, p) /\ toClient' = toClient
      BY <2>2 DEF Asks, Send
    <3>2. p \in Sub => ack = "SUBACK"
      BY <1>1, <2>2 DEF Asks, Sub
    <3>3. ack = "SUBACK" => Asked("UNSUBACK") = 0 /\ Answered("UNSUBACK") = 0
      <4> SUFFICES ASSUME ack = "SUBACK"
                   PROVE  Asked("UNSUBACK") = 0 /\ Answered("UNSUBACK") = 0
        OBVIOUS
      <4>1. Waiters("UNSUBACK") = 0
        BY <2>2 DEF Asks
      <4>2. Asked("UNSUBACK") + Answered("UNSUBACK") <= Waiters("UNSUBACK")
        BY <1>1, <1>7 DEF Matched
      <4> QED
        BY <1>3, <4>1, <4>2
    <3>4. Before(toBroker', Sub, Unsub)
      BY <1>1, <1>2, <1>4, <2>1, <3>1, <3>2, <3>3, BeforeAppend
    <3>5. /\ Asked("SUBACK")' = IF "SUBACK" = ack THEN Asked("SUBACK") + 1 ELSE Asked("SUBACK")
          /\ Answered("UNSUBACK")' = Answered("UNSUBACK")
      BY <1>1, <2>2, AsksCounts
    <3> QED
      BY <2>1, <3>1, <3>3, <3>4, <3>5
  <2>3. ASSUME toClient # << >>, toClient' = Tail(toClient), toBroker' = toBroker
        PROVE  /\ Before(toBroker', Sub, Unsub) /\ Before(toClient', Suback, Unsuback)
               /\ Asked("SUBACK")' > 0 => Answered("UNSUBACK")' = 0
    <3>1. Before(toClient', Suback, Unsuback)
      BY <1>1, <2>1, <2>3, BeforeTail
    <3>2. Asked("SUBACK")' = Asked("SUBACK")
      BY <1>1, <2>3, ReadsCounts
    <3>3. /\ Answered("UNSUBACK")' \in Nat
          /\ Answered("UNSUBACK") = IF Head(toClient).type = "UNSUBACK"
                                    THEN Answered("UNSUBACK")' + 1 ELSE Answered("UNSUBACK")'
      BY <1>1, <2>3, ReadsCounts
    <3> QED
      BY <1>3, <2>1, <2>3, <3>1, <3>2, <3>3
  <2>4. CASE SendsOther
    <3>1. /\ Asked("SUBACK")' = Asked("SUBACK") /\ Answered("UNSUBACK")' = Answered("UNSUBACK")
      BY <1>1, <2>4, OthersCounts
    <3>2. ASSUME NEW p \in Packets, Send(p), p \notin Sub
          PROVE  Before(toBroker', Sub, Unsub)
      BY <1>1, <2>1, <3>2, BeforeAppend DEF Send
    <3>3. Before(toBroker', Sub, Unsub) /\ toClient' = toClient
      BY <1>1, <2>1, <2>4, <3>2 DEF SendsOther, Sub
    <3> QED
      BY <2>1, <3>1, <3>3
  <2>5. CASE BrokerTells
    <3>1. /\ Asked("SUBACK")' = Asked("SUBACK") /\ Answered("UNSUBACK")' = Answered("UNSUBACK")
      BY <1>1, <2>5, TellsCounts
    <3>2. PICK q \in Packets : toClient' = Append(toClient, q) /\ q.type = "PUBLISH"
      BY <2>5 DEF BrokerTells
    <3>3. Before(toClient', Suback, Unsuback)
      BY <1>1, <1>4, <2>1, <3>2, BeforeAppend
    <3> QED
      BY <2>1, <2>5, <3>1, <3>3 DEF BrokerTells
  <2>6. CASE BrokerAnswers
    <3>1. toBroker # << >> /\ toBroker' = Tail(toBroker)
          /\ toClient' = toClient \o Reply(Head(toBroker))
      BY <2>6 DEF BrokerAnswers
    <3>2. Before(toBroker', Sub, Unsub) /\ (Head(toBroker) \in Unsub => Asked("SUBACK") = 0)
      BY <1>1, <1>2, <2>1, <3>1, BeforeTail
    <3>3. \/ toClient' = toClient /\ \A ack \in Acks : Head(toBroker) \notin Asking(ack)
          \/ \E q \in Packets :
               /\ toClient' = Append(toClient, q) /\ q.type \in Acks
               /\ \A ack \in Acks : Head(toBroker) \in Asking(ack) <=> q.type = ack
      BY <3>1, TypedParts, ReceiveFacts
    <3>4. /\ IF Head(toBroker) \in Sub THEN Asked("SUBACK") = Asked("SUBACK")' + 1
             ELSE Asked("SUBACK")' = Asked("SUBACK")
          /\ IF Head(toBroker) \in Unsub THEN Answered("UNSUBACK")' = Answered("UNSUBACK") + 1
             ELSE Answered("UNSUBACK")' = Answered("UNSUBACK")
      BY <1>1, <2>6, AnswersCounts DEF Sub, Unsub
    <3>5. Asked("SUBACK")' \in Nat
      <4>1. Count(toBroker', Asking("SUBACK")) \in Nat
        BY <3>1, TypedParts, ReceivedOne
      <4> QED
        BY <4>1, CountsNext
    <3>6. Asked("SUBACK")' > 0 => Answered("UNSUBACK")' = 0
      BY <1>3, <2>1, <3>2, <3>4, <3>5
    <3>7. ASSUME NEW q \in Packets, toClient' = Append(toClient, q),
                 q.type = "SUBACK" => Head(toBroker) \in Sub
          PROVE  Before(toClient', Suback, Unsuback)
      <4>1. q \in Suback => Answered("UNSUBACK") = 0 /\ q \notin Unsuback
        BY <1>3, <1>4, <2>1, <3>4, <3>5, <3>7
      <4> QED
        BY <1>1, <1>2, <2>1, <3>7, <4>1, BeforeAppend
    <3> QED
      BY <1>1, <2>1, <3>2, <3>3, <3>6, <3>7 DEF Sub
  <2> QED
    BY <1>5, <1>7, <2>2, <2>3, <2>4, <2>5, <2>6 DEF FlowStep, TakesAnswer, SkipsPacket
<1> QED
  BY <1>5, <1>6, <1>7 DEF FlowStep

\* A resubscribe that goes on is the outermost call and stays as it is, unless
\* it is the one that takes the step.
LEMMA ResubscribeStays ==
    ASSUME Typed, [Next]_vars, ~Reconnect, ~ResubscribeSend, ~ResubscribeAnswered,
           Len(calls') > 0, calls'[1].op = "resubscribe"
    PROVE  Len(calls) > 0 /\ calls'[1] = calls[1]
<1>1. CallsTyped /\ calls \in Seq(CallFrames) /\ Len(calls) \in Nat
  BY TypedParts DEF CallsTyped
<1>2. ASSUME NEW f \in CallFrames, Enter(f), f.op # "resubscribe"
      PROVE  Len(calls) > 0 /\ calls'[1] = calls[1]
  <2>1. /\ Len(calls') = Len(calls) + 1 /\ calls'[Len(calls) + 1] = f
        /\ \A n \in 1..Len(calls) : calls'[n] = calls[n]
    BY <1>1, <1>2, Entered
  <2> QED
    BY <1>1, <1>2, <2>1
<1>3. CASE calls # << >> /\ Return
  <2>1. /\ calls' \in Seq(CallFrames)
        /\ \A n \in 1..Len(calls') : calls'[n] = calls[n] /\ n \in 1..Len(calls)
    BY <1>1, <1>3, Returned
  <2>2. 1 \in 1..Len(calls')
    BY <2>1
  <2> QED
    BY <1>1, <2>1, <2>2
<1>4. ASSUME calls # << >>, Top.op = "deliver", NEW n \in 0..NumHandlers, NEW pc \in Pcs,
             Goto(n, pc)
      PROVE  Len(calls) > 0 /\ calls'[1] = calls[1]
  <2> DEFINE g == At(Top, n, pc)
  <2>1. /\ g.op = Top.op /\ Len(calls') = Len(calls) /\ calls'[Len(calls)] = g
        /\ \A m \in 1..Len(calls) : m # Len(calls) => calls'[m] = calls[m]
    BY <1>1, <1>4, Moved
  <2> HIDE DEF g
  <2>2. 1 \in 1..Len(calls) /\ Len(calls) > 0
    BY <1>1, <1>4, TopFacts
  <2> QED
    BY <1>4, <2>1, <2>2
<1>5. ASSUME NEW topic \in Topics, SubscribeStarts(topic)
      PROVE  Len(calls) > 0 /\ calls'[1] = calls[1]
  <2> DEFINE f == Call("subscribe", topic, NextPacketId, FreeIndex, 0, "wait")
  <2>1. f \in CallFrames /\ Enter(f) /\ f.op = "subscribe"
    BY <1>5 DEF SubscribeStarts
  <2> HIDE DEF f
  <2> QED
    BY <1>2, <2>1
<1> QED
  BY <1>2, <1>3, <1>4, <1>5, CallsStep DEF CallsGoOn

\* What waits for SUBACK is the outermost call.
LEMMA SubscribeWaiter ==
    ASSUME Typed, Reserved
    PROVE  Waiters("SUBACK") = IF Len(calls) > 0 /\ calls[1] \in WaitingFor("SUBACK")
                               THEN 1 ELSE 0
<1>1. \A n \in 1..Len(calls) : calls[n] \in WaitingFor("SUBACK") => n = 1
  BY DEF WaitingFor, Reserved, Typed, CallsFit
<1>2. calls \in Seq(CallFrames)
  BY DEF Typed, CoreTypes
<1> QED
  BY <1>1, <1>2, OneAtMost DEF Waiters

LEMMA SubscribeWaiterNext ==
    ASSUME Typed', Reserved'
    PROVE  Waiters("SUBACK")' = IF Len(calls') > 0 /\ calls'[1] \in WaitingFor("SUBACK")
                                THEN 1 ELSE 0
<1>1. CallsFit' /\ calls' \in Seq(CallFrames)
  BY DEF Typed, CoreTypes
<1>2. \A n \in 1..Len(calls') : calls'[n] \in WaitingFor("SUBACK") => n = 1
  BY <1>1 DEF WaitingFor, Reserved, CallsFit
<1>3. Count(calls', WaitingFor("SUBACK"))
         = IF Len(calls') > 0 /\ calls'[1] \in WaitingFor("SUBACK") THEN 1 ELSE 0
  BY <1>1, <1>2, OneAtMost
<1> QED
  BY <1>3, CountsNext

\* Once the answer is lost it does not come again while the same call waits.
LEMMA AnswerStaysLost ==
    ASSUME Typed, Reserved, Reserved', [Next]_vars, up, up', timeouts' = 0, AnswerLost,
           Waiters("SUBACK")' <= Waiters("SUBACK")
    PROVE  AnswerLost'
<1>1. FlowStep /\ "SUBACK" \in Acks
  BY NextFlow DEF Acks
<1>2. /\ Asked("SUBACK") = 0 /\ Answered("SUBACK") = 0 /\ Waiters("SUBACK") \in Nat
  BY CountsTyped DEF AnswerLost
<1>3. toBroker' \in Seq(Packets) /\ toClient' \in Seq(Packets)
  BY NextTyped DEF Typed, CoreTypes
<1>4. Asked("SUBACK")' \in Nat /\ Answered("SUBACK")' \in Nat
  BY <1>3, CountFacts, CountsNext
<1>5. ASSUME NEW p \in Packets, NEW ack \in Acks, Asks(p, ack)
      PROVE  Asked("SUBACK")' = 0 /\ Answered("SUBACK")' = 0
  <2>1. ack # "SUBACK"
    BY <1>1, <1>2, <1>5 DEF Asks
  <2> QED
    BY <1>1, <1>2, <1>5, <2>1, AsksCounts
<1>6. ASSUME toClient # << >>, toClient' = Tail(toClient), toBroker' = toBroker
      PROVE  Asked("SUBACK")' = 0 /\ Answered("SUBACK")' = 0
  BY <1>1, <1>2, <1>4, <1>6, ReadsCounts
<1>7. CASE SendsOther
  BY <1>1, <1>2, <1>7, OthersCounts DEF AnswerLost
<1>8. CASE BrokerTells
  BY <1>1, <1>2, <1>8, TellsCounts DEF AnswerLost
<1>9. CASE BrokerAnswers
  BY <1>1, <1>2, <1>4, <1>9, AnswersCounts DEF AnswerLost
<1> QED
  BY <1>1, <1>5, <1>6, <1>7, <1>8, <1>9 DEF FlowStep, TakesAnswer, SkipsPacket, AnswerLost

\* An UNSUBACK that is read first overtakes no SUBACK.
LEMMA UnsubackAfterSuback ==
    ASSUME Typed, Ordered, up, timeouts = 0, toClient # << >>, Head(toClient).type = "UNSUBACK"
    PROVE  AnswerLost
<1>1. toClient \in Seq(Packets) /\ Head(toClient) \in Packets
  BY HeadTailProperties DEF Typed, CoreTypes
<1>2. Head(toClient) \in Answering("UNSUBACK")
  BY <1>1 DEF Answering
<1>3. /\ Before(toClient, Answering("SUBACK"), Answering("UNSUBACK"))
      /\ Asked("SUBACK") > 0 => Answered("UNSUBACK") = 0
  BY DEF Ordered
<1>4. Answered("SUBACK") = 0
  BY <1>1, <1>2, <1>3, BeforeTail DEF Answered
<1>5. Answered("UNSUBACK") # 0
  BY <1>1, <1>2, MembersTail, MembersTyped DEF Answered
<1>6. Asked("SUBACK") \in Nat
  BY CountsTyped
<1> QED
  BY <1>3, <1>4, <1>5, <1>6 DEF AnswerLost

LEMMA TimeoutsGrow ==
    ASSUME Typed, [Next]_vars, timeouts' = 0
    PROVE  timeouts = 0
<1>1. timeouts \in Nat
  BY TypedParts DEF BoundsTyped
<1>2. CASE Network \/ UNCHANGED vars
  BY <1>2 DEF Network, BrokerReceive, BrokerRefuse, BrokerPublish, ConnectionLost, bounds, vars
<1>3. ASSUME NEW topic \in Topics, Subscribe(topic) \/ Unsubscribe(topic)
      PROVE  timeouts = 0
  BY <1>3 DEF Subscribe, Unsubscribe, StartRequest
<1>4. CASE PublishQos0 \/ Publish \/ ReadMessage \/ ReadStray \/ PublishAnswered
           \/ SubscribeAnswered \/ UnsubscribeAnswered \/ ResubscribeAnswered
  BY <1>4 DEF PublishQos0, Publish, StartRequest, ReadMessage, ReadStray, PublishAnswered,
     SubscribeAnswered, UnsubscribeAnswered, ResubscribeAnswered, ReadAnswer, ReadPacket, bounds
<1>5. CASE CommandTimeout
  BY <1>1, <1>5 DEF CommandTimeout
<1>6. CASE \/ DeliverMatch \/ CallbackReturn \/ DeliverDone \/ DeliverDoneLate \/ ReadTooLong
           \/ Reconnect \/ ResubscribeSend
  BY <1>6 DEF DeliverMatch, CallbackReturn, DeliverDone, DeliverDoneLate, ReadTooLong,
     Reconnect, ResubscribeSend, bounds
<1> QED
  BY <1>2, <1>3, <1>4, <1>5, <1>6 DEF Next, Client

\* The connection comes back only with a reconnect.
LEMMA StaysDown ==
    ASSUME Typed, [Next]_vars, ~Reconnect, up'
    PROVE  up
<1>1. CASE Network \/ UNCHANGED vars
  BY <1>1 DEF Network, BrokerReceive, BrokerRefuse, BrokerPublish, ConnectionLost, vars
<1>2. ASSUME NEW topic \in Topics, Subscribe(topic) \/ Unsubscribe(topic)
      PROVE  up
  BY <1>2 DEF Subscribe, Unsubscribe, StartRequest
<1>3. CASE PublishQos0 \/ Publish \/ ReadMessage \/ ReadStray \/ PublishAnswered
           \/ SubscribeAnswered \/ UnsubscribeAnswered \/ ResubscribeAnswered
  BY <1>3 DEF PublishQos0, Publish, StartRequest, ReadMessage, ReadStray, PublishAnswered,
     SubscribeAnswered, UnsubscribeAnswered, ResubscribeAnswered, ReadAnswer, ReadPacket
<1>4. CASE \/ CommandTimeout \/ DeliverMatch \/ CallbackReturn \/ DeliverDone
           \/ DeliverDoneLate \/ ReadTooLong \/ ResubscribeSend
  BY <1>4 DEF CommandTimeout, DeliverMatch, CallbackReturn, DeliverDone, DeliverDoneLate,
     ReadTooLong, ResubscribeSend
<1> QED
  BY <1>1, <1>2, <1>3, <1>4 DEF Next, Client

LEMMA IntactNext ==
    ASSUME Typed, FlowInv, HandlersDoNotSubscribe, Reserved', [Next]_vars
    PROVE  Intact'
<1> DEFINE Sends(c, h) == \A j \in Slots : c[1].n <= j /\ j < c[1].count => h[j] # NoTopic
           Lost == calls[1].pc = "wait" /\ (~up \/ AnswerLost)
<1> SUFFICES ASSUME timeouts' = 0, Len(calls') > 0, calls'[1].op = "resubscribe"
             PROVE  \/ calls'[1].pc = "wait" /\ (~up' \/ AnswerLost')
                    \/ Sends(calls', handlers')
  BY DEF Intact
<1>1. /\ CallsTyped /\ calls \in Seq(CallFrames) /\ Len(calls) \in Nat /\ timeouts = 0
      /\ toClient \in Seq(Packets) /\ Typed' /\ calls' \in Seq(CallFrames)
  <2>1. CallsTyped /\ timeouts = 0 /\ Typed'
    BY TypedParts, TimeoutsGrow, NextTyped
  <2>2. calls \in Seq(CallFrames) /\ toClient \in Seq(Packets)
    BY DEF Typed, CoreTypes
  <2>3. calls' \in Seq(CallFrames)
    BY <2>1 DEF Typed, CoreTypes
  <2> QED
    BY <2>1, <2>2, <2>3, LenProperties
<1>2. Len(calls) > 0 /\ calls[1].op = "resubscribe" => Lost \/ Sends(calls, handlers)
  BY <1>1 DEF FlowInv, Intact
<1>3. CASE Reconnect
  <2> DEFINE f == Call("resubscribe", NoTopic, 0, 0, FreeIndex, "send")
  <2>1. f \in CallFrames /\ f.n = 0 /\ f.count = FreeIndex
    BY ResubscribeFrame
  <2>2. calls = << >> /\ Enter(f) /\ handlers' = handlers
    BY <1>3 DEF Reconnect
  <2> HIDE DEF f
  <2>3. calls'[1] = f
    BY <1>1, <2>1, <2>2, Entered
  <2> QED
    BY <2>1, <2>2, <2>3, FreeIndexFacts
<1>4. CASE ResubscribeSend
  <2>1. /\ calls # << >> /\ Top.op = "resubscribe" /\ Top.pc = "send"
        /\ InCall("resubscribe", "send") /\ handlers' = handlers
    BY <1>4 DEF ResubscribeSend, InCall
  <2>2. Top = calls[Len(calls)] /\ Len(calls) \in 1..Len(calls)
    BY <1>1, <2>1, TopFacts
  <2>3. Len(calls) = 1 /\ Top = calls[1]
    BY <1>1, <2>1, <2>2 DEF CallsTyped, CallsFit
  <2>4. Sends(calls, handlers)
    BY <1>2, <2>1, <2>3
  <2>5. CASE Return
    BY <1>1, <2>1, <2>3, <2>5, Returned
  <2>6. CASE Top.n < Top.count /\ Goto(Top.n, "wait")
    <3> DEFINE g == At(Top, Top.n, "wait")
    <3>1. Top.n \in 0..NumHandlers /\ "wait" \in Pcs
      BY <2>1, <2>6, ResendFacts
    <3>2. g.n = Top.n /\ g.count = Top.count /\ calls'[Len(calls)] = g
      BY <1>1, <2>1, <2>6, <3>1, Moved
    <3> HIDE DEF g
    <3>3. calls'[1].n = calls[1].n /\ calls'[1].count = calls[1].count
      BY <2>3, <3>2
    <3> QED
      BY <2>1, <2>4, <3>3
  <2> QED
    BY <1>4, <2>5, <2>6 DEF ResubscribeSend
<1>5. CASE ResubscribeAnswered
  <2>1. /\ calls # << >> /\ Top.op = "resubscribe" /\ Top.pc = "wait" /\ up
        /\ Goto(Top.n + 1, "send") /\ handlers' = handlers
        /\ toClient # << >> /\ Head(toClient) \in Packets
        /\ Head(toClient).type = AckOf("resubscribe")
    BY <1>5, AnswerFacts DEF ResubscribeAnswered
  <2>2. /\ Top = calls[Len(calls)] /\ Len(calls) \in 1..Len(calls) /\ Top \in CallFrames
        /\ FrameFits(Top)
    BY <1>1, <2>1, TopFacts
  <2>3. Len(calls) = 1 /\ Top = calls[1]
    BY <1>1, <2>1, <2>2 DEF CallsTyped, CallsFit
  <2>4. Answered("SUBACK") # 0
    <3>1. Head(toClient) \in Answering("SUBACK")
      BY <2>1 DEF Answering, AckOf
    <3> QED
      BY <1>1, <2>1, <3>1, MembersTail, MembersTyped DEF Answered
  <2>5. Sends(calls, handlers)
    BY <1>2, <2>1, <2>3, <2>4 DEF AnswerLost
  <2> DEFINE m == Top.n + 1
             g == At(Top, m, "send")
  <2>6. m \in 0..NumHandlers /\ "send" \in Pcs /\ Goto(m, "send") /\ Top.n \in Nat /\ m = Top.n + 1
    BY <2>1, <2>2, CallFields, Bounds DEF FrameFits, Pcs
  <2> HIDE DEF m
  <2>7. g.n = m /\ g.count = Top.count /\ calls'[Len(calls)] = g
    BY <1>1, <2>1, <2>6, Moved
  <2> HIDE DEF g
  <2>8. calls'[1].n = calls[1].n + 1 /\ calls'[1].count = calls[1].count /\ calls[1].n \in Nat
    BY <2>3, <2>6, <2>7
  <2>9. \A j \in Slots : j \in Nat
    BY Bounds
  <2> QED
    BY <2>1, <2>5, <2>8, <2>9
<1>6. CASE ~Reconnect /\ ~ResubscribeSend /\ ~ResubscribeAnswered
  <2>1. Len(calls) > 0 /\ calls'[1] = calls[1]
    BY <1>6, ResubscribeStays
  <2>2. ASSUME calls[1].pc = "wait", up, up', AnswerLost
        PROVE  AnswerLost'
    <3>1. Waiters("SUBACK") = Waiters("SUBACK")'
      BY <1>1, <2>1, SubscribeWaiter, SubscribeWaiterNext DEF FlowInv
    <3>2. Waiters("SUBACK") \in Nat
      BY CountsTyped
    <3> QED
      BY <1>1, <2>2, <3>1, <3>2, AnswerStaysLost DEF FlowInv
  <2>3. ASSUME handlers' = handlers
        PROVE  \/ calls'[1].pc = "wait" /\ (~up' \/ AnswerLost')
               \/ Sends(calls', handlers')
    BY <1>2, <1>6, <2>1, <2>2, <2>3, StaysDown
  <2>4. CASE SubscribeAnswered
    BY <1>1, <2>4, SubscribeAlone DEF FlowInv
  <2>5. CASE UnsubscribeAnswered
    <3>1. /\ calls # << >> /\ Top.op = "unsubscribe" /\ up /\ up' = up /\ toClient # << >>
          /\ Head(toClient).type = AckOf("unsubscribe")
      BY <2>5, AnswerFacts DEF UnsubscribeAnswered
    <3>2. AnswerLost
      BY <1>1, <3>1, UnsubackAfterSuback DEF FlowInv, AckOf
    <3>3. Top = calls[Len(calls)] /\ 1 \in 1..Len(calls) /\ FrameFits(calls[1])
      BY <1>1, <3>1, TopFacts
    <3>4. Len(calls) # 1
      BY <2>1, <3>1, <3>3
    <3>5. calls[1].pc = "wait"
      BY <1>1, <2>1, <3>3, <3>4 DEF CallsTyped, CallsFit, FrameFits
    <3> QED
      BY <2>1, <2>2, <3>1, <3>2, <3>5
  <2>6. CASE Client /\ ~SubscribeAnswered /\ ~UnsubscribeAnswered
    BY <2>3, <2>6, ClientShape
  <2>7. CASE Network \/ UNCHANGED vars
    <3>1. handlers' = handlers
      BY <2>7 DEF Network, BrokerReceive, BrokerRefuse, BrokerPublish, ConnectionLost, vars
    <3> QED
      BY <2>3, <3>1
  <2> QED
    BY <2>4, <2>5, <2>6, <2>7 DEF Next
<1> QED
  BY <1>3, <1>4, <1>5, <1>6

LEMMA ReservedStep ==
    ASSUME Typed, Reserved, HandlersDoNotSubscribe, [Next]_vars
    PROVE  Reserved'
<1>1. CASE Next
  BY <1>1, ReservedNext
<1>2. CASE UNCHANGED vars
  <2>1. calls' = calls /\ handlers' = handlers
    BY <1>2 DEF vars
  <2> QED
    BY <2>1, ReservedStays DEF CallsGoOn
<1> QED
  BY <1>1, <1>2

LEMMA InitFlow == Init => FlowInv
<1> SUFFICES ASSUME Init PROVE FlowInv
  OBVIOUS
<1>1. toBroker = << >> /\ toClient = << >> /\ calls = << >>
  BY DEF Init
<1>2. Ordered
  BY <1>1, BeforeEmpty, CountEmpty DEF Ordered, Asked, Answered
<1> QED
  BY <1>1, <1>2, InitMatched DEF FlowInv, Reserved, Intact

LEMMA FlowNext ==
    ASSUME Typed, FlowInv, HandlersDoNotSubscribe, [Next]_vars
    PROVE  FlowInv'
<1>1. Reserved'
  BY ReservedStep DEF FlowInv
<1>2. Matched' /\ Ordered'
  BY MatchedNext, OrderedNext DEF FlowInv
<1>3. Intact'
  BY <1>1, IntactNext
<1> QED
  BY <1>1, <1>2, <1>3 DEF FlowInv

\* If message handlers do not subscribe, resubscribe sends only topics that have a
\* handler, although handlers may unsubscribe while it waits for an answer: an
\* UNSUBACK never overtakes the SUBACK it waits for.
THEOREM ResubscribesTopics ==
    ASSUME HandlersDoNotSubscribe
    PROVE  Spec => []ResubscribeHasTopic
<1>1. Typed /\ FlowInv /\ [Next]_vars => FlowInv'
  BY FlowNext
<1>2. Typed /\ FlowInv => ResubscribeHasTopic
  <2> SUFFICES ASSUME Typed, FlowInv, timeouts = 0, InCall("resubscribe", "send"),
                      Top.n < Top.count
               PROVE  handlers[Top.n] # NoTopic
    BY DEF ResubscribeHasTopic
  <2>1. calls # << >> /\ Top.op = "resubscribe" /\ Top.pc = "send" /\ CallsTyped
    BY TypedParts DEF InCall
  <2>2. /\ Top = calls[Len(calls)] /\ Len(calls) \in 1..Len(calls) /\ Top \in CallFrames
        /\ Len(calls) > 0
    BY <2>1, TopFacts
  <2>3. Top = calls[1]
    BY <2>1, <2>2 DEF CallsTyped, CallsFit
  <2>4. Top.n \in Slots /\ Top.n <= Top.n
    BY ResendFacts, Bounds
  <2> QED
    BY <2>1, <2>2, <2>3, <2>4 DEF FlowInv, Intact
<1> QED
  BY <1>1, <1>2, InitFlow, AlwaysTyped, PTL DEF Spec

-----------------------------------------------------------------------------
(* Client and broker agree between calls *)

\* An unsubscribe on a live connection is remembered; on a dead one it does nothing.
LEMMA UnsubscribeSent ==
    ASSUME NEW topic, Unsubscribe(topic)
    PROVE  (up => unsubscribed') /\ (~up => calls' = calls)
BY DEF Unsubscribe, StartRequest, Packet

LEMMA UnsubscribedStays ==
    ASSUME [Next]_vars, ~unsubscribed'
    PROVE  ~unsubscribed
<1>1. CASE PublishQos0 \/ Publish
  BY <1>1 DEF PublishQos0, Publish, StartRequest, marks
<1>2. CASE \E topic \in Topics : Subscribe(topic) \/ Unsubscribe(topic)
  BY <1>2 DEF Subscribe, Unsubscribe, StartRequest, marks
<1>3. CASE \/ ReadMessage \/ ReadStray \/ PublishAnswered \/ SubscribeAnswered
           \/ UnsubscribeAnswered \/ ResubscribeAnswered
  BY <1>3 DEF ReadMessage, ReadStray, PublishAnswered, SubscribeAnswered,
     UnsubscribeAnswered, ResubscribeAnswered, ReadAnswer, ReadPacket, marks
<1>4. CASE ReadTooLong \/ CommandTimeout \/ DeliverDoneLate
  BY <1>4 DEF ReadTooLong, CommandTimeout, DeliverDoneLate
<1>5. CASE DeliverMatch \/ CallbackReturn \/ DeliverDone \/ Reconnect \/ ResubscribeSend
  BY <1>5 DEF DeliverMatch, CallbackReturn, DeliverDone, Reconnect, ResubscribeSend, marks
<1>6. CASE Network
  BY <1>6 DEF Network, BrokerReceive, BrokerRefuse, BrokerPublish, ConnectionLost, marks
<1>7. CASE UNCHANGED vars
  BY <1>7 DEF vars, marks
<1> QED
  BY <1>1, <1>2, <1>3, <1>4, <1>5, <1>6, <1>7 DEF Next, Client

\* Where the calls in progress differ from those before.
LEMMA PackedCalls ==
    ASSUME Typed, Packed, ~unsubscribed, ~unsubscribed', CallsGoOn, handlers' = handlers
    PROVE  Packed'
<1> DEFINE Fits(f) ==
             /\ f.op # "unsubscribe"
             /\ f.op = "subscribe" => \A j \in Slots : j < f.n => handlers[j] # NoTopic
             /\ f.op = "resubscribe" =>
                   \A j \in Slots : j < f.count <=> handlers[j] # NoTopic
<1>1. CallsTyped /\ calls \in Seq(CallFrames) /\ Len(calls) \in Nat
  BY TypedParts DEF CallsTyped
<1>2. /\ \A i, j \in Slots : i < j /\ handlers[j] # NoTopic => handlers[i] # NoTopic
      /\ \A n \in 1..Len(calls) : Fits(calls[n])
  BY DEF Packed
<1>3. SUFFICES \A n \in 1..Len(calls') : Fits(calls'[n])
  BY <1>2, <1>3 DEF Packed
<1>4. ASSUME NEW f \in CallFrames, Enter(f), Fits(f)
      PROVE  \A n \in 1..Len(calls') : Fits(calls'[n])
  <2> HIDE DEF Fits
  <2>1. /\ calls'[Len(calls) + 1] = f
        /\ \A n \in 1..Len(calls) : calls'[n] = calls[n]
        /\ \A n \in 1..Len(calls') : n \in 1..Len(calls) \/ n = Len(calls) + 1
    BY <1>1, <1>4, Entered
  <2> QED
    BY <1>2, <1>4, <2>1
<1>5. ASSUME NEW f \in CallFrames, Enter(f), f.op # "subscribe",
             f.op = "unsubscribe" => \E topic \in Topics : Unsubscribe(topic),
             f.op = "resubscribe" => Reconnect
      PROVE  Fits(f)
  <2>1. f.op # "unsubscribe"
    <3>1. Len(calls') = Len(calls) + 1
      BY <1>1, <1>5, Entered
    <3>2. calls' # calls
      BY <1>1, <3>1
    <3> QED
      BY <1>5, <3>2, UnsubscribeSent
  <2>2. CASE f.op = "resubscribe"
    <3> DEFINE r == Call("resubscribe", NoTopic, 0, 0, FreeIndex, "send")
    <3>1. r \in CallFrames /\ r.count = FreeIndex
      BY ResubscribeFrame
    <3>2. Reconnect
      BY <1>5, <2>2
    <3>3. Enter(r)
      BY <3>2 DEF Reconnect
    <3> HIDE DEF r
    <3>4. f = r
      <4>1. calls'[Len(calls) + 1] = f
        BY <1>1, <1>5, Entered
      <4>2. calls'[Len(calls) + 1] = r
        BY <1>1, <3>1, <3>3, Entered
      <4> QED
        BY <4>1, <4>2
    <3>5. ASSUME NEW j \in Slots
          PROVE  j < FreeIndex <=> handlers[j] # NoTopic
      <4>1. j \in Nat /\ FreeIndex \in Nat /\ FreeIndex <= NumHandlers /\ j < NumHandlers
        BY FreeIndexFacts, Bounds
      <4>2. CASE j < FreeIndex
        BY <4>2, FreeIndexFacts
      <4>3. CASE ~(j < FreeIndex)
        <5>1. FreeIndex \in Slots
          BY <4>1, <4>3, Bounds
        <5>2. handlers[FreeIndex] = NoTopic
          BY <5>1, FreeIndexFacts
        <5> QED
          BY <1>2, <4>1, <4>3, <5>1, <5>2
      <4> QED
        BY <4>2, <4>3
    <3> QED
      BY <2>2, <3>1, <3>4, <3>5
  <2> QED
    BY <1>5, <2>1, <2>2
<1>6. CASE calls' = calls
  BY <1>2, <1>6
<1>7. CASE calls # << >> /\ Return
  <2> HIDE DEF Fits
  <2>1. \A n \in 1..Len(calls') : calls'[n] = calls[n] /\ n \in 1..Len(calls)
    BY <1>1, <1>7, Returned
  <2> QED
    BY <1>2, <2>1
<1>8. ASSUME calls # << >>, Top.op \in { "deliver", "resubscribe" },
             NEW n \in 0..NumHandlers, NEW pc \in Pcs, Goto(n, pc)
      PROVE  \A m \in 1..Len(calls') : Fits(calls'[m])
  <2> DEFINE g == At(Top, n, pc)
  <2>1. /\ g.op = Top.op /\ g.count = Top.count
        /\ Len(calls') = Len(calls) /\ calls'[Len(calls)] = g
        /\ \A m \in 1..Len(calls) : m # Len(calls) => calls'[m] = calls[m]
    BY <1>1, <1>8, Moved
  <2>2. Top = calls[Len(calls)] /\ Len(calls) \in 1..Len(calls)
    BY <1>1, <1>8, TopFacts
  <2> HIDE DEF g
  <2>3. Fits(g)
    BY <1>2, <1>8, <2>1, <2>2
  <2> HIDE DEF Fits
  <2> QED
    BY <1>2, <2>1, <2>3
<1> QED
  BY <1>4, <1>5, <1>6, <1>7, <1>8 DEF CallsGoOn

LEMMA PackedNext ==
    ASSUME Typed, Reserved, Packed, HandlersDoNotSubscribe, [Next]_vars
    PROVE  Packed'
<1> SUFFICES ASSUME ~unsubscribed' PROVE Packed'
  BY DEF Packed
<1>0. ~unsubscribed
  BY UnsubscribedStays
<1>1. CallsTyped /\ calls \in Seq(CallFrames) /\ ClientTyped
  BY TypedParts DEF CallsTyped
<1>2. CASE SubscribeAnswered
  <2> DEFINE m == Top.n
  <2>1. /\ Len(calls') = 0 /\ m \in Slots /\ Top.topic # NoTopic
        /\ handlers \in [Slots -> Topics \cup { NoTopic }]
        /\ handlers' = [handlers EXCEPT ![m] = Top.topic]
    BY <1>1, <1>2, SubscribeAlone, ExchangeAssumption DEF ClientTyped
  <2>2. Top.op = "subscribe" /\ Top = calls[1] /\ 1 \in 1..Len(calls)
    BY <1>2, SubscribeAlone
  <2>3. \A j \in Slots : j < m => handlers[j] # NoTopic
    BY <1>0, <2>2 DEF Packed
  <2> HIDE DEF m
  <2>4. \A i \in Slots : handlers'[i] # NoTopic <=> i = m \/ handlers[i] # NoTopic
    BY <2>1
  <2>5. \A i \in Slots : i \in Nat
    BY Bounds
  <2>6. \A i, j \in Slots : i < j /\ handlers'[j] # NoTopic => handlers'[i] # NoTopic
    BY <1>0, <2>1, <2>3, <2>4, <2>5 DEF Packed
  <2> QED
    BY <2>1, <2>6 DEF Packed
<1>3. CASE UnsubscribeAnswered
  <2>1. calls # << >> /\ Top.op = "unsubscribe"
    BY <1>3 DEF UnsubscribeAnswered, ReadAnswer, Waiting
  <2>2. Top = calls[Len(calls)] /\ Len(calls) \in 1..Len(calls)
    BY <1>1, <2>1, TopFacts
  <2> QED
    BY <1>0, <2>1, <2>2 DEF Packed
<1>4. ASSUME NEW topic \in Topics, SubscribeStarts(topic)
      PROVE  Packed'
  <2> DEFINE f == Call("subscribe", topic, NextPacketId, FreeIndex, 0, "wait")
  <2>1. /\ f \in CallFrames /\ f.n = FreeIndex /\ f.op = "subscribe" /\ Enter(f)
        /\ handlers' = handlers
    BY <1>4 DEF SubscribeStarts
  <2>2. calls = << >>
    BY <1>4, ReservedAtStart
  <2> HIDE DEF f
  <2>3. Len(calls') = 1 /\ calls'[1] = f
    BY <1>1, <2>1, <2>2, Entered
  <2> QED
    BY <1>0, <2>1, <2>3, FreeIndexFacts DEF Packed
<1>5. CASE Client /\ ~SubscribeAnswered /\ ~UnsubscribeAnswered
  BY <1>4, <1>5, <1>0, ClientShape, PackedCalls
<1>6. CASE Network \/ UNCHANGED vars
  <2>1. calls' = calls /\ handlers' = handlers
    BY <1>6 DEF Network, BrokerReceive, BrokerRefuse, BrokerPublish, ConnectionLost, vars
  <2> QED
    BY <1>0, <2>1, PackedCalls DEF CallsGoOn
<1> QED
  BY <1>2, <1>3, <1>4, <1>5, <1>6 DEF Next

\* A step that leaves subscriptions alone.
QuietCalls ==
    \/ calls' = calls
    \/ \E f \in CallFrames : f.op \in { "publish", "deliver" } /\ Enter(f)
    \/ calls # << >> /\ Top.op \in { "publish", "deliver" } /\ Return
    \/ /\ calls # << >> /\ Top.op = "deliver"
       /\ \E n \in 0..NumHandlers, pc \in Pcs : Goto(n, pc)

QuietStep ==
    /\ QuietCalls /\ handlers' = handlers /\ brokerSubs' = brokerSubs
    /\ \/ toBroker' = toBroker
       \/ \E p \in Packets : p.type \in { "PUBLISH", "PUBACK" } /\ Send(p)
       \/ /\ toBroker # << >> /\ toBroker' = Tail(toBroker)
          /\ Head(toBroker).type \notin { "SUBSCRIBE", "UNSUBSCRIBE" }

LEMMA QuietFacts ==
    ASSUME Typed, QuietCalls
    PROVE  /\ \A topic : Leaving(topic)' <=> Leaving(topic)
           /\ \A op \in { "subscribe", "resubscribe" } : Outermost(op)' <=> Outermost(op)
           /\ Subscribing => calls'[1] = calls[1]
           /\ Waiters("UNSUBACK")' = Waiters("UNSUBACK")
<1>1. CallsTyped /\ calls \in Seq(CallFrames) /\ Len(calls) \in Nat
  BY TypedParts DEF CallsTyped
<1>2. CASE calls' = calls
  BY <1>2, CountsNext DEF Leaving, Outermost, Waiters
<1>3. ASSUME NEW f \in CallFrames, f.op \in { "publish", "deliver" }, Enter(f)
      PROVE  /\ \A topic : Leaving(topic)' <=> Leaving(topic)
             /\ \A op \in { "subscribe", "resubscribe" } : Outermost(op)' <=> Outermost(op)
             /\ Subscribing => calls'[1] = calls[1]
             /\ Waiters("UNSUBACK")' = Waiters("UNSUBACK")
  <2>1. /\ Len(calls') = Len(calls) + 1 /\ calls'[Len(calls) + 1] = f
        /\ \A n \in 1..Len(calls) : calls'[n] = calls[n]
        /\ \A n \in 1..Len(calls') : n \in 1..Len(calls) \/ n = Len(calls) + 1
    BY <1>1, <1>3, Entered
  <2>2. \A topic : Leaving(topic)' <=> Leaving(topic)
    BY <1>1, <1>3, <2>1 DEF Leaving
  <2>3. /\ \A op \in { "subscribe", "resubscribe" } : Outermost(op)' <=> Outermost(op)
        /\ Subscribing => calls'[1] = calls[1]
    BY <1>1, <1>3, <2>1 DEF Outermost, Subscribing
  <2>4. f \notin WaitingFor("UNSUBACK")
    BY <1>3 DEF WaitingFor
  <2> QED
    BY <1>3, <2>2, <2>3, <2>4, WaitersEnter
<1>4. ASSUME calls # << >>, Top.op \in { "publish", "deliver" }, Return
      PROVE  /\ \A topic : Leaving(topic)' <=> Leaving(topic)
             /\ \A op \in { "subscribe", "resubscribe" } : Outermost(op)' <=> Outermost(op)
             /\ Subscribing => calls'[1] = calls[1]
             /\ Waiters("UNSUBACK")' = Waiters("UNSUBACK")
  <2>1. /\ Len(calls') = Len(calls) - 1
        /\ \A n \in 1..Len(calls') : calls'[n] = calls[n] /\ n \in 1..Len(calls)
                                     /\ n < Len(calls)
    BY <1>1, <1>4, Returned
  <2>2. Top = calls[Len(calls)] /\ Len(calls) > 0
    BY <1>1, <1>4, TopFacts
  <2>3. \A n \in 1..Len(calls) : n \in 1..Len(calls') \/ n = Len(calls)
    BY <1>1, <2>1
  <2>4. \A topic : Leaving(topic)' <=> Leaving(topic)
    BY <1>4, <2>1, <2>2, <2>3 DEF Leaving
  <2>5. /\ \A op \in { "subscribe", "resubscribe" } : Outermost(op)' <=> Outermost(op)
        /\ Subscribing => calls'[1] = calls[1]
    BY <1>1, <1>4, <2>1, <2>2 DEF Outermost, Subscribing
  <2>6. Top \notin WaitingFor("UNSUBACK")
    BY <1>4 DEF WaitingFor
  <2> QED
    BY <1>4, <2>4, <2>5, <2>6, WaitersReturn
<1>5. ASSUME calls # << >>, Top.op = "deliver", NEW n \in 0..NumHandlers, NEW pc \in Pcs,
             Goto(n, pc)
      PROVE  /\ \A topic : Leaving(topic)' <=> Leaving(topic)
             /\ \A op \in { "subscribe", "resubscribe" } : Outermost(op)' <=> Outermost(op)
             /\ Subscribing => calls'[1] = calls[1]
             /\ Waiters("UNSUBACK")' = Waiters("UNSUBACK")
  <2> DEFINE g == At(Top, n, pc)
  <2>1. /\ g.op = Top.op /\ Len(calls') = Len(calls) /\ calls'[Len(calls)] = g
        /\ \A m \in 1..Len(calls) : m # Len(calls) => calls'[m] = calls[m]
    BY <1>1, <1>5, Moved
  <2>2. /\ Waiters("UNSUBACK") = IF Top \in WaitingFor("UNSUBACK")
                                 THEN Count(Front(calls), WaitingFor("UNSUBACK")) + 1
                                 ELSE Count(Front(calls), WaitingFor("UNSUBACK"))
        /\ Waiters("UNSUBACK")' = IF g \in WaitingFor("UNSUBACK")
                                  THEN Count(Front(calls), WaitingFor("UNSUBACK")) + 1
                                  ELSE Count(Front(calls), WaitingFor("UNSUBACK"))
    BY <1>5, WaitersMove
  <2> HIDE DEF g
  <2>3. Top = calls[Len(calls)] /\ Len(calls) > 0
    BY <1>1, <1>5, TopFacts
  <2>4. \A topic : Leaving(topic)' <=> Leaving(topic)
    BY <1>1, <1>5, <2>1, <2>3 DEF Leaving
  <2>5. /\ \A op \in { "subscribe", "resubscribe" } : Outermost(op)' <=> Outermost(op)
        /\ Subscribing => calls'[1] = calls[1]
    BY <1>1, <1>5, <2>1, <2>3 DEF Outermost, Subscribing
  <2>6. Top \notin WaitingFor("UNSUBACK") /\ g \notin WaitingFor("UNSUBACK")
    BY <1>5, <2>1 DEF WaitingFor
  <2> QED
    BY <2>2, <2>4, <2>5, <2>6
<1> QED
  BY <1>2, <1>3, <1>4, <1>5 DEF QuietCalls

\* A lost answer stays lost while the outermost call stays the same.
LEMMA LostForGood ==
    ASSUME Typed, Typed', Reserved, Reserved', [Next]_vars, up, up', timeouts' = 0,
           Len(calls) > 0, Len(calls') > 0, calls'[1] = calls[1], AnswerLost
    PROVE  AnswerLost'
<1>1. Waiters("SUBACK") = Waiters("SUBACK")' /\ Waiters("SUBACK") \in Nat
  BY SubscribeWaiter, SubscribeWaiterNext, CountsTyped
<1> QED
  BY <1>1, AnswerStaysLost

LEMMA QuietAgrees ==
    ASSUME Typed, Typed', FlowInv, Reserved', Agree, [Next]_vars, up, up', timeouts' = 0,
           QuietStep
    PROVE  Agree'
<1>1. QueuesTyped /\ "SUBACK" \in Acks
  BY TypedParts DEF Acks
<1>2. /\ handlers' = handlers /\ brokerSubs' = brokerSubs
      /\ \A topic : Leaving(topic)' <=> Leaving(topic)
      /\ Outermost("subscribe")' <=> Outermost("subscribe")
      /\ Outermost("resubscribe")' <=> Outermost("resubscribe")
      /\ Subscribing => calls'[1] = calls[1]
      /\ Waiters("UNSUBACK")' = Waiters("UNSUBACK")
  BY QuietFacts DEF QuietStep
<1>3. /\ \A p \in Members(toBroker') : \/ p \in Members(toBroker)
                                       \/ p.type # "SUBSCRIBE" /\ p.type # "UNSUBSCRIBE"
      /\ \A p \in Members(toBroker) : \/ p \in Members(toBroker')
                                      \/ p.type # "SUBSCRIBE" /\ p.type # "UNSUBSCRIBE"
      /\ Asked("SUBACK")' = Asked("SUBACK")
  <2>1. CASE toBroker' = toBroker
    BY <2>1, CountsNext DEF Asked
  <2>2. ASSUME NEW p \in Packets, p.type \in { "PUBLISH", "PUBACK" }, Send(p)
        PROVE  /\ Members(toBroker') = Members(toBroker) \cup { p }
               /\ Asked("SUBACK")' = Asked("SUBACK")
    <3>1. p \notin Asking("SUBACK")
      BY <2>2 DEF Asking
    <3> QED
      BY <1>1, <2>2, <3>1, Sent, CountsNext DEF Asked
  <2>3. ASSUME toBroker # << >>, toBroker' = Tail(toBroker),
               Head(toBroker).type \notin { "SUBSCRIBE", "UNSUBSCRIBE" }
        PROVE  /\ Members(toBroker) = Members(toBroker') \cup { Head(toBroker) }
               /\ Asked("SUBACK")' = Asked("SUBACK")
    <3>1. Head(toBroker) \notin Asking("SUBACK")
      BY <2>3 DEF Asking
    <3> QED
      BY <1>1, <2>3, <3>1, ReceivedOne, CountsNext DEF Asked
  <2> QED
    BY <2>1, <2>2, <2>3 DEF QuietStep
<1>4. Subscribing /\ AnswerLost => AnswerLost'
  BY <1>2, LostForGood DEF FlowInv, Subscribing, Outermost
<1>5. Handled' = Handled /\ \A n : Below(n)' = Below(n)
  BY <1>2 DEF Handled, Below
<1>6. \A topic : Remains(topic)' <=> Remains(topic)
  BY <1>2, <1>3 DEF Remains
<1>7. Named'
  BY <1>2, <1>3 DEF Agree, Named
<1>8. Settled'
  BY <1>2, <1>5, <1>6 DEF Agree, Settled, Subscribing
<1>9. ASSUME NEW before, NEW topic, Progress(before, topic)
      PROVE  /\ \A p \in Members(toBroker') : p.type = "SUBSCRIBE" => p.topic = topic
             /\ brokerSubs' = IF Asked("SUBACK")' > 0 THEN before ELSE before \cup { topic }
  BY <1>2, <1>3, <1>9 DEF Progress
<1>10. Added'
  <2> SUFFICES ASSUME Outermost("subscribe")'
               PROVE  \/ AnswerLost' \/ Waiters("UNSUBACK")' > 0
                      \/ Progress(Handled, calls[1].topic)'
    BY DEF Added
  <2>1. Outermost("subscribe") /\ Subscribing
    BY <1>2 DEF Subscribing
  <2>2. AnswerLost \/ Waiters("UNSUBACK") > 0 \/ Progress(Handled, calls[1].topic)
    BY <2>1 DEF Agree, Added
  <2>3. ASSUME Progress(Handled, calls[1].topic)
        PROVE  Progress(Handled, calls[1].topic)'
    <3>1. /\ \A p \in Members(toBroker') : p.type = "SUBSCRIBE" => p.topic = calls[1].topic
          /\ brokerSubs' = IF Asked("SUBACK")' > 0 THEN Handled ELSE Handled \cup { calls[1].topic }
      BY <1>9, <2>3
    <3> QED
      BY <1>2, <1>5, <2>1, <3>1 DEF Progress
  <2> QED
    BY <1>2, <1>4, <2>1, <2>2, <2>3
<1>11. Restored'
  <2> SUFFICES ASSUME Outermost("resubscribe")'
               PROVE  IF calls'[1].pc = "send" THEN brokerSubs' = Below(calls[1].n)'
                      ELSE AnswerLost' \/ Progress(Below(calls[1].n), handlers[calls[1].n])'
    BY DEF Restored
  <2>1. Outermost("resubscribe") /\ Subscribing
    BY <1>2 DEF Subscribing
  <2>2. IF calls[1].pc = "send" THEN brokerSubs = Below(calls[1].n)
        ELSE AnswerLost \/ Progress(Below(calls[1].n), handlers[calls[1].n])
    BY <2>1 DEF Agree, Restored
  <2>3. Below(calls[1].n)' = Below(calls[1].n)
    BY <1>2, <2>1 DEF Below
  <2>4. ASSUME Progress(Below(calls[1].n), handlers[calls[1].n])
        PROVE  Progress(Below(calls[1].n), handlers[calls[1].n])'
    <3>1. /\ \A p \in Members(toBroker') : p.type = "SUBSCRIBE" => p.topic = handlers[calls[1].n]
          /\ brokerSubs' = IF Asked("SUBACK")' > 0 THEN Below(calls[1].n)
                           ELSE Below(calls[1].n) \cup { handlers[calls[1].n] }
      BY <1>9, <2>4
    <3> QED
      BY <1>2, <2>1, <2>3, <3>1 DEF Progress
  <2> QED
    BY <1>2, <1>4, <2>1, <2>2, <2>3, <2>4
<1> QED
  BY <1>7, <1>8, <1>10, <1>11 DEF Agree

\* Where no call waits for an acknowledgement, nobody asks for one.
LEMMA NothingAsked ==
    ASSUME Typed, Matched, up, timeouts = 0, NEW ack \in Acks, Waiters(ack) = 0
    PROVE  /\ Asked(ack) = 0 /\ Answered(ack) = 0
           /\ \A p \in Members(toBroker) : p \notin Asking(ack)
<1>1. Asked(ack) + Answered(ack) <= 0 /\ Asked(ack) \in Nat /\ Answered(ack) \in Nat
  BY CountsTyped DEF Matched
<1>2. Asked(ack) = 0 /\ Answered(ack) = 0
  BY <1>1
<1>3. toBroker \in Seq(Packets)
  BY DEF Typed, CoreTypes
<1> QED
  BY <1>2, <1>3, MembersTyped DEF Asked

LEMMA NothingWaits ==
    ASSUME Typed, Matched, up, timeouts = 0, calls = << >>
    PROVE  /\ Asked("SUBACK") = 0
           /\ \A p \in Members(toBroker) : p.type # "SUBSCRIBE" /\ p.type # "UNSUBSCRIBE"
<1>1. /\ "SUBACK" \in Acks /\ "UNSUBACK" \in Acks
      /\ Waiters("SUBACK") = 0 /\ Waiters("UNSUBACK") = 0
  BY CountEmpty DEF Acks, Waiters
<1>2. Members(toBroker) \subseteq Packets
  BY MembersTyped DEF Typed, CoreTypes
<1>3. /\ Asked("SUBACK") = 0
      /\ \A p \in Members(toBroker) : p \notin Asking("SUBACK") /\ p \notin Asking("UNSUBACK")
  BY <1>1, NothingAsked
<1> QED
  BY <1>2, <1>3 DEF Asking

LEMMA HandledTopics ==
    ASSUME Typed
    PROVE  Handled \subseteq Topics
<1>1. \A i \in Slots : handlers[i] \in Topics \cup { NoTopic }
  BY DEF Typed, CoreTypes
<1> QED
  BY <1>1 DEF Handled

\* Between calls, what the agreement says is what the application relies on.
LEMMA AgreedBetweenCalls ==
    ASSUME Typed, Matched, Agree, up, timeouts = 0, calls = << >>
    PROVE  Handled = brokerSubs
<1>1. \A p \in Members(toBroker) : p.type # "UNSUBSCRIBE"
  BY NothingWaits
<1>2. ~Subscribing /\ \A topic : ~Leaving(topic)
  BY DEF Subscribing, Outermost, Leaving
<1>3. \A topic \in Topics : topic \in Handled <=> topic \in brokerSubs
  BY <1>1, <1>2 DEF Agree, Settled, Remains
<1>4. brokerSubs \subseteq Topics
  BY DEF Agree, Named, Typed, CoreTypes
<1> QED
  BY <1>3, <1>4, HandledTopics

LEMMA SubscribeAgrees ==
    ASSUME Typed, Typed', FlowInv, Reserved', Agree, HandlersDoNotSubscribe, [Next]_vars,
           up, up', timeouts = 0, timeouts' = 0, NEW topic \in Topics, Subscribe(topic)
    PROVE  Agree'
<1>1. QueuesTyped /\ ClientTyped /\ "SUBACK" \in Acks /\ calls \in Seq(CallFrames)
  BY TypedParts DEF Acks, CallsTyped
<1>2. CASE FreeIndex \notin Slots
  <2>1. QuietStep
    BY <1>2 DEF Subscribe, QuietStep, QuietCalls, broker
  <2> QED
    BY <2>1, QuietAgrees
<1>3. CASE FreeIndex \in Slots
  <2> DEFINE p == Packet("SUBSCRIBE", topic, NextPacketId)
             f == Call("subscribe", topic, NextPacketId, FreeIndex, 0, "wait")
  <2>1. /\ p \in Packets /\ p.type = "SUBSCRIBE" /\ p.topic = topic
        /\ f \in CallFrames /\ f.op = "subscribe" /\ f.topic = topic
    BY <1>1, <1>3, SubscribeFrame
  <2>2. /\ MayCall("subscribe") /\ Send(p) /\ Enter(f) /\ handlers' = handlers
        /\ brokerSubs' = brokerSubs
    BY <1>3 DEF Subscribe, StartRequest
  <2> HIDE DEF p, f
  <2>3. calls = << >>
    BY <2>2 DEF MayCall, HandlersDoNotSubscribe
  <2>4. Len(calls') = 1 /\ calls'[1] = f
    BY <1>1, <2>1, <2>2, <2>3, Entered
  <2>5. p \in Asking("SUBACK") /\ topic # NoTopic
    BY <2>1, ExchangeAssumption DEF Asking
  <2>6. /\ Asked("SUBACK") = 0
        /\ \A q \in Members(toBroker) : q.type # "SUBSCRIBE" /\ q.type # "UNSUBSCRIBE"
    BY <2>3, NothingWaits DEF FlowInv
  <2>7. Members(toBroker') = Members(toBroker) \cup { p } /\ Asked("SUBACK")' = 1
    BY <1>1, <2>1, <2>2, <2>5, <2>6, Sent, CountsNext DEF Asked
  <2>8. Handled' = Handled /\ Handled = brokerSubs
    BY <2>2, <2>3, AgreedBetweenCalls DEF FlowInv, Handled
  <2>9. Named'
    BY <2>1, <2>2, <2>5, <2>7 DEF Agree, Named
  <2>10. Outermost("subscribe")' /\ ~Outermost("resubscribe")' /\ Subscribing'
    BY <2>1, <2>4 DEF Outermost, Subscribing
  <2>11. Progress(Handled, calls[1].topic)'
    BY <2>1, <2>2, <2>4, <2>6, <2>7, <2>8 DEF Progress
  <2> QED
    BY <2>9, <2>10, <2>11 DEF Agree, Settled, Added, Restored
<1> QED
  BY <1>2, <1>3

LEMMA UnsubscribeAgrees ==
    ASSUME Typed, Agree, Undisturbed, Undisturbed', NEW topic \in Topics, Unsubscribe(topic)
    PROVE  Agree'
<1>1. QueuesTyped /\ CallsTyped /\ ClientTyped /\ calls \in Seq(CallFrames) /\ Len(calls) \in Nat
  BY TypedParts DEF CallsTyped
<1> DEFINE p == Packet("UNSUBSCRIBE", topic, NextPacketId)
           f == Call("unsubscribe", topic, NextPacketId, 0, 0, "wait")
<1>2. /\ p \in Packets /\ p.type = "UNSUBSCRIBE" /\ p.topic = topic
      /\ f \in CallFrames /\ f.op = "unsubscribe" /\ f.topic = topic /\ f.pc = "wait"
  BY <1>1, UnsubscribeFrame
<1>3. /\ MayCall("unsubscribe") /\ Send(p) /\ Enter(f) /\ handlers' = handlers
      /\ brokerSubs' = brokerSubs
  BY DEF Unsubscribe, StartRequest, Undisturbed
<1> HIDE DEF p, f
<1>4. /\ Len(calls') = Len(calls) + 1 /\ calls'[Len(calls) + 1] = f
      /\ \A n \in 1..Len(calls) : calls'[n] = calls[n]
      /\ \A n \in 1..Len(calls') : n \in 1..Len(calls) \/ n = Len(calls) + 1
  BY <1>1, <1>2, <1>3, Entered
<1>5. Members(toBroker') = Members(toBroker) \cup { p }
  BY <1>1, <1>2, <1>3, Sent
<1>6. Named'
  BY <1>2, <1>3, <1>5 DEF Agree, Named
<1>7. drops = 0
  <2>1. unsubscribed' /\ drops' = 0
    BY UnsubscribeSent DEF Undisturbed
  <2> QED
    BY <2>1 DEF Unsubscribe, StartRequest
<1>8. ~Outermost("resubscribe")
  BY <1>1, <1>7 DEF Outermost, CallsTyped, CallsFit
<1>9. ~Outermost("resubscribe")' /\ (Outermost("subscribe")' <=> Outermost("subscribe"))
  BY <1>1, <1>2, <1>4, <1>8 DEF Outermost
<1>10. Settled'
  <2>1. \A t : Leaving(t)' <=> Leaving(t) \/ t = topic
    BY <1>1, <1>2, <1>4 DEF Leaving
  <2>2. \A t : Remains(t)' <=> Remains(t) /\ t # topic
    BY <1>2, <1>3, <1>5 DEF Remains
  <2>3. Handled' = Handled
    BY <1>3 DEF Handled
  <2> QED
    BY <1>8, <1>9, <2>1, <2>2, <2>3 DEF Agree, Settled, Subscribing
<1>11. Waiters("UNSUBACK")' > 0
  <2>1. f \in WaitingFor("UNSUBACK")
    BY <1>2 DEF WaitingFor
  <2>2. Waiters("UNSUBACK")' = Waiters("UNSUBACK") + 1 /\ Waiters("UNSUBACK") \in Nat
    BY <1>2, <1>3, <2>1, WaitersEnter, CountsTyped
  <2> QED
    BY <2>2
<1> QED
  BY <1>6, <1>9, <1>10, <1>11 DEF Agree, Added, Restored

LEMMA SubscribeAnsweredAgrees ==
    ASSUME Typed, FlowInv, Agree, up, timeouts = 0, SubscribeAnswered
    PROVE  Agree'
<1>1. /\ Len(calls) = 1 /\ Top = calls[1] /\ Top.op = "subscribe" /\ calls' = << >>
      /\ Top.topic \in Topics /\ Handled' = Handled \cup { Top.topic }
  BY SubscribeAlone DEF FlowInv
<1>2. /\ toBroker' = toBroker /\ brokerSubs' = brokerSubs /\ toClient # << >>
      /\ Head(toClient) \in Packets /\ Head(toClient).type = AckOf("subscribe")
      /\ Top.pc = "wait"
  BY AnswerFacts, ReadFacts DEF SubscribeAnswered
<1>3. toClient \in Seq(Packets) /\ calls \in Seq(CallFrames) /\ Top \in CallFrames
  <2>1. toClient \in Seq(Packets) /\ calls \in Seq(CallFrames) /\ calls # << >>
    BY AnswerFacts DEF Typed, CoreTypes, SubscribeAnswered
  <2> QED
    BY <2>1, TypedParts, TopFacts
<1>4. Answered("SUBACK") # 0
  <2>1. Head(toClient) \in Answering("SUBACK")
    BY <1>2 DEF Answering, AckOf
  <2> QED
    BY <1>2, <1>3, <2>1, MembersTail, MembersTyped DEF Answered
<1>5. Waiters("SUBACK") = 1 /\ Waiters("UNSUBACK") = 0
  <2>1. calls[1] \in WaitingFor("SUBACK") /\ calls[1] \notin WaitingFor("UNSUBACK")
    BY <1>1, <1>2, <1>3 DEF WaitingFor
  <2>2. Waiters("SUBACK") = 1
    BY <1>1, <2>1, SubscribeWaiter DEF FlowInv
  <2>3. \A i \in 1..Len(calls) : calls[i] \notin WaitingFor("UNSUBACK")
    BY <1>1, <2>1
  <2>4. Waiters("UNSUBACK") = 0
    BY <1>3, <2>3, CountFacts DEF Waiters
  <2> QED
    BY <2>2, <2>4
<1>6. "SUBACK" \in Acks /\ "UNSUBACK" \in Acks
  BY DEF Acks
<1>7. Asked("SUBACK") = 0
  <2>1. /\ Asked("SUBACK") \in Nat /\ Answered("SUBACK") \in Nat
        /\ Asked("SUBACK") + Answered("SUBACK") <= Waiters("SUBACK")
    BY <1>6, CountsTyped DEF FlowInv, Matched
  <2> QED
    BY <1>4, <1>5, <2>1
<1>8. brokerSubs = Handled'
  <2>1. Progress(Handled, calls[1].topic)
    BY <1>1, <1>4, <1>5 DEF Agree, Added, Outermost, AnswerLost
  <2> QED
    BY <1>1, <1>7, <2>1 DEF Progress
<1>9. \A p \in Members(toBroker) : p.type # "UNSUBSCRIBE"
  <2>1. \A p \in Members(toBroker) : p \notin Asking("UNSUBACK")
    BY <1>5, <1>6, NothingAsked DEF FlowInv
  <2>2. Members(toBroker) \subseteq Packets
    BY MembersTyped DEF Typed, CoreTypes
  <2> QED
    BY <2>1, <2>2 DEF Asking
<1>10. Named'
  BY <1>2 DEF Agree, Named
<1>11. ~Subscribing' /\ ~Outermost("subscribe")' /\ ~Outermost("resubscribe")'
       /\ \A topic : ~Leaving(topic)'
  BY <1>1 DEF Subscribing, Outermost, Leaving
<1>12. Settled'
  BY <1>2, <1>8, <1>9, <1>11 DEF Settled, Remains
<1> QED
  BY <1>10, <1>11, <1>12 DEF Agree, Added, Restored

LEMMA UnsubscribeAnsweredAgrees ==
    ASSUME Typed, Typed', FlowInv, Packed, Reserved', Agree, [Next]_vars, Undisturbed,
           up', timeouts' = 0, UnsubscribeAnswered
    PROVE  Agree'
<1>1. CallsTyped /\ calls \in Seq(CallFrames) /\ Len(calls) \in Nat /\ up /\ timeouts = 0
  BY TypedParts DEF CallsTyped, Undisturbed
<1> DEFINE t == Top.topic
<1>2. calls # << >> /\ Top.op = "unsubscribe" /\ Return /\ Handled' = Handled \ { t }
  BY UnsubscribeEffect
<1>3. /\ toBroker' = toBroker /\ brokerSubs' = brokerSubs /\ toClient # << >>
      /\ Head(toClient).type = "UNSUBACK"
  BY AnswerFacts, ReadFacts DEF UnsubscribeAnswered, AckOf
<1>4. Top = calls[Len(calls)] /\ Len(calls) \in 1..Len(calls) /\ Top.topic \in Topics
  BY <1>1, <1>2, TopFacts DEF FrameFits
<1> HIDE DEF t
<1>5. /\ Len(calls') = Len(calls) - 1 /\ calls' \in Seq(CallFrames)
      /\ \A n \in 1..Len(calls') : calls'[n] = calls[n] /\ n \in 1..Len(calls)
                                   /\ n < Len(calls)
  BY <1>1, <1>2, Returned
<1>6. ~Outermost("resubscribe")
  <2>1. unsubscribed
    BY <1>2, <1>4 DEF Packed
  <2> QED
    BY <1>1, <2>1 DEF Undisturbed, Outermost, CallsTyped, CallsFit
<1>7. ~Outermost("resubscribe")' /\ (Outermost("subscribe")' => Outermost("subscribe"))
      /\ (Outermost("subscribe") => Outermost("subscribe")' /\ calls'[1] = calls[1])
  BY <1>1, <1>2, <1>4, <1>5, <1>6 DEF Outermost
<1>8. Named'
  BY <1>3 DEF Agree, Named
<1>9. Settled'
  <2>1. Leaving(t) /\ \A u : u # t => (Leaving(u)' <=> Leaving(u))
    <3>1. \A n \in 1..Len(calls) : n \in 1..Len(calls') \/ n = Len(calls)
      BY <1>1, <1>5
    <3> QED
      BY <1>2, <1>4, <1>5, <3>1 DEF Leaving, t
  <2>2. \A u : Remains(u)' <=> Remains(u)
    BY <1>3 DEF Remains
  <2>3. t \in Topics /\ t \notin Handled'
    BY <1>2, <1>4 DEF t
  <2>4. ~Subscribing' => ~Subscribing
    BY <1>6, <1>7 DEF Subscribing
  <2>5. ASSUME NEW u \in Topics, ~Subscribing'
        PROVE  IF Leaving(u)' THEN ~Remains(u)' ELSE u \in Handled' <=> Remains(u)'
    <3>1. IF Leaving(u) THEN ~Remains(u) ELSE u \in Handled <=> Remains(u)
      BY <2>4, <2>5 DEF Agree, Settled
    <3>2. CASE u = t
      BY <2>1, <2>2, <2>3, <3>1, <3>2
    <3>3. CASE u # t
      BY <1>2, <2>1, <2>2, <3>1, <3>3
    <3> QED
      BY <3>2, <3>3
  <2> QED
    BY <2>5 DEF Settled
<1>10. Added'
  <2>1. AnswerLost
    BY <1>1, <1>3, UnsubackAfterSuback DEF FlowInv
  <2>2. Outermost("subscribe")' => AnswerLost'
    BY <1>1, <1>7, <2>1, LostForGood DEF FlowInv, Outermost
  <2> QED
    BY <2>2 DEF Added
<1> QED
  BY <1>7, <1>8, <1>9, <1>10 DEF Agree, Restored

LEMMA ReconnectAgrees ==
    ASSUME Typed, Reconnect
    PROVE  Agree'
<1> DEFINE f == Call("resubscribe", NoTopic, 0, 0, FreeIndex, "send")
<1>1. f \in CallFrames /\ f.op = "resubscribe" /\ f.n = 0 /\ f.pc = "send"
  BY ResubscribeFrame
<1>2. /\ calls = << >> /\ Enter(f) /\ toBroker' = toBroker /\ brokerSubs' = brokerSubs /\ ~up
  BY DEF Reconnect, broker
<1> HIDE DEF f
<1>3. calls \in Seq(CallFrames) /\ toBroker = << >> /\ brokerSubs = {}
  BY <1>2 DEF Typed, CoreTypes, DeadIsEmpty
<1>4. Len(calls') = 1 /\ calls'[1] = f
  BY <1>1, <1>2, <1>3, Entered
<1>5. Named'
  BY <1>2, <1>3, MembersEmpty DEF Named
<1>6. Outermost("resubscribe")' /\ ~Outermost("subscribe")' /\ Subscribing'
  BY <1>1, <1>4 DEF Outermost, Subscribing
<1>7. Below(calls[1].n)' = {}
  BY <1>1, <1>4 DEF Below
<1>8. Restored'
  BY <1>1, <1>2, <1>3, <1>4, <1>7 DEF Restored
<1> QED
  BY <1>5, <1>6, <1>8 DEF Agree, Settled, Added

LEMMA ResubscribeSendAgrees ==
    ASSUME Typed, FlowInv, Packed, Agree, Undisturbed, ResubscribeSend
    PROVE  Agree'
<1>1. /\ calls # << >> /\ Top.op = "resubscribe" /\ Top.pc = "send"
      /\ InCall("resubscribe", "send") /\ handlers' = handlers /\ brokerSubs' = brokerSubs
      /\ up /\ timeouts = 0
  BY DEF ResubscribeSend, InCall, broker, Undisturbed
<1>2. QueuesTyped /\ CallsTyped /\ calls \in Seq(CallFrames)
  BY TypedParts DEF CallsTyped
<1>3. Top = calls[Len(calls)] /\ Len(calls) \in 1..Len(calls) /\ Top \in CallFrames
  BY <1>1, <1>2, TopFacts
<1>4. Len(calls) = 1 /\ Top = calls[1] /\ drops > 0
  BY <1>1, <1>2, <1>3 DEF CallsTyped, CallsFit
<1>5. ~unsubscribed /\ brokerSubs = Below(Top.n)
  <2>1. ~unsubscribed
    BY <1>4 DEF Undisturbed
  <2> QED
    BY <1>1, <1>4, <2>1 DEF Agree, Restored, Outermost
<1>6. "SUBACK" \in Acks /\ "UNSUBACK" \in Acks
  BY DEF Acks
<1>7. Waiters("SUBACK") = 0 /\ Waiters("UNSUBACK") = 0
  <2>1. \A a \in Acks : Top \notin WaitingFor(a)
    BY <1>1, <1>3, WaitsNot
  <2>2. \A i \in 1..Len(calls) :
           calls[i] \notin WaitingFor("SUBACK") /\ calls[i] \notin WaitingFor("UNSUBACK")
    BY <1>3, <1>4, <1>6, <2>1
  <2> QED
    BY <1>2, <2>2, CountFacts DEF Waiters
<1>8. /\ Asked("SUBACK") = 0
      /\ \A q \in Members(toBroker) : q.type # "SUBSCRIBE" /\ q.type # "UNSUBSCRIBE"
  <2>1. /\ Asked("SUBACK") = 0
        /\ \A q \in Members(toBroker) : q \notin Asking("SUBACK") /\ q \notin Asking("UNSUBACK")
    BY <1>1, <1>6, <1>7, NothingAsked DEF FlowInv
  <2>2. Members(toBroker) \subseteq Packets
    BY <1>2, MembersTyped DEF QueuesTyped
  <2> QED
    BY <2>1, <2>2 DEF Asking
<1>9. CASE Top.n = Top.count /\ Return /\ toBroker' = toBroker
  <2>1. Len(calls') = 0
    BY <1>1, <1>2, <1>4, <1>9, Returned
  <2>2. ~Subscribing' /\ ~Outermost("subscribe")' /\ ~Outermost("resubscribe")'
        /\ \A topic : ~Leaving(topic)'
    BY <2>1 DEF Subscribing, Outermost, Leaving
  <2>3. \A j \in Slots : j < Top.count <=> handlers[j] # NoTopic
    BY <1>1, <1>3, <1>4, <1>5 DEF Packed
  <2>4. Top.count \in 0..NumHandlers /\ \A j : j \in Slots <=> j \in Nat /\ j < NumHandlers
    BY <1>3, CallFields, Bounds
  <2>5. \A j : j \in 0..(Top.count - 1) <=> j \in Slots /\ j < Top.count
    BY <2>4, Bounds
  <2>6. brokerSubs = Handled
    BY <1>5, <1>9, <2>3, <2>5 DEF Below, Handled
  <2>7. Handled' = Handled
    BY <1>1 DEF Handled
  <2>8. Named'
    BY <1>1, <1>9 DEF Agree, Named
  <2>9. Settled'
    BY <1>1, <1>8, <1>9, <2>2, <2>6, <2>7 DEF Settled, Remains
  <2> QED
    BY <2>2, <2>8, <2>9 DEF Agree, Added, Restored
<1>10. CASE /\ Top.n < Top.count
            /\ Send(Packet("SUBSCRIBE", handlers[Top.n], NextPacketId))
            /\ Goto(Top.n, "wait")
  <2> DEFINE p == Packet("SUBSCRIBE", handlers[Top.n], NextPacketId)
             g == At(Top, Top.n, "wait")
  <2>1. /\ p \in Packets /\ p.type = "SUBSCRIBE" /\ p.topic = handlers[Top.n]
        /\ g.op = "resubscribe" /\ g.pc = "wait" /\ g.n = Top.n
        /\ Top.n \in Slots /\ Top.n \in 0..NumHandlers /\ "wait" \in Pcs
    BY <1>1, <1>10, ResendFacts
  <2>2. Send(p)
    BY <1>10
  <2>3. Len(calls') = Len(calls) /\ calls'[Len(calls)] = g
    BY <1>1, <1>2, <1>10, <2>1, Moved
  <2> HIDE DEF p, g
  <2>4. p \in Asking("SUBACK")
    BY <2>1 DEF Asking
  <2>5. Members(toBroker') = Members(toBroker) \cup { p } /\ Asked("SUBACK")' = 1
    BY <1>2, <1>8, <2>1, <2>2, <2>4, Sent, CountsNext DEF Asked
  <2>6. handlers[Top.n] # NoTopic
    <3>1. Top.n \in Nat /\ Top.n <= Top.n
      BY <2>1, Bounds
    <3> QED
      BY <1>1, <1>3, <1>4, <1>10, <2>1, <3>1 DEF FlowInv, Intact
  <2>7. Named'
    BY <1>1, <2>1, <2>5, <2>6 DEF Agree, Named
  <2>8. Outermost("resubscribe")' /\ ~Outermost("subscribe")' /\ Subscribing'
    BY <1>4, <2>1, <2>3 DEF Outermost, Subscribing
  <2>9. /\ calls'[1].n = Top.n /\ calls'[1].pc = "wait"
        /\ Below(calls[1].n)' = Below(Top.n)
    <3>1. calls'[1].n = Top.n /\ calls'[1].pc = "wait"
      BY <1>4, <2>1, <2>3
    <3> QED
      BY <1>1, <3>1 DEF Below
  <2>10. Progress(Below(calls[1].n), handlers[calls[1].n])'
    BY <1>1, <1>5, <1>8, <2>1, <2>5, <2>9 DEF Progress
  <2>11. Restored'
    BY <2>9, <2>10 DEF Restored
  <2> QED
    BY <2>7, <2>8, <2>11 DEF Agree, Settled, Added
<1> QED
  BY <1>1, <1>9, <1>10 DEF ResubscribeSend

LEMMA ResubscribeAnsweredAgrees ==
    ASSUME Typed, FlowInv, Agree, up, timeouts = 0, ResubscribeAnswered
    PROVE  Agree'
<1>1. /\ calls # << >> /\ Top.op = "resubscribe" /\ Top.pc = "wait"
      /\ Goto(Top.n + 1, "send") /\ handlers' = handlers /\ toBroker' = toBroker
      /\ toClient # << >> /\ Head(toClient) \in Packets
      /\ Head(toClient).type = AckOf("resubscribe") /\ brokerSubs' = brokerSubs
  BY AnswerFacts, ReadFacts DEF ResubscribeAnswered
<1>2. CallsTyped /\ calls \in Seq(CallFrames) /\ toClient \in Seq(Packets)
  BY TypedParts DEF CallsTyped, QueuesTyped
<1>3. /\ Top = calls[Len(calls)] /\ Len(calls) \in 1..Len(calls) /\ Top \in CallFrames
      /\ FrameFits(Top)
  BY <1>1, <1>2, TopFacts
<1>4. Len(calls) = 1 /\ Top = calls[1]
  BY <1>1, <1>2, <1>3 DEF CallsTyped, CallsFit
<1>5. Answered("SUBACK") # 0
  <2>1. Head(toClient) \in Answering("SUBACK")
    BY <1>1 DEF Answering, AckOf
  <2> QED
    BY <1>1, <1>2, <2>1, MembersTail, MembersTyped DEF Answered
<1>6. Asked("SUBACK") = 0
  <2>1. calls[1] \in WaitingFor("SUBACK")
    BY <1>1, <1>3, <1>4 DEF WaitingFor
  <2>2. Waiters("SUBACK") = 1
    BY <1>4, <2>1, SubscribeWaiter DEF FlowInv
  <2>3. /\ Asked("SUBACK") \in Nat /\ Answered("SUBACK") \in Nat
        /\ Asked("SUBACK") + Answered("SUBACK") <= Waiters("SUBACK")
    BY CountsTyped DEF FlowInv, Matched, Acks
  <2> QED
    BY <1>5, <2>2, <2>3
<1> DEFINE m == Top.n + 1
           g == At(Top, m, "send")
<1>7. m \in 0..NumHandlers /\ "send" \in Pcs /\ Goto(m, "send") /\ Top.n \in Nat /\ m = Top.n + 1
  BY <1>1, <1>3, CallFields, Bounds DEF FrameFits, Pcs
<1> HIDE DEF m
<1>8. /\ g.op = "resubscribe" /\ g.n = m /\ g.pc = "send"
      /\ Len(calls') = Len(calls) /\ calls'[Len(calls)] = g
  BY <1>1, <1>2, <1>7, Moved
<1> HIDE DEF g
<1>9. Outermost("resubscribe")' /\ ~Outermost("subscribe")' /\ Subscribing'
  BY <1>4, <1>8 DEF Outermost, Subscribing
<1>10. Named'
  BY <1>1 DEF Agree, Named
<1>11. brokerSubs = Below(Top.n) \cup { handlers[Top.n] }
  BY <1>1, <1>4, <1>5, <1>6 DEF Agree, Restored, Outermost, AnswerLost, Progress
<1>12. Below(calls[1].n)' = Below(Top.n) \cup { handlers[Top.n] }
  <2>1. \A j : j \in 0..(m - 1) <=> j \in 0..(Top.n - 1) \/ j = Top.n
    BY <1>7
  <2>2. calls'[1].n = m
    BY <1>4, <1>8
  <2> QED
    BY <1>1, <2>1, <2>2 DEF Below
<1>13. Restored'
  BY <1>1, <1>4, <1>8, <1>11, <1>12 DEF Restored
<1> QED
  BY <1>9, <1>10, <1>13 DEF Agree, Settled, Added

LEMMA ReceiveAgrees ==
    ASSUME Typed, Typed', FlowInv, Packed, Reserved', Agree, Undisturbed, [Next]_vars,
           BrokerReceive
    PROVE  Agree'
<1> DEFINE p == Head(toBroker)
<1>1. /\ toBroker # << >> /\ toBroker' = Tail(toBroker) /\ calls' = calls /\ handlers' = handlers
      /\ up /\ up' /\ timeouts = 0 /\ timeouts' = 0
      /\ brokerSubs' = CASE p.type = "SUBSCRIBE"   -> brokerSubs \cup { p.topic }
                         [] p.type = "UNSUBSCRIBE" -> brokerSubs \ { p.topic }
                         [] OTHER                  -> brokerSubs
  BY DEF BrokerReceive, Undisturbed, bounds
<1>2. QueuesTyped /\ CallsTyped /\ calls \in Seq(CallFrames)
  BY TypedParts DEF CallsTyped
<1>3. p \in Packets /\ p \in Members(toBroker) /\ Members(toBroker) = Members(toBroker') \cup { p }
  BY <1>1, <1>2, ReceivedOne
<1>4. \A a \in Acks : /\ Asked(a) = IF p \in Asking(a) THEN Asked(a)' + 1 ELSE Asked(a)'
                      /\ Asked(a)' \in Nat /\ Asked(a) \in Nat /\ Answered(a) \in Nat
                      /\ Waiters(a) \in Nat /\ Asked(a) + Answered(a) <= Waiters(a)
  <2>1. \A a : /\ Count(toBroker, Asking(a)) = IF p \in Asking(a)
                                               THEN Count(toBroker', Asking(a)) + 1
                                               ELSE Count(toBroker', Asking(a))
               /\ Count(toBroker', Asking(a)) \in Nat
    BY <1>1, <1>2, ReceivedOne
  <2>2. \A a : /\ Asked(a) = IF p \in Asking(a) THEN Asked(a)' + 1 ELSE Asked(a)'
               /\ Asked(a)' \in Nat
    BY <2>1, CountsNext DEF Asked
  <2> QED
    BY <1>1, <2>2, CountsTyped DEF FlowInv, Matched
<1>5. "SUBACK" \in Acks /\ "UNSUBACK" \in Acks
  BY DEF Acks
<1>6. Waiters("UNSUBACK")' = Waiters("UNSUBACK") /\ Handled' = Handled
      /\ \A n : Below(n)' = Below(n)
  BY <1>1, <1>5, WaitersSame DEF SameWaiters, Handled, Below
<1>7. /\ Outermost("subscribe")' <=> Outermost("subscribe")
      /\ Outermost("resubscribe")' <=> Outermost("resubscribe")
      /\ Subscribing' <=> Subscribing
      /\ \A topic : Leaving(topic)' <=> Leaving(topic)
  BY <1>1 DEF Outermost, Subscribing, Leaving
<1> HIDE DEF p
<1>8. CASE p.type = "SUBSCRIBE"
  <2>1. p \in Asking("SUBACK") /\ brokerSubs' = brokerSubs \cup { p.topic }
    BY <1>1, <1>3, <1>8 DEF Asking
  <2>2. Waiters("SUBACK") = IF Len(calls) > 0 /\ calls[1] \in WaitingFor("SUBACK") THEN 1 ELSE 0
    BY SubscribeWaiter DEF FlowInv
  <2>3. Asked("SUBACK")' = 0 /\ Asked("SUBACK") > 0 /\ Len(calls) > 0
        /\ calls[1] \in WaitingFor("SUBACK")
    BY <1>4, <1>5, <2>1, <2>2
  <2>4. Subscribing /\ calls[1].pc = "wait"
    BY <2>3 DEF WaitingFor, Subscribing, Outermost
  <2>5. Named'
    BY <1>3, <1>8, <2>1 DEF Agree, Named
  <2>6. ASSUME NEW before, NEW topic, Progress(before, topic)
        PROVE  /\ \A q \in Members(toBroker') : q.type = "SUBSCRIBE" => q.topic = topic
               /\ brokerSubs' = IF Asked("SUBACK")' > 0 THEN before ELSE before \cup { topic }
    BY <1>3, <1>8, <2>1, <2>3, <2>6 DEF Progress
  <2>7. Added'
    <3> SUFFICES ASSUME Outermost("subscribe")'
                 PROVE  Waiters("UNSUBACK")' > 0 \/ Progress(Handled, calls[1].topic)'
      BY DEF Added
    <3>1. Waiters("UNSUBACK") > 0 \/ Progress(Handled, calls[1].topic)
      BY <1>7, <2>3 DEF Agree, Added, AnswerLost
    <3>2. ASSUME Progress(Handled, calls[1].topic)
          PROVE  Progress(Handled, calls[1].topic)'
      <4>1. /\ \A q \in Members(toBroker') : q.type = "SUBSCRIBE" => q.topic = calls[1].topic
            /\ brokerSubs' = IF Asked("SUBACK")' > 0 THEN Handled
                             ELSE Handled \cup { calls[1].topic }
        BY <2>6, <3>2
      <4> QED
        BY <1>1, <1>6, <4>1 DEF Progress
    <3> QED
      BY <1>6, <3>1, <3>2
  <2>8. Restored'
    <3> SUFFICES ASSUME Outermost("resubscribe")'
                 PROVE  Progress(Below(calls[1].n), handlers[calls[1].n])'
      BY <1>1, <2>4 DEF Restored
    <3>1. Progress(Below(calls[1].n), handlers[calls[1].n])
      BY <1>7, <2>3, <2>4 DEF Agree, Restored, AnswerLost
    <3>2. /\ \A q \in Members(toBroker') : q.type = "SUBSCRIBE" => q.topic = handlers[calls[1].n]
          /\ brokerSubs' = IF Asked("SUBACK")' > 0 THEN Below(calls[1].n)
                           ELSE Below(calls[1].n) \cup { handlers[calls[1].n] }
      BY <2>6, <3>1
    <3>3. Below(calls[1].n)' = Below(calls[1].n)
      BY <1>1 DEF Below
    <3> QED
      BY <1>1, <3>2, <3>3 DEF Progress
  <2> QED
    BY <1>7, <2>4, <2>5, <2>7, <2>8 DEF Agree, Settled
<1>9. CASE p.type = "UNSUBSCRIBE"
  <2>1. p \in Asking("UNSUBACK") /\ brokerSubs' = brokerSubs \ { p.topic }
    BY <1>1, <1>3, <1>9 DEF Asking
  <2>2. Waiters("UNSUBACK") > 0
    BY <1>4, <1>5, <2>1
  <2>3. unsubscribed
    <3>1. PICK n \in 1..Len(calls) : calls[n] \in WaitingFor("UNSUBACK")
      BY <1>2, <2>2, CountFacts DEF Waiters
    <3> QED
      BY <3>1 DEF WaitingFor, Packed
  <2>4. ~Outermost("resubscribe")
    BY <1>2, <2>3 DEF Undisturbed, Outermost, CallsTyped, CallsFit
  <2>5. Named'
    BY <1>3, <2>1 DEF Agree, Named
  <2>6. /\ ~Remains(p.topic)
        /\ \A t : (t = p.topic => ~Remains(t)') /\ (t # p.topic => (Remains(t)' <=> Remains(t)))
    BY <1>3, <1>9, <2>1 DEF Remains
  <2>7. Settled'
    <3> SUFFICES ASSUME ~Subscribing', NEW t \in Topics
                 PROVE  IF Leaving(t)' THEN ~Remains(t)' ELSE t \in Handled' <=> Remains(t)'
      BY DEF Settled
    <3>1. IF Leaving(t) THEN ~Remains(t) ELSE t \in Handled <=> Remains(t)
      BY <1>7 DEF Agree, Settled
    <3>2. CASE t = p.topic
      BY <1>6, <1>7, <2>6, <3>1, <3>2
    <3>3. CASE t # p.topic
      BY <1>6, <1>7, <2>6, <3>1, <3>3
    <3> QED
      BY <3>2, <3>3
  <2> QED
    BY <1>6, <1>7, <2>2, <2>4, <2>5, <2>7 DEF Agree, Added, Restored
<1>10. CASE p.type # "SUBSCRIBE" /\ p.type # "UNSUBSCRIBE"
  <2>1. QuietStep
    BY <1>1, <1>10 DEF QuietStep, QuietCalls, p
  <2> QED
    BY <1>1, <2>1, QuietAgrees
<1> QED
  BY <1>8, <1>9, <1>10

\* The other steps on an undisturbed connection leave subscriptions alone.
LEMMA OthersQuiet ==
    ASSUME Typed, up,
           \/ PublishQos0 \/ Publish \/ ReadMessage \/ ReadTooLong \/ ReadStray
           \/ PublishAnswered \/ DeliverMatch \/ CallbackReturn
           \/ DeliverDone \/ DeliverDoneLate
           \/ \E topic \in Topics : BrokerPublish(topic)
           \/ UNCHANGED vars
    PROVE  QuietStep
<1>1. CallsTyped /\ ClientTyped
  BY TypedParts
<1>2. CASE PublishQos0
  <2> DEFINE p == Packet("PUBLISH", NoTopic, 0)
  <2>1. p \in Packets /\ p.type = "PUBLISH"
    BY PacketTyped, Bounds DEF PacketTypes
  <2>2. Send(p) /\ calls' = calls /\ handlers' = handlers /\ brokerSubs' = brokerSubs
    BY <1>2 DEF PublishQos0, broker
  <2> HIDE DEF p
  <2> QED
    BY <2>1, <2>2 DEF QuietStep, QuietCalls
<1>3. CASE Publish
  <2> DEFINE p == Packet("PUBLISH", NoTopic, NextPacketId)
             f == Call("publish", NoTopic, NextPacketId, 0, 0, "wait")
  <2>1. p \in Packets /\ p.type = "PUBLISH" /\ f \in CallFrames /\ f.op = "publish"
    BY <1>1, PublishFrame
  <2>2. Send(p) /\ Enter(f) /\ handlers' = handlers /\ brokerSubs' = brokerSubs
    BY <1>3 DEF Publish, StartRequest
  <2> HIDE DEF p, f
  <2> QED
    BY <2>1, <2>2 DEF QuietStep, QuietCalls
<1>4. CASE ReadMessage
  <2> DEFINE f == Call("deliver", Head(toClient).topic, Head(toClient).id, 0, 0, "match")
  <2>1. f \in CallFrames /\ f.op = "deliver"
    BY <1>4, ReadFacts, DeliverFrame DEF ReadMessage
  <2>2. Enter(f) /\ toBroker' = toBroker /\ handlers' = handlers /\ brokerSubs' = brokerSubs
    BY <1>4 DEF ReadMessage, ReadPacket, broker
  <2> HIDE DEF f
  <2> QED
    BY <2>1, <2>2 DEF QuietStep, QuietCalls
<1>5. CASE ReadStray \/ ReadTooLong
  BY <1>5 DEF ReadStray, ReadTooLong, ReadPacket, broker, QuietStep, QuietCalls
<1>6. CASE PublishAnswered
  BY <1>6 DEF PublishAnswered, ReadAnswer, Waiting, ReadPacket, broker, QuietStep, QuietCalls
<1>7. ASSUME calls # << >>, Top.op = "deliver", handlers' = handlers, brokerSubs' = brokerSubs,
             toBroker' = toBroker, NEW n \in 0..NumHandlers,
             NEW pc \in { "match", "callback" }, Goto(n, pc)
      PROVE  QuietStep
  <2>1. pc \in Pcs
    BY DEF Pcs
  <2> QED
    BY <1>7, <2>1 DEF QuietStep, QuietCalls
<1>8. CASE DeliverMatch
  <2>1. /\ calls # << >> /\ Top.op = "deliver" /\ handlers' = handlers /\ brokerSubs' = brokerSubs
        /\ toBroker' = toBroker /\ Top.n \in 0..NumHandlers /\ Top.n + 1 \in 0..NumHandlers
    BY <1>8, Bounds DEF DeliverMatch, InCall, broker
  <2> QED
    BY <1>7, <1>8, <2>1 DEF DeliverMatch
<1>9. CASE CallbackReturn
  <2>1. /\ calls # << >> /\ Top.op = "deliver" /\ Top.pc = "callback" /\ handlers' = handlers
        /\ brokerSubs' = brokerSubs /\ toBroker' = toBroker
    BY <1>9 DEF CallbackReturn, InCall, broker
  <2>2. Top.n + 1 \in 0..NumHandlers
    BY <1>1, <2>1, TopFacts, Bounds DEF FrameFits
  <2> QED
    BY <1>7, <1>9, <2>1, <2>2 DEF CallbackReturn
<1>10. CASE DeliverDone
  <2> DEFINE p == Packet("PUBACK", NoTopic, Top.id)
  <2>1. /\ calls # << >> /\ Top.op = "deliver" /\ Return /\ handlers' = handlers
        /\ brokerSubs' = brokerSubs /\ (Send(p) \/ toBroker' = toBroker)
    BY <1>10 DEF DeliverDone, InCall, broker
  <2>2. p \in Packets /\ p.type = "PUBACK"
    <3>1. Top \in CallFrames
      BY <1>1, <2>1, TopFacts
    <3>2. Top.id \in Ids
      BY <3>1, CallFields
    <3> QED
      BY <3>2, PacketTyped DEF PacketTypes
  <2> HIDE DEF p
  <2> QED
    BY <2>1, <2>2 DEF QuietStep, QuietCalls
<1>11. CASE DeliverDoneLate
  BY <1>11 DEF DeliverDoneLate, InCall, broker, QuietStep, QuietCalls
<1>12. ASSUME NEW topic \in Topics, BrokerPublish(topic)
       PROVE  QuietStep
  BY <1>12 DEF BrokerPublish, QuietStep, QuietCalls
<1>13. CASE UNCHANGED vars
  BY <1>13 DEF vars, broker, QuietStep, QuietCalls
<1> QED
  BY <1>2, <1>3, <1>4, <1>5, <1>6, <1>8, <1>9, <1>10, <1>11, <1>12,
     <1>13

\* A connection is undisturbed only if it was before.
LEMMA WasUndisturbed ==
    ASSUME Typed, [Next]_vars, ~Reconnect, Undisturbed'
    PROVE  Undisturbed /\ ~CommandTimeout /\ ~BrokerRefuse /\ ~ConnectionLost
<1>1. up /\ timeouts = 0
  BY StaysDown, TimeoutsGrow DEF Undisturbed
<1>2. timeouts \in Nat /\ drops \in Nat /\ refusals \in Nat
  BY TypedParts DEF BoundsTyped
<1>3. ~CommandTimeout
  BY <1>1, <1>2 DEF CommandTimeout, Undisturbed
<1>4. ~ConnectionLost
  BY DEF ConnectionLost, Undisturbed
<1>5. ~BrokerRefuse
  <2>1. refusals' = 0
    BY DEF Undisturbed
  <2>2. BrokerRefuse => refusals' = refusals + 1
    BY DEF BrokerRefuse
  <2> QED
    BY <1>2, <2>1, <2>2
<1>6. refusals' = refusals /\ drops' = drops
  <2>1. CASE Network \/ UNCHANGED vars
    BY <1>4, <1>5, <2>1 DEF Network, BrokerReceive, BrokerPublish, bounds, vars
  <2>2. ASSUME NEW topic \in Topics, Subscribe(topic) \/ Unsubscribe(topic)
        PROVE  refusals' = refusals /\ drops' = drops
    BY <2>2 DEF Subscribe, Unsubscribe, StartRequest
  <2>3. CASE PublishQos0 \/ Publish \/ ReadMessage \/ ReadStray \/ PublishAnswered
             \/ SubscribeAnswered \/ UnsubscribeAnswered \/ ResubscribeAnswered
    BY <2>3 DEF PublishQos0, Publish, StartRequest, ReadMessage, ReadStray, PublishAnswered,
       SubscribeAnswered, UnsubscribeAnswered, ResubscribeAnswered, ReadAnswer, ReadPacket, bounds
  <2>4. CASE \/ DeliverMatch \/ CallbackReturn \/ DeliverDone \/ DeliverDoneLate
             \/ ReadTooLong \/ ResubscribeSend
    BY <2>4 DEF DeliverMatch, CallbackReturn, DeliverDone, DeliverDoneLate, ReadTooLong,
       ResubscribeSend, bounds
  <2> QED
    BY <1>3, <2>1, <2>2, <2>3, <2>4 DEF Next, Client
<1> QED
  BY <1>1, <1>3, <1>4, <1>5, <1>6, UnsubscribedStays DEF Undisturbed

LEMMA SyncedNext ==
    ASSUME Typed, SyncInv, HandlersDoNotSubscribe, [Next]_vars
    PROVE  Synced'
<1> SUFFICES ASSUME Undisturbed' PROVE Agree'
  BY DEF Synced
<1>1. CASE Reconnect
  BY <1>1, ReconnectAgrees
<1>2. CASE ~Reconnect
  <2>1. Undisturbed /\ ~CommandTimeout /\ ~BrokerRefuse /\ ~ConnectionLost
    BY <1>2, WasUndisturbed
  <2>2. up /\ timeouts = 0 /\ up' /\ timeouts' = 0
    BY <2>1 DEF Undisturbed
  <2>3. Agree /\ FlowInv /\ Packed /\ Reserved
    BY <2>1 DEF SyncInv, Synced, FlowInv
  <2>4. Typed' /\ Reserved'
    BY <2>3, NextTyped, ReservedStep
  <2>5. CASE \E topic \in Topics : Subscribe(topic)
    BY <2>2, <2>3, <2>4, <2>5, SubscribeAgrees
  <2>6. CASE \E topic \in Topics : Unsubscribe(topic)
    BY <2>1, <2>3, <2>6, UnsubscribeAgrees
  <2>7. CASE SubscribeAnswered
    BY <2>2, <2>3, <2>7, SubscribeAnsweredAgrees
  <2>8. CASE UnsubscribeAnswered
    BY <2>1, <2>2, <2>3, <2>4, <2>8, UnsubscribeAnsweredAgrees
  <2>9. CASE ResubscribeSend
    BY <2>1, <2>3, <2>9, ResubscribeSendAgrees
  <2>10. CASE ResubscribeAnswered
    BY <2>2, <2>3, <2>10, ResubscribeAnsweredAgrees
  <2>11. CASE BrokerReceive
    BY <2>1, <2>3, <2>4, <2>11, ReceiveAgrees
  <2>12. CASE \/ PublishQos0 \/ Publish \/ ReadMessage \/ ReadTooLong \/ ReadStray
              \/ PublishAnswered \/ DeliverMatch \/ CallbackReturn
              \/ DeliverDone \/ DeliverDoneLate
              \/ \E topic \in Topics : BrokerPublish(topic)
              \/ UNCHANGED vars
    BY <2>2, <2>3, <2>4, <2>12, OthersQuiet, QuietAgrees
  <2> QED
    BY <1>2, <2>1, <2>5, <2>6, <2>7, <2>8, <2>9, <2>10, <2>11, <2>12 DEF Next, Client, Network
<1> QED
  BY <1>1, <1>2

LEMMA AlwaysSynced ==
    ASSUME HandlersDoNotSubscribe
    PROVE  Spec => [](Typed /\ SyncInv)
<1>1. Init => SyncInv
  <2> SUFFICES ASSUME Init PROVE SyncInv
    OBVIOUS
  <2>1. /\ toBroker = << >> /\ calls = << >> /\ brokerSubs = {}
        /\ \A i \in Slots : handlers[i] = NoTopic
    BY DEF Init
  <2>2. Packed
    BY <2>1 DEF Packed
  <2>3. ~Subscribing /\ ~Outermost("subscribe") /\ ~Outermost("resubscribe") /\ Handled = {}
        /\ \A topic : ~Leaving(topic)
    BY <2>1 DEF Subscribing, Outermost, Leaving, Handled
  <2>4. Named /\ Settled
    BY <2>1, <2>3, MembersEmpty DEF Named, Settled, Remains
  <2> QED
    BY <2>2, <2>3, <2>4, InitFlow DEF SyncInv, Synced, Agree, Added, Restored
<1>2. Typed /\ SyncInv /\ [Next]_vars => SyncInv'
  <2> SUFFICES ASSUME Typed, SyncInv, [Next]_vars PROVE SyncInv'
    OBVIOUS
  <2>1. FlowInv'
    BY FlowNext DEF SyncInv
  <2>2. Packed'
    BY PackedNext DEF SyncInv, FlowInv
  <2>3. Synced'
    BY SyncedNext
  <2> QED
    BY <2>1, <2>2, <2>3 DEF SyncInv
<1> QED
  BY <1>1, <1>2, AlwaysTyped, PTL DEF Spec

LEMMA SyncedBetweenCalls ==
    ASSUME Typed, SyncInv, Undisturbed, calls = << >>
    PROVE  Handled = brokerSubs
BY AgreedBetweenCalls DEF SyncInv, Synced, FlowInv, Undisturbed

\* If handlers do not subscribe, the handler table and the broker's subscriptions
\* are the same between calls, through unsubscribes and through any number of
\* reconnects, until a reconnect follows an unsubscribe.
THEOREM SubscriptionsInSync ==
    ASSUME HandlersDoNotSubscribe
    PROVE  Spec => []InSync
<1>1. Typed /\ SyncInv => InSync
  BY SyncedBetweenCalls DEF InSync, Undisturbed
<1> QED
  BY <1>1, AlwaysSynced, PTL
=============================================================================
