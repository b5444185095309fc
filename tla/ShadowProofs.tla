---------------------------- MODULE ShadowProofs ----------------------------
(***************************************************************************)
(* Proofs about Thing Shadow actions: the lists and the calls in progress  *)
(* keep their types; an action is reported at most once if callbacks start *)
(* no action, whatever the handlers of other messages do and however often *)
(* the application connects again; an action that returned SUCCESS waits   *)
(* until it is reported if actions are started between calls only; and     *)
(* then, with room for all topics, the records, the handlers and the       *)
(* broker have exactly the topics that are wanted, until an MQTT call      *)
(* fails.                                                                  *)
(***************************************************************************)
EXTENDS ShadowRecords, FiniteSetTheorems, SequenceTheorems, WellFoundedInduction, TLAPS

-----------------------------------------------------------------------------
(* The inductive invariants *)

ActionPcs == { "subscribe_accepted", "subscribe_rejected", "cleanup", "publish" }
EntryPcs == { "callback", "unsubscribe_accepted", "unsubscribe_rejected",
              "wait_accepted", "wait_rejected" }

\* What the fields of a frame may hold at each place of a call.
FrameFits(f) ==
    /\ f.op = "action" => /\ f.pc \in ActionPcs
                          /\ f.key \in Keys /\ f.token \in Tokens /\ f.i \in AckSlots
    /\ f.op = "ack" => f.pc \in EntryPcs /\ f.token \in Tokens
    /\ f.op = "expire" => f.pc \in EntryPcs \cup { "scan" }
    /\ f.pc \in EntryPcs => f.i \in AckSlots
    /\ f.pc \in { "subscribe_accepted", "subscribe_rejected", "cleanup",
                  "wait_accepted", "wait_rejected" } => f.acc \in SubSlots
    /\ f.pc \in { "subscribe_accepted", "subscribe_rejected" } => f.rej \in SubSlots

StackFits == \A n \in 1..Len(stack) : FrameFits(stack[n])

Typed == TypeOK /\ StackFits

\* A live entry is the one of an action that was published.
Live(i) == ~ackWaitList[i].free

EntriesTyped == \A i \in AckSlots : Live(i) => ackWaitList[i].token \in Tokens

\* Whatever is known of an action is known of a client token that is taken.
Known ==
    /\ \A t \in Tokens, k \in Keys : << t, k >> \in pending => t \in used
    /\ \A i \in AckSlots : Live(i) => ackWaitList[i].token \in used
    /\ \A n \in 1..Len(stack) : stack[n].op = "action" => stack[n].token \in used
    /\ \A t \in Tokens : callbacks[t] > 0 => t \in used

\* An action that is being started has not been published.
Started ==
    \A n \in 1..Len(stack) : stack[n].op = "action" =>
        /\ callbacks[stack[n].token] = 0
        /\ \A k \in Keys : << stack[n].token, k >> \notin pending
        /\ \A i \in AckSlots : Live(i) => ackWaitList[i].token # stack[n].token
        /\ \A m \in 1..Len(stack) :
              stack[m].op = "action" /\ m # n => stack[m].token # stack[n].token

\* An action is published once.
Unique ==
    /\ \A i, j \in AckSlots :
          Live(i) /\ Live(j) /\ ackWaitList[i].token = ackWaitList[j].token => i = j
    /\ \A t \in Tokens, j, k \in Keys :
          << t, j >> \in pending /\ << t, k >> \in pending => j = k

\* The response being handled was the only one, and expired entries are looked
\* for from the bottom of the stack.
Handled ==
    /\ \A n \in 1..Len(stack) : stack[n].op = "ack" =>
          /\ callbacks[stack[n].token] > 0
          /\ \A k \in Keys : << stack[n].token, k >> \notin pending
    /\ \A n \in 1..Len(stack) : stack[n].op = "expire" => n = 1

\* An entry whose action was reported is still there only while the call that
\* reported it is in progress.
Marked(i) ==
    \/ \E n \in 1..Len(stack) : /\ stack[n].op = "ack" /\ stack[n].i = i
                                /\ stack[n].token = ackWaitList[i].token
    \/ /\ Len(stack) > 0 /\ stack[Len(stack)].op = "expire"
       /\ stack[Len(stack)].pc = "callback" /\ stack[Len(stack)].i = i

Reported ==
    \A i \in AckSlots : Live(i) /\ callbacks[ackWaitList[i].token] > 0 => Marked(i)

OnceInv == EntriesTyped /\ Known /\ Started /\ Unique /\ Handled /\ Reported /\ CalledOnce

\* Actions start between calls: below every other call there is at most one,
\* and the entry it chose stays free; an entry that will be freed is one
\* whose action was reported.
Bottom ==
    \A n \in 1..Len(stack) : stack[n].op = "action" => n = 1 /\ ~Live(stack[n].i)

Informed ==
    \A n \in 1..Len(stack) :
        \/ stack[n].op = "ack"
        \/ stack[n].op = "expire" /\ stack[n].pc = "callback"
        => /\ Live(stack[n].i) => callbacks[ackWaitList[stack[n].i].token] > 0

TrackInv == EntriesTyped /\ Bottom /\ Informed /\ ActionTracked

-----------------------------------------------------------------------------
(* The stack of calls *)

LEMMA Slots ==
    /\ AckSlots \subseteq Nat /\ SubSlots \subseteq Nat /\ HandlerSlots \subseteq Nat
    /\ NoSlot \notin AckSlots /\ NoSlot \notin SubSlots /\ NoSlot \notin HandlerSlots
    /\ NoSlot \in Nat
<1>1. PICK n \in 0..NoSlot : AckSlots = 0..(n - 1)
  BY ShadowAssumption
<1>2. n \in Nat /\ n <= 1000
  BY DEF NoSlot
<1>3. AckSlots \subseteq Nat /\ 1000 \notin AckSlots
  BY <1>1, <1>2
<1>4. \A i \in SubSlots \cup HandlerSlots : i \in Nat /\ i # 1000
  <2>1. NoSlot - 1 = 999
    BY DEF NoSlot
  <2>2. \A i \in SubSlots \cup HandlerSlots : i \in 0..(NoSlot - 1)
    BY ShadowAssumption
  <2> QED
    BY <2>1, <2>2
<1> QED
  BY <1>3, <1>4 DEF NoSlot

\* The entries are numbered from 0, so the scan ends at their number.
LEMMA ScanEnds ==
    /\ 0 \in AckSlots \cup { Cardinality(AckSlots) }
    /\ \A i \in AckSlots : i + 1 \in AckSlots \cup { Cardinality(AckSlots) }
<1>1. PICK n \in 0..NoSlot : AckSlots = 0..(n - 1)
  BY ShadowAssumption
<1>2. n \in Nat
  BY DEF NoSlot
<1>3. Cardinality(AckSlots) = n
  <2>1. Cardinality(0..(n - 1)) = IF 0 > n - 1 THEN 0 ELSE (n - 1) - 0 + 1
    BY <1>2, FS_Interval
  <2> QED
    BY <1>1, <1>2, <2>1
<1> QED
  BY <1>1, <1>2, <1>3

LEMMA MinIn ==
    ASSUME NEW S \in SUBSET Nat, S # {}
    PROVE  Min(S) \in S
<1>1. \E x \in S : \A y \in S : ~(<< y, x >> \in OpToRel(<, Nat))
  BY WFMin, NatLessThanWellFounded
<1>2. \A x, y \in Nat : y < x => << y, x >> \in OpToRel(<, Nat)
  BY DEF OpToRel
<1>3. \E x \in S : \A y \in S : ~(y < x)
  BY <1>1, <1>2
<1>4. \E x \in S : \A y \in S : x <= y
  BY <1>3
<1> QED
  BY <1>4 DEF Min

LEMMA PushShape ==
    ASSUME NEW s \in Seq(Frames), NEW f \in Frames
    PROVE  /\ Append(s, f) \in Seq(Frames) /\ Len(Append(s, f)) = Len(s) + 1
           /\ Append(s, f)[Len(s) + 1] = f
           /\ \A n \in 1..Len(s) : Append(s, f)[n] = s[n]
OBVIOUS

LEMMA PopShape ==
    ASSUME NEW s \in Seq(Frames), Len(s) > 0
    PROVE  /\ Front(s) \in Seq(Frames) /\ Len(Front(s)) = Len(s) - 1
           /\ \A n \in 1..(Len(s) - 1) : Front(s)[n] = s[n]
<1> DEFINE m == Len(s) - 1
<1>1. m \in Nat /\ 1 \in Int /\ m \in Int /\ m - 1 + 1 = m
  OBVIOUS
<1>2. \A n \in 1..m : s[n] \in Frames /\ s[1 + n - 1] = s[n]
  BY <1>1
<1> HIDE DEF m
<1>3. /\ SubSeq(s, 1, m) \in Seq(Frames)
      /\ Len(SubSeq(s, 1, m)) = IF 1 <= m THEN m - 1 + 1 ELSE 0
      /\ \A n \in 1..(m - 1 + 1) : SubSeq(s, 1, m)[n] = s[1 + n - 1]
  BY <1>1, <1>2, SubSeqProperties
<1>4. Front(s) = SubSeq(s, 1, m)
  BY DEF Front, m
<1>5. Len(Front(s)) = m
  BY <1>1, <1>3, <1>4
<1> QED
  BY <1>1, <1>2, <1>3, <1>4, <1>5 DEF m

LEMMA TopShape ==
    ASSUME NEW s \in Seq(Frames), Len(s) > 0, NEW f \in Frames
    PROVE  LET r == [s EXCEPT ![Len(s)] = f]
           IN  /\ r \in Seq(Frames) /\ Len(r) = Len(s) /\ r[Len(s)] = f
               /\ \A n \in 1..(Len(s) - 1) : r[n] = s[n]
OBVIOUS

\* The innermost call.
LEMMA TopFacts ==
    ASSUME Typed, stack # << >>
    PROVE  /\ stack \in Seq(Frames) /\ Len(stack) > 0 /\ Len(stack) \in 1..Len(stack)
           /\ Top = stack[Len(stack)] /\ Top \in Frames /\ FrameFits(Top)
<1>1. stack \in Seq(Frames) /\ Len(stack) > 0
  BY DEF Typed, TypeOK
<1>2. Len(stack) \in 1..Len(stack) /\ Top = stack[Len(stack)]
  BY <1>1 DEF Top, Last
<1> QED
  BY <1>1, <1>2 DEF Typed, StackFits

LEMMA FrameFields ==
    ASSUME NEW f \in Frames
    PROVE  /\ f.op \in { "action", "ack", "expire" } /\ f.pc \in Pcs
           /\ f.key \in Keys \cup { None } /\ f.token \in Tokens \cup { None }
           /\ f.sticky \in BOOLEAN /\ f.i \in AckSlots \cup { Cardinality(AckSlots) }
           /\ f.acc \in SubSlots \cup { NoSlot } /\ f.rej \in SubSlots \cup { NoSlot }
           /\ f.ret \in { "SUCCESS", "FAILURE" }
BY DEF Frames

LEMMA NewFrame ==
    ASSUME NEW op \in { "action", "ack", "expire" }, NEW pc \in Pcs,
           NEW key \in Keys \cup { None }, NEW token \in Tokens \cup { None },
           NEW sticky \in BOOLEAN, NEW i \in AckSlots \cup { Cardinality(AckSlots) },
           NEW acc \in SubSlots \cup { NoSlot }, NEW rej \in SubSlots \cup { NoSlot },
           NEW ret \in { "SUCCESS", "FAILURE" }
    PROVE  LET f == Frame(op, pc, key, token, sticky, i, acc, rej, ret)
           IN  /\ f \in Frames /\ f.op = op /\ f.pc = pc /\ f.key = key
               /\ f.token = token /\ f.i = i /\ f.acc = acc /\ f.rej = rej
BY DEF Frame, Frames

\* The innermost call with some of its fields changed.
LEMMA Changed ==
    ASSUME NEW f \in Frames, NEW pc \in Pcs
    PROVE  LET g == [f EXCEPT !.pc = pc]
           IN  /\ g \in Frames /\ g.op = f.op /\ g.pc = pc /\ g.key = f.key
               /\ g.token = f.token /\ g.i = f.i /\ g.acc = f.acc /\ g.rej = f.rej
<1>1. f = [op |-> f.op, pc |-> f.pc, key |-> f.key, token |-> f.token, sticky |-> f.sticky,
           i |-> f.i, acc |-> f.acc, rej |-> f.rej, ret |-> f.ret]
  BY DEF Frames
<1> QED
  BY <1>1, FrameFields DEF Frames

LEMMA ChangedRet ==
    ASSUME NEW f \in Frames, NEW pc \in Pcs
    PROVE  LET g == [f EXCEPT !.pc = pc, !.ret = "FAILURE"]
           IN  /\ g \in Frames /\ g.op = f.op /\ g.pc = pc /\ g.key = f.key
               /\ g.token = f.token /\ g.i = f.i /\ g.acc = f.acc /\ g.rej = f.rej
<1>1. f = [op |-> f.op, pc |-> f.pc, key |-> f.key, token |-> f.token, sticky |-> f.sticky,
           i |-> f.i, acc |-> f.acc, rej |-> f.rej, ret |-> f.ret]
  BY DEF Frames
<1> QED
  BY <1>1, FrameFields DEF Frames

LEMMA ChangedKey ==
    ASSUME Typed, stack # << >>, NEW pc \in Pcs, NEW key \in Keys \cup { None }
    PROVE  LET g == [Top EXCEPT !.pc = pc, !.key = key]
           IN  /\ g \in Frames /\ g.op = Top.op /\ g.pc = pc /\ g.key = key
               /\ g.token = Top.token /\ g.i = Top.i /\ g.acc = Top.acc /\ g.rej = Top.rej
<1> DEFINE f == Top
<1>1. f \in Frames
  BY TopFacts
<1> HIDE DEF f
<1>2. f = [op |-> f.op, pc |-> f.pc, key |-> f.key, token |-> f.token, sticky |-> f.sticky,
           i |-> f.i, acc |-> f.acc, rej |-> f.rej, ret |-> f.ret]
  BY <1>1 DEF Frames
<1>3. LET g == [f EXCEPT !.pc = pc, !.key = key]
      IN  /\ g \in Frames /\ g.op = f.op /\ g.pc = pc /\ g.key = key
          /\ g.token = f.token /\ g.i = f.i /\ g.acc = f.acc /\ g.rej = f.rej
  BY <1>1, <1>2, FrameFields DEF Frames
<1> QED
  BY <1>3 DEF f

LEMMA ChangedAcc ==
    ASSUME Typed, stack # << >>, NEW pc \in Pcs, NEW acc \in SubSlots
    PROVE  LET g == [Top EXCEPT !.pc = pc, !.acc = acc]
           IN  /\ g \in Frames /\ g.op = Top.op /\ g.pc = pc /\ g.key = Top.key
               /\ g.token = Top.token /\ g.i = Top.i /\ g.acc = acc /\ g.rej = Top.rej
<1> DEFINE f == Top
<1>1. f \in Frames
  BY TopFacts
<1> HIDE DEF f
<1>2. f = [op |-> f.op, pc |-> f.pc, key |-> f.key, token |-> f.token, sticky |-> f.sticky,
           i |-> f.i, acc |-> f.acc, rej |-> f.rej, ret |-> f.ret]
  BY <1>1 DEF Frames
<1>3. LET g == [f EXCEPT !.pc = pc, !.acc = acc]
      IN  /\ g \in Frames /\ g.op = f.op /\ g.pc = pc /\ g.key = f.key
          /\ g.token = f.token /\ g.i = f.i /\ g.acc = acc /\ g.rej = f.rej
  BY <1>1, <1>2, FrameFields DEF Frames
<1> QED
  BY <1>3 DEF f

LEMMA Advanced ==
    ASSUME NEW f \in Frames, f.i \in AckSlots
    PROVE  LET g == [f EXCEPT !.i = @ + 1]
               h == [f EXCEPT !.pc = "scan", !.i = @ + 1]
           IN  /\ g \in Frames /\ g.op = f.op /\ g.pc = f.pc /\ g.token = f.token
               /\ g.acc = f.acc /\ g.rej = f.rej /\ g.key = f.key
               /\ h \in Frames /\ h.op = f.op /\ h.pc = "scan" /\ h.token = f.token
               /\ h.key = f.key
<1>1. f.i + 1 \in AckSlots \cup { Cardinality(AckSlots) }
  BY ScanEnds
<1>2. LET g == [f EXCEPT !.i = @ + 1]
      IN  /\ g \in Frames /\ g.op = f.op /\ g.pc = f.pc /\ g.token = f.token
          /\ g.acc = f.acc /\ g.rej = f.rej /\ g.key = f.key
  BY <1>1, FrameFields DEF Frames
<1>3. LET h == [f EXCEPT !.pc = "scan", !.i = @ + 1]
      IN  h \in Frames /\ h.op = f.op /\ h.pc = "scan" /\ h.token = f.token
          /\ h.key = f.key
  BY <1>1, FrameFields DEF Frames, Pcs
<1> QED
  BY <1>2, <1>3

LEMMA PushTyped ==
    ASSUME Typed, NEW f \in Frames, FrameFits(f), Push(f)
    PROVE  stack' \in Seq(Frames) /\ StackFits'
<1>1. stack \in Seq(Frames) /\ StackFits
  BY DEF Typed, TypeOK
<1>2. /\ stack' \in Seq(Frames) /\ Len(stack') = Len(stack) + 1
      /\ stack'[Len(stack) + 1] = f /\ \A n \in 1..Len(stack) : stack'[n] = stack[n]
  BY <1>1, PushShape DEF Push
<1>3. \A n \in 1..Len(stack') : n \in 1..Len(stack) \/ n = Len(stack) + 1
  BY <1>1, <1>2
<1>4. StackFits'
  BY <1>1, <1>2, <1>3 DEF StackFits
<1> QED
  BY <1>2, <1>4

LEMMA ReturnTyped ==
    ASSUME Typed, stack # << >>, Return
    PROVE  stack' \in Seq(Frames) /\ StackFits'
<1>1. stack \in Seq(Frames) /\ StackFits /\ Len(stack) > 0
  BY TopFacts DEF Typed
<1>2. /\ stack' \in Seq(Frames) /\ Len(stack') = Len(stack) - 1
      /\ \A n \in 1..(Len(stack) - 1) : stack'[n] = stack[n]
  BY <1>1, PopShape DEF Return
<1>3. \A n \in 1..Len(stack') : n \in 1..Len(stack) /\ n \in 1..(Len(stack) - 1)
  BY <1>1, <1>2
<1>4. StackFits'
  BY <1>1, <1>2, <1>3 DEF StackFits
<1> QED
  BY <1>2, <1>4

LEMMA ContinueTyped ==
    ASSUME Typed, stack # << >>, NEW f \in Frames, FrameFits(f), Continue(f)
    PROVE  stack' \in Seq(Frames) /\ StackFits'
<1>1. stack \in Seq(Frames) /\ StackFits /\ Len(stack) > 0
  BY TopFacts DEF Typed
<1>2. /\ stack' \in Seq(Frames) /\ Len(stack') = Len(stack) /\ stack'[Len(stack)] = f
      /\ \A n \in 1..(Len(stack) - 1) : stack'[n] = stack[n]
  BY <1>1, TopShape DEF Continue
<1>3. \A n \in 1..Len(stack') : n \in 1..Len(stack)
                                /\ (n \in 1..(Len(stack) - 1) \/ n = Len(stack))
  BY <1>1, <1>2
<1>4. StackFits'
  BY <1>1, <1>2, <1>3 DEF StackFits
<1> QED
  BY <1>2, <1>4

-----------------------------------------------------------------------------
(* Types *)

EntryRecords == [free : BOOLEAN, token : Tokens \cup { None }, key : Keys \cup { None }]
TopicRecords == [free : BOOLEAN, topic : Topics \cup { NoTopic }, count : 0..255,
                 sticky : BOOLEAN]

MqttTyped ==
    /\ messageHandlers \in [HandlerSlots -> SubSlots \cup { NoSlot }]
    /\ brokerSubs \subseteq Topics \cup { NoTopic }
    /\ failures \in 0..MaxFailures

RestTyped ==
    /\ pending \subseteq Tokens \X Keys
    /\ expired \subseteq AckSlots
    /\ tracked \subseteq Tokens
    /\ callbacks \in [Tokens -> Nat]
    /\ persistent \subseteq Keys
    /\ used \subseteq Tokens
    /\ connects \in 0..MaxConnects

LEMMA TypedParts ==
    Typed <=> /\ ackWaitList \in [AckSlots -> EntryRecords]
              /\ subscriptionList \in [SubSlots -> TopicRecords]
              /\ MqttTyped /\ RestTyped
              /\ stack \in Seq(Frames) /\ StackFits
BY DEF Typed, TypeOK, EntryRecords, TopicRecords, MqttTyped, RestTyped

LEMMA TypedPartsNext ==
    ASSUME ackWaitList' \in [AckSlots -> EntryRecords],
           subscriptionList' \in [SubSlots -> TopicRecords],
           MqttTyped', RestTyped', stack' \in Seq(Frames), StackFits'
    PROVE  Typed'
BY DEF Typed, TypeOK, EntryRecords, TopicRecords, MqttTyped, RestTyped

\* A record of the subscription list with a field changed.
LEMMA RecordTyped ==
    ASSUME NEW list \in [SubSlots -> TopicRecords], NEW i \in SubSlots
    PROVE  /\ \A b \in BOOLEAN : [list EXCEPT ![i].free = b] \in [SubSlots -> TopicRecords]
           /\ \A t \in Topics : [list EXCEPT ![i].topic = t] \in [SubSlots -> TopicRecords]
<1>1. \A r \in TopicRecords : [list EXCEPT ![i] = r] \in [SubSlots -> TopicRecords]
  OBVIOUS
<1>2. /\ list[i] = [free |-> list[i].free, topic |-> list[i].topic, count |-> list[i].count,
                    sticky |-> list[i].sticky]
      /\ list[i].free \in BOOLEAN /\ list[i].topic \in Topics \cup { NoTopic }
      /\ list[i].count \in 0..255 /\ list[i].sticky \in BOOLEAN
  BY DEF TopicRecords
<1>3. ASSUME NEW b \in BOOLEAN
      PROVE  [list[i] EXCEPT !.free = b] \in TopicRecords
  <2>1. [list[i] EXCEPT !.free = b] = [free |-> b, topic |-> list[i].topic,
                                       count |-> list[i].count, sticky |-> list[i].sticky]
    BY <1>2
  <2> QED
    BY <1>2, <2>1, Zenon DEF TopicRecords
<1>4. ASSUME NEW t \in Topics
      PROVE  [list[i] EXCEPT !.topic = t] \in TopicRecords
  BY <1>2 DEF TopicRecords
<1> QED
  BY <1>1, <1>3, <1>4

LEMMA FindFacts ==
    ASSUME Typed, NEW topic
    PROVE  \/ Find(topic) = NoSlot
           \/ /\ Find(topic) \in SubSlots
              /\ ~subscriptionList[Find(topic)].free
              /\ subscriptionList[Find(topic)].topic = topic
<1> DEFINE found == { i \in SubSlots : ~subscriptionList[i].free
                                        /\ subscriptionList[i].topic = topic }
<1>1. found \in SUBSET Nat
  BY Slots
<1>2. found # {} => Min(found) \in found
  BY <1>1, MinIn
<1> QED
  BY <1>2 DEF Find

LEMMA FreeFacts ==
    /\ FreeAcks # {} => Min(FreeAcks) \in FreeAcks
    /\ FreeSubs # {} => Min(FreeSubs) \in FreeSubs
    /\ FreeHandlers # {} => Min(FreeHandlers) \in FreeHandlers
    /\ FreeAcks \subseteq AckSlots /\ FreeSubs \subseteq SubSlots
    /\ FreeHandlers \subseteq HandlerSlots
<1>1. /\ FreeAcks \in SUBSET Nat /\ FreeSubs \in SUBSET Nat
      /\ FreeHandlers \in SUBSET Nat
  BY Slots DEF FreeAcks, FreeSubs, FreeHandlers
<1>2. /\ FreeAcks \subseteq AckSlots /\ FreeSubs \subseteq SubSlots
      /\ FreeHandlers \subseteq HandlerSlots
  BY DEF FreeAcks, FreeSubs, FreeHandlers
<1> QED
  BY <1>1, <1>2, MinIn

LEMMA SubscribeTyped ==
    ASSUME Typed, NEW slot \in SubSlots, MqttSubscribe(slot) \/ MqttSubscribeFails(slot)
    PROVE  MqttTyped'
<1>1. /\ MqttTyped /\ subscriptionList[slot].topic \in Topics \cup { NoTopic }
      /\ MaxFailures \in Nat
  BY TypedParts, ShadowAssumption DEF TopicRecords
<1>2. CASE MqttSubscribe(slot)
  <2>1. Min(FreeHandlers) \in HandlerSlots
    BY <1>2, FreeFacts DEF MqttSubscribe
  <2> QED
    BY <1>1, <1>2, <2>1 DEF MqttSubscribe, MqttTyped
<1>3. CASE MqttSubscribeFails(slot)
  BY <1>1, <1>3 DEF MqttSubscribeFails, MqttTyped
<1> QED
  BY <1>2, <1>3

LEMMA UnsubscribeTyped ==
    ASSUME Typed, NEW topic, MqttUnsubscribe(topic) \/ MqttUnsubscribeFails(topic)
    PROVE  MqttTyped'
<1>1. MqttTyped /\ MaxFailures \in Nat
  BY TypedParts, ShadowAssumption
<1>2. CASE MqttUnsubscribe(topic)
  BY <1>1, <1>2 DEF MqttUnsubscribe, MqttTyped
<1>3. CASE MqttUnsubscribeFails(topic)
  BY <1>1, <1>3 DEF MqttUnsubscribeFails, MqttTyped
<1> QED
  BY <1>2, <1>3

LEMMA TypedInit == Init => Typed
<1> SUFFICES ASSUME Init
             PROVE  Typed
  OBVIOUS
<1>1. stack = << >> /\ << >> \in Seq(Frames) /\ Len(stack) = 0
  BY DEF Init
<1>2. StackFits
  BY <1>1 DEF StackFits
<1>3. ackWaitList \in [AckSlots -> EntryRecords]
  BY DEF Init, EntryRecords
<1>4. subscriptionList \in [SubSlots -> TopicRecords]
  BY DEF Init, TopicRecords
<1>5. MqttTyped
  BY ShadowAssumption DEF Init, MqttTyped
<1>6. RestTyped
  BY ShadowAssumption DEF Init, RestTyped
<1> QED
  BY <1>1, <1>2, <1>3, <1>4, <1>5, <1>6, TypedParts

\* A new action.
LEMMA ActionTyped ==
    ASSUME Typed, NEW token \in Tokens, NEW key \in Keys, NEW sticky \in BOOLEAN,
           NEW pc \in ActionPcs, NEW acc \in SubSlots \cup { NoSlot },
           NEW rej \in SubSlots \cup { NoSlot }, FreeAcks # {},
           Push(Frame("action", pc, key, token, sticky, Min(FreeAcks), acc, rej, "SUCCESS")),
           pc # "publish" => acc \in SubSlots,
           pc \in { "subscribe_accepted", "subscribe_rejected" } => rej \in SubSlots
    PROVE  stack' \in Seq(Frames) /\ StackFits'
<1> DEFINE f == Frame("action", pc, key, token, sticky, Min(FreeAcks), acc, rej, "SUCCESS")
<1>1. Min(FreeAcks) \in AckSlots
  BY FreeFacts
<1>2. pc \in Pcs /\ pc \notin EntryPcs
  BY DEF ActionPcs, Pcs, EntryPcs
<1>3. /\ f \in Frames /\ f.op = "action" /\ f.pc = pc /\ f.key = key
      /\ f.token = token /\ f.i = Min(FreeAcks) /\ f.acc = acc /\ f.rej = rej
  BY <1>1, <1>2, NewFrame
<1> HIDE DEF f
<1>4. FrameFits(f)
  BY <1>1, <1>2, <1>3 DEF FrameFits, ActionPcs
<1> QED
  BY <1>3, <1>4, PushTyped DEF f

LEMMA ApplicationTyped == ASSUME Typed, Application PROVE Typed'
<1> USE DEF records, mqtt, history
<1>1. PICK token \in Tokens :
        \/ ActionRefused(token)
        \/ \E key \in Keys : \E sticky \in Stickies[key] :
              \/ ActionShares(token, key, sticky)
              \/ ActionSubscribes(token, key, sticky)
              \/ ActionOutOfRecords(token, key, sticky)
  BY DEF Application
<1>2. CASE ActionRefused(token)
  <2>1. /\ UNCHANGED << ackWaitList, subscriptionList, messageHandlers, brokerSubs, pending,
                        expired, stack, tracked, callbacks, persistent, failures, connects >>
        /\ used' = used \cup { token }
    BY <1>2 DEF ActionRefused
  <2>2. RestTyped' /\ MqttTyped' /\ StackFits'
    BY <2>1, TypedParts DEF RestTyped, MqttTyped, StackFits
  <2> QED
    BY <2>1, <2>2, TypedParts, TypedPartsNext
<1>3. ASSUME NEW key \in Keys, NEW sticky \in Stickies[key],
             \/ ActionShares(token, key, sticky)
             \/ ActionSubscribes(token, key, sticky)
             \/ ActionOutOfRecords(token, key, sticky)
      PROVE  Typed'
  <2>0. sticky \in BOOLEAN
    BY ShadowAssumption
  <2>1. /\ UNCHANGED << ackWaitList, messageHandlers, brokerSubs, pending,
                        expired, tracked, callbacks, persistent, failures, connects >>
        /\ used' = used \cup { token } /\ FreeAcks # {}
    BY <1>3 DEF ActionShares, ActionSubscribes, ActionOutOfRecords
  <2>2. RestTyped' /\ MqttTyped' /\ ackWaitList' \in [AckSlots -> EntryRecords]
    BY <2>1, TypedParts DEF RestTyped, MqttTyped
  <2>3. CASE ActionShares(token, key, sticky)
    <3>1. subscriptionList' \in [SubSlots -> TopicRecords]
      <4> SUFFICES ASSUME NEW i \in SubSlots
                   PROVE  LET r == subscriptionList[i]
                          IN  /\ r \in TopicRecords
                              /\ [r EXCEPT !.count = (@ + 1) % 256, !.sticky = sticky]
                                    \in TopicRecords
        BY <2>3 DEF ActionShares, IncrementSubscriptionCnt
      <4>1. subscriptionList[i] \in TopicRecords
        BY TypedParts
      <4>2. (subscriptionList[i].count + 1) % 256 \in 0..255
        BY <4>1 DEF TopicRecords
      <4>3. ASSUME NEW r \in TopicRecords, NEW c \in 0..255, NEW s \in BOOLEAN
            PROVE  [r EXCEPT !.count = c, !.sticky = s] \in TopicRecords
        <5>1. /\ r = [free |-> r.free, topic |-> r.topic, count |-> r.count,
                      sticky |-> r.sticky]
              /\ r.free \in BOOLEAN /\ r.topic \in Topics \cup { NoTopic }
          BY DEF TopicRecords
        <5>2. [r EXCEPT !.count = c, !.sticky = s] =
                 [free |-> r.free, topic |-> r.topic, count |-> c, sticky |-> s]
          <6>1. [r EXCEPT !.count = c] =
                   [free |-> r.free, topic |-> r.topic, count |-> c, sticky |-> r.sticky]
            BY <5>1
          <6> DEFINE q == [r EXCEPT !.count = c]
          <6> HIDE DEF q
          <6>2. q = [free |-> r.free, topic |-> r.topic, count |-> c, sticky |-> r.sticky]
            BY <6>1 DEF q
          <6>3. [q EXCEPT !.sticky = s] =
                   [free |-> r.free, topic |-> r.topic, count |-> c, sticky |-> s]
            BY <6>2
          <6> QED
            BY <6>3 DEF q
        <5> QED
          BY <5>1, <5>2, Zenon DEF TopicRecords
      <4> DEFINE c == (subscriptionList[i].count + 1) % 256
      <4> HIDE DEF c
      <4>4. c \in 0..255
        BY <4>2 DEF c
      <4>5. [subscriptionList[i] EXCEPT !.count = c, !.sticky = sticky] \in TopicRecords
        BY <2>0, <4>1, <4>3, <4>4
      <4>6. [subscriptionList[i] EXCEPT !.count = (@ + 1) % 256, !.sticky = sticky] =
               [subscriptionList[i] EXCEPT !.count = c, !.sticky = sticky]
        BY DEF c
      <4> QED
        BY <4>1, <4>5, <4>6
    <3>2. stack' \in Seq(Frames) /\ StackFits'
      <4>1. Push(Frame("action", "publish", key, token, sticky, Min(FreeAcks),
                       NoSlot, NoSlot, "SUCCESS"))
        BY <2>3 DEF ActionShares
      <4>2. "publish" \in ActionPcs
        BY DEF ActionPcs
      <4> QED
        BY <2>0, <2>1, <4>1, <4>2, ActionTyped
    <3> QED
      BY <2>2, <3>1, <3>2, TypedPartsNext
  <2>4. CASE ActionSubscribes(token, key, sticky)
    <3> DEFINE acc == Min(FreeSubs)
               rej == Min(FreeSubs \ { acc })
    <3>1. /\ subscriptionList' =
                [subscriptionList EXCEPT ![acc].free = FALSE, ![rej].free = FALSE,
                                         ![acc].topic = << key, "accepted" >>]
          /\ Push(Frame("action", "subscribe_accepted", key, token, sticky,
                        Min(FreeAcks), acc, rej, "SUCCESS"))
          /\ Cardinality(FreeSubs) >= 2
      BY <2>4 DEF ActionSubscribes
    <3>2. acc \in FreeSubs /\ rej \in FreeSubs \ { acc }
      <4>1. FreeSubs \subseteq SubSlots /\ FreeSubs \in SUBSET Nat
        BY Slots, FreeFacts
      <4>2. FreeSubs # {}
        <5>1. Cardinality(FreeSubs) >= 2
          BY <3>1
        <5>2. Cardinality({}) = 0
          BY FS_EmptySet
        <5> QED
          BY <5>1, <5>2
      <4>3. FreeSubs \ { acc } # {}
        <5>1. SUFFICES ASSUME FreeSubs \ { acc } = {}
                       PROVE  FALSE
          OBVIOUS
        <5>2. FreeSubs = { acc }
          BY <4>2, <5>1
        <5>3. Cardinality(FreeSubs) = 1
          BY <5>2, FS_Singleton
        <5> QED
          BY <3>1, <5>3
      <4> QED
        BY <4>1, <4>2, <4>3, MinIn
    <3>3. acc \in SubSlots /\ rej \in SubSlots /\ acc # rej
      BY <3>2, FreeFacts
    <3> HIDE DEF acc, rej
    <3>4. subscriptionList' \in [SubSlots -> TopicRecords]
      <4>1. /\ subscriptionList \in [SubSlots -> TopicRecords]
            /\ << key, "accepted" >> \in Topics
        BY TypedParts DEF Topics, Status
      <4> DEFINE one == [subscriptionList EXCEPT ![acc].free = FALSE]
                 two == [one EXCEPT ![rej].free = FALSE]
      <4>2. one \in [SubSlots -> TopicRecords]
        BY <3>3, <4>1, RecordTyped
      <4>3. two \in [SubSlots -> TopicRecords]
        <5> HIDE DEF one
        <5> QED
          BY <3>3, <4>2, RecordTyped
      <4>4. subscriptionList' = [two EXCEPT ![acc].topic = << key, "accepted" >>]
        BY <3>1
      <4> HIDE DEF two
      <4> QED
        BY <3>3, <4>1, <4>3, <4>4, RecordTyped
    <3>5. stack' \in Seq(Frames) /\ StackFits'
      <4>1. "subscribe_accepted" \in ActionPcs
        BY DEF ActionPcs
      <4> QED
        BY <2>0, <2>1, <3>1, <3>3, <4>1, ActionTyped
    <3> QED
      BY <2>2, <3>4, <3>5, TypedPartsNext
  <2>5. CASE ActionOutOfRecords(token, key, sticky)
    <3> DEFINE acc == IF FreeSubs = {} THEN NoSlot ELSE Min(FreeSubs)
               old == acc # NoSlot /\ subscriptionList[acc].count = 1
               pc == IF old THEN "cleanup" ELSE "publish"
    <3>1. /\ UNCHANGED subscriptionList
          /\ Push(Frame("action", pc, key, token, sticky, Min(FreeAcks), acc, NoSlot,
                        "SUCCESS"))
      BY <2>5 DEF ActionOutOfRecords
    <3>2. acc \in SubSlots \cup { NoSlot } /\ (pc # "publish" => acc \in SubSlots)
      BY FreeFacts
    <3>3. pc \in ActionPcs /\ pc \notin { "subscribe_accepted", "subscribe_rejected" }
      BY DEF ActionPcs
    <3> HIDE DEF acc, pc
    <3>4. stack' \in Seq(Frames) /\ StackFits'
      BY <2>0, <2>1, <3>1, <3>2, <3>3, ActionTyped
    <3> QED
      BY <2>2, <3>1, <3>4, TypedParts, TypedPartsNext
  <2> QED
    BY <1>3, <2>3, <2>4, <2>5
<1> QED
  BY <1>1, <1>2, <1>3

\* What an action does after its subscribe calls.
LEMMA ActionStepTyped ==
    ASSUME Typed,
           \/ SubscribedAccepted \/ SubscribedRejected \/ SubscribeFailed \/ Cleanup
           \/ Published \/ PublishFailed
    PROVE  Typed'
<1> USE DEF records, mqtt, history
<1>0. stack # << >> /\ Top.pc \in ActionPcs
  BY DEF SubscribedAccepted, SubscribedRejected, SubscribeFailed, Cleanup, Published,
         PublishFailed, At, ActionPcs
<1>1. /\ Top \in Frames /\ FrameFits(Top) /\ Top.op \in { "action", "ack", "expire" }
      /\ Top.sticky \in BOOLEAN
  BY <1>0, TopFacts, FrameFields
<1>2. Top.op = "action"
  BY <1>0, <1>1 DEF FrameFits, ActionPcs, EntryPcs
<1>3. Top.key \in Keys /\ Top.token \in Tokens /\ Top.i \in AckSlots
  BY <1>1, <1>2 DEF FrameFits
<1>4. \A pc \in ActionPcs : pc \in Pcs /\ pc \notin EntryPcs
                             /\ pc \notin { "wait_accepted", "wait_rejected" }
  BY DEF ActionPcs, EntryPcs, Pcs
<1>5. ASSUME NEW pc \in ActionPcs, Goto(pc), pc # "publish" => Top.acc \in SubSlots,
             pc \in { "subscribe_accepted", "subscribe_rejected" } => Top.rej \in SubSlots
      PROVE  stack' \in Seq(Frames) /\ StackFits'
  <2> DEFINE f == [Top EXCEPT !.pc = pc]
  <2>1. /\ f \in Frames /\ f.op = Top.op /\ f.pc = pc /\ f.key = Top.key
        /\ f.token = Top.token /\ f.i = Top.i /\ f.acc = Top.acc /\ f.rej = Top.rej
    BY <1>1, <1>4, Changed
  <2>2. Continue(f)
    BY <1>5 DEF Goto
  <2> HIDE DEF f
  <2>3. FrameFits(f)
    BY <1>2, <1>3, <1>4, <1>5, <2>1 DEF FrameFits
  <2> QED
    BY <1>0, <2>1, <2>2, <2>3, ContinueTyped
<1>6. /\ ackWaitList \in [AckSlots -> EntryRecords]
      /\ subscriptionList \in [SubSlots -> TopicRecords]
      /\ MqttTyped /\ RestTyped
  BY TypedParts
<1>7. CASE SubscribedAccepted
  <2>1. Top.acc \in SubSlots /\ Top.rej \in SubSlots
    BY <1>1, <1>7 DEF SubscribedAccepted, At, FrameFits
  <2>2. MqttTyped'
    BY <1>7, <2>1, SubscribeTyped DEF SubscribedAccepted
  <2>3. subscriptionList' \in [SubSlots -> TopicRecords]
    <3> DEFINE one == [subscriptionList EXCEPT ![Top.acc].count = 1]
               two == [one EXCEPT ![Top.acc].sticky = Top.sticky]
    <3>1. << Top.key, "rejected" >> \in Topics
      BY <1>3 DEF Topics, Status
    <3>2. one \in [SubSlots -> TopicRecords]
      BY <1>6, <2>1 DEF TopicRecords
    <3>3. two \in [SubSlots -> TopicRecords]
      <4> HIDE DEF one
      <4> QED
        BY <1>1, <2>1, <3>2 DEF TopicRecords
    <3>4. subscriptionList' = [two EXCEPT ![Top.rej].topic = << Top.key, "rejected" >>]
      BY <1>7 DEF SubscribedAccepted
    <3> HIDE DEF two
    <3> QED
      BY <2>1, <3>1, <3>3, <3>4 DEF TopicRecords
  <2>4. stack' \in Seq(Frames) /\ StackFits'
    BY <1>5, <1>7, <2>1 DEF SubscribedAccepted, ActionPcs
  <2>5. RestTyped' /\ UNCHANGED ackWaitList
    BY <1>6, <1>7 DEF SubscribedAccepted, RestTyped
  <2> QED
    BY <1>6, <2>2, <2>3, <2>4, <2>5, TypedPartsNext
<1>8. CASE SubscribedRejected
  <2>1. Top.acc \in SubSlots /\ Top.rej \in SubSlots
    BY <1>1, <1>8 DEF SubscribedRejected, At, FrameFits
  <2>2. MqttTyped'
    BY <1>8, <2>1, SubscribeTyped DEF SubscribedRejected
  <2>3. subscriptionList' \in [SubSlots -> TopicRecords]
    <3> DEFINE one == [subscriptionList EXCEPT ![Top.rej].count = 1]
    <3>1. one \in [SubSlots -> TopicRecords]
      BY <1>6, <2>1 DEF TopicRecords
    <3>2. subscriptionList' = [one EXCEPT ![Top.rej].sticky = Top.sticky]
      BY <1>8 DEF SubscribedRejected
    <3> HIDE DEF one
    <3> QED
      BY <1>1, <2>1, <3>1, <3>2 DEF TopicRecords
  <2>4. stack' \in Seq(Frames) /\ StackFits'
    BY <1>5, <1>8 DEF SubscribedRejected, ActionPcs
  <2>5. RestTyped' /\ UNCHANGED ackWaitList
    BY <1>6, <1>8 DEF SubscribedRejected, RestTyped
  <2> QED
    BY <1>6, <2>2, <2>3, <2>4, <2>5, TypedPartsNext
<1>9. CASE SubscribeFailed
  <2>1. Top.acc \in SubSlots /\ Top.rej \in SubSlots
    BY <1>1, <1>9 DEF SubscribeFailed, At, FrameFits
  <2>2. MqttTyped'
    BY <1>9, <2>1, SubscribeTyped DEF SubscribeFailed
  <2>3. subscriptionList' \in [SubSlots -> TopicRecords]
    BY <1>6, <1>9, <2>1, RecordTyped DEF SubscribeFailed
  <2>4. CASE Return
    BY <1>0, <1>6, <1>9, <2>2, <2>3, <2>4, ReturnTyped, TypedPartsNext
       DEF SubscribeFailed, RestTyped
  <2>5. CASE Continue([Top EXCEPT !.pc = "cleanup", !.ret = "FAILURE"])
    <3> DEFINE f == [Top EXCEPT !.pc = "cleanup", !.ret = "FAILURE"]
    <3>1. "cleanup" \in Pcs /\ "cleanup" \in ActionPcs
      BY DEF Pcs, ActionPcs
    <3>2. /\ f \in Frames /\ f.op = Top.op /\ f.pc = "cleanup" /\ f.key = Top.key
          /\ f.token = Top.token /\ f.i = Top.i /\ f.acc = Top.acc /\ f.rej = Top.rej
      BY <1>1, <3>1, ChangedRet
    <3> HIDE DEF f
    <3>3. FrameFits(f)
      BY <1>2, <1>3, <1>4, <2>1, <3>1, <3>2 DEF FrameFits
    <3>4. stack' \in Seq(Frames) /\ StackFits'
      BY <1>0, <2>5, <3>2, <3>3, ContinueTyped DEF f
    <3>5. RestTyped' /\ UNCHANGED ackWaitList
      BY <1>6, <1>9 DEF SubscribeFailed, RestTyped
    <3> QED
      BY <1>6, <2>2, <2>3, <3>4, <3>5, TypedPartsNext
  <2> QED
    BY <1>9, <2>4, <2>5 DEF SubscribeFailed
<1>10. CASE Cleanup
  <2>1. MqttTyped'
    BY <1>10, UnsubscribeTyped DEF Cleanup
  <2>2. stack' \in Seq(Frames) /\ StackFits'
    <3>1. CASE Return
      BY <1>0, <3>1, ReturnTyped
    <3>2. CASE Goto("publish")
      BY <1>5, <3>2 DEF ActionPcs
    <3> QED
      BY <1>10, <3>1, <3>2 DEF Cleanup
  <2>3. RestTyped' /\ UNCHANGED << ackWaitList, subscriptionList >>
    BY <1>6, <1>10 DEF Cleanup, RestTyped
  <2> QED
    BY <1>6, <2>1, <2>2, <2>3, TypedPartsNext
<1>11. CASE Published
  <2>1. stack' \in Seq(Frames) /\ StackFits'
    BY <1>0, <1>11, ReturnTyped DEF Published
  <2>2. ackWaitList' \in [AckSlots -> EntryRecords]
    BY <1>3, <1>6, <1>11 DEF Published, EntryRecords
  <2>3. RestTyped'
    BY <1>3, <1>6, <1>11 DEF Published, RestTyped
  <2>4. MqttTyped' /\ UNCHANGED subscriptionList
    BY <1>6, <1>11 DEF Published, MqttTyped
  <2> QED
    BY <1>6, <2>1, <2>2, <2>3, <2>4, TypedPartsNext
<1>12. CASE PublishFailed
  <2>1. stack' \in Seq(Frames) /\ StackFits'
    BY <1>0, <1>12, ReturnTyped DEF PublishFailed
  <2>2. MqttTyped'
    BY <1>6, <1>12, ShadowAssumption DEF PublishFailed, MqttTyped
  <2>3. RestTyped' /\ UNCHANGED << ackWaitList, subscriptionList >>
    BY <1>6, <1>12 DEF PublishFailed, RestTyped
  <2> QED
    BY <1>6, <2>1, <2>2, <2>3, TypedPartsNext
<1> QED
  BY <1>7, <1>8, <1>9, <1>10, <1>11, <1>12

LEMMA EntryTyped ==
    ASSUME NEW list \in [AckSlots -> EntryRecords], NEW i \in AckSlots, NEW b \in BOOLEAN
    PROVE  [list EXCEPT ![i].free = b] \in [AckSlots -> EntryRecords]
<1>1. \A r \in EntryRecords : [list EXCEPT ![i] = r] \in [AckSlots -> EntryRecords]
  OBVIOUS
<1>2. /\ list[i] = [free |-> list[i].free, token |-> list[i].token, key |-> list[i].key]
      /\ list[i].token \in Tokens \cup { None } /\ list[i].key \in Keys \cup { None }
  BY DEF EntryRecords
<1>3. [list[i] EXCEPT !.free = b]
        = [free |-> b, token |-> list[i].token, key |-> list[i].key]
  BY <1>2
<1>4. [list[i] EXCEPT !.free = b] \in EntryRecords
  BY <1>2, <1>3, Zenon DEF EntryRecords
<1> QED
  BY <1>1, <1>4

LEMMA EntryFreed ==
    ASSUME NEW list \in [AckSlots -> EntryRecords], NEW i \in AckSlots
    PROVE  [list EXCEPT ![i].free = TRUE] \in [AckSlots -> EntryRecords]
BY EntryTyped

\* A call about an entry, in the middle.
LEMMA EntryFacts ==
    ASSUME Typed, stack # << >>, Top.pc \in EntryPcs
    PROVE  /\ Top \in Frames /\ FrameFits(Top) /\ Top.i \in AckSlots
           /\ Top.op \in { "ack", "expire" }
           /\ ackWaitList[Top.i] \in EntryRecords
           /\ ackWaitList[Top.i].key \in Keys \cup { None }
           /\ ackWaitList[Top.i].token \in Tokens \cup { None }
<1>1. Top \in Frames /\ FrameFits(Top) /\ Top.op \in { "action", "ack", "expire" }
  BY TopFacts, FrameFields
<1>2. Top.i \in AckSlots /\ Top.op \in { "ack", "expire" }
  BY <1>1 DEF FrameFits, EntryPcs, ActionPcs
<1>3. ackWaitList[Top.i] \in EntryRecords
  BY <1>2, TypedParts
<1> QED
  BY <1>1, <1>2, <1>3 DEF EntryRecords

LEMMA EntryGotoTyped ==
    ASSUME Typed, stack # << >>, Top.pc \in EntryPcs, NEW f \in Frames, Continue(f),
           f.op = Top.op, f.pc \in EntryPcs, f.token = Top.token, f.i = Top.i,
           f.pc \in { "wait_accepted", "wait_rejected" } => f.acc \in SubSlots
    PROVE  stack' \in Seq(Frames) /\ StackFits'
<1>1. FrameFits(Top) /\ Top.i \in AckSlots /\ Top.op \in { "ack", "expire" }
  BY EntryFacts
<1>2. f.pc \notin { "subscribe_accepted", "subscribe_rejected", "cleanup" }
  BY DEF EntryPcs
<1>3. FrameFits(f)
  BY <1>1, <1>2 DEF FrameFits
<1> QED
  BY <1>3, ContinueTyped

LEMMA EntryDoneTyped ==
    ASSUME Typed, stack # << >>, Top.pc \in EntryPcs, EntryDone
    PROVE  /\ stack' \in Seq(Frames) /\ StackFits'
           /\ ackWaitList' \in [AckSlots -> EntryRecords]
<1>1. /\ Top \in Frames /\ FrameFits(Top) /\ Top.i \in AckSlots
      /\ Top.op \in { "ack", "expire" }
      /\ ackWaitList \in [AckSlots -> EntryRecords]
  BY EntryFacts, TypedParts
<1>2. CASE Top.op = "ack"
  BY <1>1, <1>2, ReturnTyped, EntryFreed DEF EntryDone
<1>3. CASE Top.op = "expire"
  <2> DEFINE f == [Top EXCEPT !.pc = "scan", !.i = @ + 1]
  <2>1. f \in Frames /\ f.op = Top.op /\ f.pc = "scan" /\ f.token = Top.token
    BY <1>1, Advanced
  <2>2. Continue(f) /\ UNCHANGED ackWaitList
    BY <1>3 DEF EntryDone
  <2> HIDE DEF f
  <2>3. FrameFits(f)
    BY <1>3, <2>1 DEF FrameFits, EntryPcs
  <2> QED
    BY <1>1, <2>1, <2>2, <2>3, ContinueTyped
<1> QED
  BY <1>1, <1>2, <1>3

LEMMA TopicDoneTyped ==
    ASSUME Typed, stack # << >>, Top.pc \in EntryPcs, NEW status \in Status,
           TopicDone(status)
    PROVE  /\ stack' \in Seq(Frames) /\ StackFits'
           /\ ackWaitList' \in [AckSlots -> EntryRecords]
<1>1. CASE status = "accepted"
  <2> DEFINE f == [Top EXCEPT !.pc = "unsubscribe_rejected"]
  <2>1. "unsubscribe_rejected" \in Pcs /\ "unsubscribe_rejected" \in EntryPcs
    BY DEF Pcs, EntryPcs
  <2>2. /\ f \in Frames /\ f.op = Top.op /\ f.pc = "unsubscribe_rejected"
        /\ f.token = Top.token /\ f.i = Top.i
    BY <2>1, EntryFacts, Changed
  <2>3. Continue(f) /\ UNCHANGED ackWaitList
    BY <1>1 DEF TopicDone, Goto
  <2> HIDE DEF f
  <2>4. stack' \in Seq(Frames) /\ StackFits'
    BY <2>1, <2>2, <2>3, EntryGotoTyped
  <2> QED
    BY <2>3, <2>4, TypedParts
<1>2. CASE status # "accepted"
  BY <1>2, EntryDoneTyped DEF TopicDone
<1> QED
  BY <1>1, <1>2

LEMMA EntryStepTyped ==
    ASSUME Typed,
           \/ CallbackReturn
           \/ \E status \in Status : ReleaseTopic(status) \/ UnsubscribedTopic(status)
    PROVE  Typed'
<1> USE DEF records, mqtt, history
<1>0. stack # << >> /\ Top.pc \in EntryPcs
  BY DEF CallbackReturn, ReleaseTopic, UnsubscribedTopic, At, EntryPcs
<1>1. /\ Top \in Frames /\ FrameFits(Top) /\ Top.i \in AckSlots
      /\ Top.op \in { "ack", "expire" } /\ ackWaitList[Top.i].key \in Keys \cup { None }
  BY <1>0, EntryFacts
<1>2. /\ ackWaitList \in [AckSlots -> EntryRecords]
      /\ subscriptionList \in [SubSlots -> TopicRecords]
      /\ MqttTyped /\ RestTyped
  BY TypedParts
<1>3. CASE CallbackReturn
  <2> DEFINE k == ackWaitList[Top.i].key
             f == [Top EXCEPT !.pc = "unsubscribe_accepted", !.key = k]
  <2>0. k \in Keys \cup { None }
    BY <1>1
  <2> HIDE DEF k
  <2>1. "unsubscribe_accepted" \in Pcs /\ "unsubscribe_accepted" \in EntryPcs
    BY DEF Pcs, EntryPcs
  <2>2. /\ f \in Frames /\ f.op = Top.op /\ f.pc = "unsubscribe_accepted"
        /\ f.token = Top.token /\ f.i = Top.i
    BY <1>0, <2>0, <2>1, ChangedKey
  <2>3. Continue(f)
    BY <1>3 DEF CallbackReturn, k
  <2> HIDE DEF f
  <2>4. stack' \in Seq(Frames) /\ StackFits'
    BY <1>0, <2>1, <2>2, <2>3, EntryGotoTyped
  <2>5. ackWaitList' \in [AckSlots -> EntryRecords]
    BY <1>1, <1>2, <1>3, EntryFreed DEF CallbackReturn
  <2>6. MqttTyped' /\ RestTyped' /\ UNCHANGED subscriptionList
    BY <1>2, <1>3 DEF CallbackReturn, MqttTyped, RestTyped
  <2> QED
    BY <1>2, <2>4, <2>5, <2>6, TypedPartsNext
<1>4. ASSUME NEW status \in Status, ReleaseTopic(status)
      PROVE  Typed'
  <2> DEFINE n == Find(<< Top.key, status >>)
             r == subscriptionList[n]
             pc == IF status = "accepted" THEN "wait_accepted" ELSE "wait_rejected"
             f == [Top EXCEPT !.pc = pc, !.acc = n]
  <2>1. MqttTyped' /\ RestTyped'
    BY <1>2, <1>4 DEF ReleaseTopic, MqttTyped, RestTyped
  <2>2. n # NoSlot => n \in SubSlots
    BY FindFacts
  <2>3. ASSUME n # NoSlot, Continue(f), UNCHANGED << ackWaitList, subscriptionList >>
        PROVE  Typed'
    <3>1. pc \in Pcs /\ pc \in EntryPcs
      BY DEF Pcs, EntryPcs
    <3>2. /\ f \in Frames /\ f.op = Top.op /\ f.pc = pc /\ f.token = Top.token
          /\ f.i = Top.i /\ f.acc = n
      <4>2. n \in SubSlots
        BY <2>2, <2>3
      <4> HIDE DEF n, pc
      <4> QED
        BY <1>0, <3>1, <4>2, ChangedAcc
    <3>3. stack' \in Seq(Frames) /\ StackFits'
      <4> HIDE DEF n, pc, f
      <4> QED
        BY <1>0, <2>2, <2>3, <3>1, <3>2, EntryGotoTyped
    <3> QED
      BY <1>2, <2>1, <2>3, <3>3, TypedPartsNext
  <2>4. ASSUME n # NoSlot, r.count > 1,
               subscriptionList' = [subscriptionList EXCEPT ![n].count = @ - 1],
               TopicDone(status)
        PROVE  Typed'
    <3>1. subscriptionList' \in [SubSlots -> TopicRecords]
      <4> HIDE DEF n
      <4>1. r \in TopicRecords /\ r.count - 1 \in 0..255
        BY <1>2, <2>2, <2>4 DEF TopicRecords
      <4>2. [r EXCEPT !.count = @ - 1] \in TopicRecords
        BY <4>1 DEF TopicRecords
      <4> QED
        BY <1>2, <2>2, <2>4, <4>2
    <3> QED
      BY <1>0, <2>1, <2>4, <3>1, TopicDoneTyped, TypedPartsNext
  <2>5. ASSUME TopicDone(status), UNCHANGED subscriptionList
        PROVE  Typed'
    BY <1>0, <1>2, <2>1, <2>5, TopicDoneTyped, TypedPartsNext
  <2> QED
    BY <1>4, <2>3, <2>4, <2>5 DEF ReleaseTopic
<1>5. ASSUME NEW status \in Status, UnsubscribedTopic(status)
      PROVE  Typed'
  <2>1. MqttTyped'
    BY <1>5, UnsubscribeTyped DEF UnsubscribedTopic
  <2>2. RestTyped'
    BY <1>2, <1>5 DEF UnsubscribedTopic, RestTyped
  <2>3. Top.acc \in SubSlots
    BY <1>1, <1>5 DEF UnsubscribedTopic, At, FrameFits
  <2>4. subscriptionList' \in [SubSlots -> TopicRecords]
    <3>1. [subscriptionList EXCEPT ![Top.acc].free = TRUE] \in [SubSlots -> TopicRecords]
      BY <1>2, <2>3, RecordTyped
    <3> QED
      BY <1>2, <1>5, <3>1 DEF UnsubscribedTopic
  <2>5. TopicDone(status)
    BY <1>5 DEF UnsubscribedTopic
  <2> QED
    BY <1>0, <2>1, <2>2, <2>4, <2>5, TopicDoneTyped, TypedPartsNext
<1> QED
  BY <1>3, <1>4, <1>5

LEMMA ScanTyped ==
    ASSUME Typed, EntriesTyped, Scan
    PROVE  Typed'
<1> USE DEF records, mqtt, history
<1>0. stack # << >> /\ Top.pc = "scan"
  BY DEF Scan, At
<1>1. /\ Top \in Frames /\ FrameFits(Top) /\ Top.op \in { "action", "ack", "expire" }
  BY <1>0, TopFacts, FrameFields
<1>2. Top.op = "expire"
  BY <1>0, <1>1 DEF FrameFits, ActionPcs, EntryPcs
<1>3. /\ ackWaitList \in [AckSlots -> EntryRecords]
      /\ subscriptionList \in [SubSlots -> TopicRecords]
      /\ MqttTyped /\ RestTyped
  BY TypedParts
<1>4. MqttTyped' /\ UNCHANGED << ackWaitList, subscriptionList >>
  BY <1>3 DEF Scan, MqttTyped
<1>5. CASE Top.i \notin AckSlots
  BY <1>0, <1>3, <1>4, <1>5, ReturnTyped, TypedPartsNext DEF Scan, RestTyped
<1>6. CASE Top.i \in AckSlots /\ ~ackWaitList[Top.i].free /\ Top.i \in expired
  <2>1. callbacks' \in [Tokens -> Nat]
    <3>1. ackWaitList[Top.i].token \in Tokens
      BY <1>6 DEF EntriesTyped, Live
    <3>2. callbacks' = [callbacks EXCEPT ![ackWaitList[Top.i].token] = @ + 1]
      BY <1>6 DEF Scan
    <3> QED
      BY <1>3, <3>1, <3>2 DEF RestTyped
  <2>2. RestTyped'
    BY <1>3, <2>1 DEF Scan, RestTyped
  <2> DEFINE f == [Top EXCEPT !.pc = "callback"]
  <2>3. "callback" \in Pcs /\ "callback" \in EntryPcs
    BY DEF Pcs, EntryPcs
  <2>4. /\ f \in Frames /\ f.op = Top.op /\ f.pc = "callback"
        /\ f.token = Top.token /\ f.i = Top.i
    BY <1>1, <2>3, Changed
  <2>5. Continue(f)
    BY <1>6 DEF Scan, Goto
  <2> HIDE DEF f
  <2>6. FrameFits(f)
    BY <1>2, <1>6, <2>3, <2>4 DEF FrameFits
  <2>7. stack' \in Seq(Frames) /\ StackFits'
    BY <1>0, <2>4, <2>5, <2>6, ContinueTyped
  <2> QED
    BY <1>3, <1>4, <2>2, <2>7, TypedPartsNext
<1>7. CASE Top.i \in AckSlots /\ ~(~ackWaitList[Top.i].free /\ Top.i \in expired)
  <2> DEFINE f == [Top EXCEPT !.i = @ + 1]
  <2>1. f \in Frames /\ f.op = Top.op /\ f.pc = Top.pc /\ f.token = Top.token
    BY <1>1, <1>7, Advanced
  <2>2. Continue(f) /\ UNCHANGED callbacks
    BY <1>7 DEF Scan
  <2> HIDE DEF f
  <2>3. FrameFits(f)
    BY <1>0, <1>2, <2>1 DEF FrameFits, EntryPcs
  <2>4. stack' \in Seq(Frames) /\ StackFits'
    BY <1>0, <2>1, <2>2, <2>3, ContinueTyped
  <2>5. RestTyped'
    BY <1>3, <2>2 DEF Scan, RestTyped
  <2> QED
    BY <1>3, <1>4, <2>4, <2>5, TypedPartsNext
<1> QED
  BY <1>5, <1>6, <1>7

LEMMA ResponseTyped ==
    ASSUME Typed, NEW token \in Tokens, NEW key \in Keys, NEW status \in Status,
           Response(token, key, status)
    PROVE  Typed'
<1> USE DEF records, mqtt, history
<1> DEFINE waiting == { i \in AckSlots : ~ackWaitList[i].free /\ ackWaitList[i].token = token }
           i == Min(waiting)
           f == Frame("ack", "callback", key, token, FALSE, i, NoSlot, NoSlot, "SUCCESS")
<1>1. /\ ackWaitList \in [AckSlots -> EntryRecords]
      /\ subscriptionList \in [SubSlots -> TopicRecords]
      /\ MqttTyped /\ RestTyped
  BY TypedParts
<1>2. MqttTyped' /\ UNCHANGED << ackWaitList, subscriptionList >>
  BY <1>1 DEF Response, MqttTyped
<1>3. CASE waiting # {} /\ Push(f) /\ callbacks' = [callbacks EXCEPT ![token] = @ + 1]
  <2>1. i \in waiting
    <3>1. waiting \in SUBSET Nat
      BY Slots
    <3> QED
      BY <1>3, <3>1, MinIn
  <2>2. i \in AckSlots
    BY <2>1
  <2>3. /\ f \in Frames /\ f.op = "ack" /\ f.pc = "callback" /\ f.token = token /\ f.i = i
    <3> DEFINE no == FALSE
    <3>1. "callback" \in Pcs /\ no \in BOOLEAN
      BY DEF Pcs
    <3>2. f = Frame("ack", "callback", key, token, no, i, NoSlot, NoSlot, "SUCCESS")
      OBVIOUS
    <3> HIDE DEF i, no, f
    <3> QED
      BY <2>2, <3>1, <3>2, NewFrame
  <2>4. FrameFits(f)
    <3> HIDE DEF f, i
    <3> QED
      BY <2>2, <2>3 DEF FrameFits, EntryPcs
  <2>5. stack' \in Seq(Frames) /\ StackFits'
    <3> HIDE DEF f
    <3> QED
      BY <1>3, <2>3, <2>4, PushTyped
  <2>6. RestTyped'
    BY <1>1, <1>3 DEF Response, RestTyped
  <2> QED
    BY <1>1, <1>2, <2>5, <2>6, TypedPartsNext
<1>4. CASE UNCHANGED << stack, callbacks >>
  <2>1. RestTyped' /\ StackFits'
    BY <1>1, <1>4, TypedParts DEF Response, RestTyped, StackFits
  <2> QED
    BY <1>1, <1>2, <1>4, <2>1, TypedParts, TypedPartsNext
<1> QED
  BY <1>3, <1>4 DEF Response

LEMMA OtherTyped ==
    ASSUME Typed, ShadowYield \/ ShadowConnect \/ (\E i \in AckSlots : TimerExpires(i))
    PROVE  Typed'
<1> USE DEF records, mqtt, history
<1>1. /\ ackWaitList \in [AckSlots -> EntryRecords]
      /\ subscriptionList \in [SubSlots -> TopicRecords]
      /\ MqttTyped /\ RestTyped
  BY TypedParts
<1>2. CASE ShadowYield
  <2> DEFINE f == Frame("expire", "scan", None, None, FALSE, 0, NoSlot, NoSlot, "SUCCESS")
  <2>1. "scan" \in Pcs /\ 0 \in AckSlots \cup { Cardinality(AckSlots) }
    BY ScanEnds DEF Pcs
  <2>2. f \in Frames /\ f.op = "expire" /\ f.pc = "scan"
    <3>1. f \in Frames
      BY <2>1, Zenon DEF Frame, Frames
    <3>2. f.op = "expire" /\ f.pc = "scan"
      BY DEF Frame
    <3> QED
      BY <3>1, <3>2
  <2>3. Push(f)
    BY <1>2 DEF ShadowYield
  <2> HIDE DEF f
  <2>4. FrameFits(f)
    BY <2>2 DEF FrameFits, EntryPcs
  <2>5. stack' \in Seq(Frames) /\ StackFits'
    BY <2>2, <2>3, <2>4, PushTyped
  <2>6. /\ RestTyped' /\ MqttTyped' /\ UNCHANGED << ackWaitList, subscriptionList >>
    BY <1>1, <1>2 DEF ShadowYield, RestTyped, MqttTyped
  <2> QED
    BY <1>1, <2>5, <2>6, TypedPartsNext
<1>3. CASE ShadowConnect
  <2>1. ackWaitList' \in [AckSlots -> EntryRecords]
    <3>1. \A i \in AckSlots : [ackWaitList[i] EXCEPT !.free = TRUE] \in EntryRecords
      <4> SUFFICES ASSUME NEW i \in AckSlots, NEW b \in BOOLEAN
                   PROVE  [ackWaitList[i] EXCEPT !.free = b] \in EntryRecords
        OBVIOUS
      <4> DEFINE r == ackWaitList[i]
      <4>1. /\ r = [free |-> r.free, token |-> r.token, key |-> r.key]
            /\ r.token \in Tokens \cup { None } /\ r.key \in Keys \cup { None }
        BY <1>1 DEF EntryRecords
      <4>2. [r EXCEPT !.free = b] = [free |-> b, token |-> r.token, key |-> r.key]
        BY <4>1
      <4> QED
        BY <4>1, <4>2, Zenon DEF EntryRecords
    <3>2. ackWaitList' = [i \in AckSlots |-> [ackWaitList[i] EXCEPT !.free = TRUE]]
      BY <1>3 DEF ShadowConnect
    <3> QED
      BY <3>1, <3>2, Zenon
  <2>2. subscriptionList' \in [SubSlots -> TopicRecords]
    <3>1. \A i \in SubSlots :
            [subscriptionList[i] EXCEPT !.free = TRUE, !.count = 0, !.sticky = FALSE]
               \in TopicRecords
      <4> SUFFICES ASSUME NEW i \in SubSlots, NEW b \in BOOLEAN, NEW c \in BOOLEAN
                   PROVE  [subscriptionList[i] EXCEPT !.free = b, !.count = 0, !.sticky = c]
                             \in TopicRecords
        OBVIOUS
      <4> DEFINE r == subscriptionList[i]
      <4>1. /\ r = [free |-> r.free, topic |-> r.topic, count |-> r.count,
                    sticky |-> r.sticky]
            /\ r.topic \in Topics \cup { NoTopic } /\ 0 \in 0..255
        BY <1>1 DEF TopicRecords
      <4>2. [r EXCEPT !.free = b, !.count = 0, !.sticky = c]
              = [free |-> b, topic |-> r.topic, count |-> 0, sticky |-> c]
        <5> DEFINE one == [r EXCEPT !.free = b]
                   two == [one EXCEPT !.count = 0]
        <5>1. one = [free |-> b, topic |-> r.topic, count |-> r.count, sticky |-> r.sticky]
          BY <4>1
        <5> HIDE DEF one
        <5>2. two = [free |-> b, topic |-> r.topic, count |-> 0, sticky |-> r.sticky]
          BY <5>1
        <5> HIDE DEF two
        <5>3. [two EXCEPT !.sticky = c]
                = [free |-> b, topic |-> r.topic, count |-> 0, sticky |-> c]
          BY <5>2
        <5> QED
          BY <5>3 DEF one, two
      <4> QED
        BY <4>1, <4>2, Zenon DEF TopicRecords
    <3>2. subscriptionList' = [i \in SubSlots |->
             [subscriptionList[i] EXCEPT !.free = TRUE, !.count = 0, !.sticky = FALSE]]
      BY <1>3 DEF ShadowConnect
    <3> QED
      BY <3>1, <3>2, Zenon
  <2>3. MqttTyped' /\ StackFits' /\ UNCHANGED stack
    BY <1>1, <1>3, TypedParts DEF ShadowConnect, MqttTyped, StackFits
  <2>4. RestTyped'
    <3>1. MaxConnects \in Nat
      BY ShadowAssumption
    <3>2. connects' \in 0..MaxConnects
      <4>1. connects < MaxConnects /\ connects' = connects + 1
        BY <1>3 DEF ShadowConnect
      <4>2. connects \in 0..MaxConnects
        BY <1>1 DEF RestTyped
      <4> QED
        BY <3>1, <4>1, <4>2
    <3> QED
      BY <1>1, <1>3, <3>2 DEF ShadowConnect, RestTyped
  <2> QED
    BY <2>1, <2>2, <2>3, <2>4, TypedParts, TypedPartsNext
<1>4. ASSUME NEW i \in AckSlots, TimerExpires(i)
      PROVE  Typed'
  <2>1. /\ RestTyped' /\ MqttTyped' /\ UNCHANGED << ackWaitList, subscriptionList, stack >>
        /\ StackFits'
    BY <1>1, <1>4, TypedParts DEF TimerExpires, RestTyped, MqttTyped, StackFits
  <2> QED
    BY <1>1, <2>1, TypedParts, TypedPartsNext
<1> QED
  BY <1>2, <1>3, <1>4

\* What becomes of the live entries.
LEMMA EntriesStep ==
    ASSUME Typed, Next
    PROVE  \/ Published
           \/ \A i \in AckSlots :
                 Live(i)' => Live(i) /\ ackWaitList'[i].token = ackWaitList[i].token
<1> USE DEF records
<1> DEFINE Fewer == \A i \in AckSlots :
                      Live(i)' => Live(i) /\ ackWaitList'[i].token = ackWaitList[i].token
<1>1. ackWaitList \in [AckSlots -> EntryRecords]
  BY TypedParts
<1>2. ASSUME UNCHANGED ackWaitList
      PROVE  Fewer
  BY <1>2 DEF Live
<1>3. ASSUME NEW i \in AckSlots, ackWaitList' = [ackWaitList EXCEPT ![i].free = TRUE]
      PROVE  Fewer
  BY <1>1, <1>3 DEF Live, EntryRecords
<1>4. CASE Application
  BY <1>2, <1>4 DEF Application, ActionRefused, ActionShares, ActionSubscribes,
     ActionOutOfRecords
<1>5. CASE \/ SubscribedAccepted \/ SubscribedRejected \/ SubscribeFailed \/ Cleanup
           \/ PublishFailed \/ Scan
  BY <1>2, <1>5 DEF SubscribedAccepted, SubscribedRejected, SubscribeFailed, Cleanup,
     PublishFailed, Scan
<1>6. CASE CallbackReturn
  <2>1. Top.i \in AckSlots
    BY <1>6, EntryFacts DEF CallbackReturn, At, EntryPcs
  <2> QED
    BY <1>2, <1>3, <1>6, <2>1 DEF CallbackReturn
<1>7. ASSUME NEW status \in Status, ReleaseTopic(status) \/ UnsubscribedTopic(status)
      PROVE  Fewer
  <2>1. Top.i \in AckSlots
    BY <1>7, EntryFacts DEF ReleaseTopic, UnsubscribedTopic, At, EntryPcs
  <2>2. TopicDone(status) \/ UNCHANGED ackWaitList
    BY <1>7 DEF ReleaseTopic, UnsubscribedTopic
  <2> QED
    BY <1>2, <1>3, <2>1, <2>2 DEF TopicDone, EntryDone
<1>8. CASE Service
  BY <1>2, <1>8 DEF Service, Response
<1>9. CASE ShadowYield \/ \E i \in AckSlots : TimerExpires(i)
  BY <1>2, <1>9 DEF ShadowYield, TimerExpires
<1>10. CASE ShadowConnect
  BY <1>1, <1>10 DEF ShadowConnect, Live, EntryRecords
<1> QED
  BY <1>4, <1>5, <1>6, <1>7, <1>8, <1>9, <1>10 DEF Next, Library

\* The lists and the calls in progress have their types.
ShadowTypes == Typed /\ EntriesTyped

LEMMA TypesNext == ShadowTypes /\ [Next]_vars => ShadowTypes'
<1> SUFFICES ASSUME ShadowTypes, [Next]_vars
             PROVE  ShadowTypes'
  OBVIOUS
<1> USE DEF ShadowTypes
<1>1. CASE UNCHANGED vars
  BY <1>1 DEF vars, records, mqtt, history, Typed, TypeOK, StackFits, EntriesTyped, Live
<1>2. CASE Next
  <2>1. Typed'
    BY <1>2, ApplicationTyped, ActionStepTyped, ScanTyped, EntryStepTyped, ResponseTyped,
       OtherTyped DEF Next, Library, Service
  <2>2. CASE Published
    <3>1. Top.token \in Tokens /\ Top.i \in AckSlots
      <4>1. stack # << >> /\ Top.pc = "publish"
        BY <2>2 DEF Published, At
      <4>2. FrameFits(Top) /\ Top.op \in { "action", "ack", "expire" }
        BY <4>1, TopFacts, FrameFields
      <4> QED
        BY <4>1, <4>2 DEF FrameFits, EntryPcs
    <3>2. /\ ackWaitList' = [ackWaitList EXCEPT
                ![Top.i] = [free |-> FALSE, token |-> Top.token, key |-> Top.key]]
          /\ ackWaitList \in [AckSlots -> EntryRecords]
      BY <2>2, TypedParts DEF Published
    <3>3. EntriesTyped'
      BY <3>1, <3>2 DEF EntriesTyped, Live
    <3> QED
      BY <2>1, <3>3
  <2>3. CASE \A i \in AckSlots :
                Live(i)' => Live(i) /\ ackWaitList'[i].token = ackWaitList[i].token
    BY <2>1, <2>3 DEF EntriesTyped
  <2> QED
    BY <1>2, <2>2, <2>3, EntriesStep
<1> QED
  BY <1>1, <1>2

LEMMA TypesAlways == Spec => []ShadowTypes
<1>1. Init => ShadowTypes
  BY TypedInit DEF Init, ShadowTypes, EntriesTyped, Live
<1> QED
  BY <1>1, TypesNext, PTL DEF Spec

\* The waiting actions, the subscription records, the MQTT client's handlers and the
\* calls in progress keep their types for all sizes of the lists, however the
\* application, its handlers and callbacks start actions, and whatever fails: a
\* count stays in its byte, and no call leaves an entry outside its list.
THEOREM ShadowTyped == Spec => []TypeOK
  BY TypesAlways, PTL DEF ShadowTypes, Typed

-----------------------------------------------------------------------------
(* How a step changes the calls in progress *)

LEMMA Continued ==
    ASSUME Typed, stack # << >>, NEW f \in Frames, Continue(f)
    PROVE  /\ Len(stack') = Len(stack) /\ stack'[Len(stack)] = f
           /\ \A n \in 1..(Len(stack) - 1) : stack'[n] = stack[n]
BY TopFacts, TopShape DEF Continue

LEMMA Returned ==
    ASSUME Typed, stack # << >>, Return
    PROVE  /\ Len(stack') = Len(stack) - 1
           /\ \A n \in 1..(Len(stack) - 1) : stack'[n] = stack[n]
BY TopFacts, PopShape DEF Return

LEMMA Pushed ==
    ASSUME Typed, NEW f \in Frames, Push(f)
    PROVE  /\ Len(stack') = Len(stack) + 1 /\ stack'[Len(stack) + 1] = f
           /\ \A n \in 1..Len(stack) : stack'[n] = stack[n]
BY PushShape DEF Push, Typed, TypeOK

\* The innermost call goes on as the same call, about the same entry unless it
\* looks for expired ones,
GoesOn ==
    \E f \in Frames : /\ Continue(f)
                      /\ f.op = Top.op /\ f.token = Top.token
                      /\ Top.op # "expire" => f.i = Top.i
                      /\ Top.op = "expire" /\ Top.pc = "callback" => ackWaitList'[Top.i].free
                      /\ f.op = "expire" /\ f.pc = "callback" =>
                            /\ Scan /\ f.i = Top.i /\ Top.i \in AckSlots /\ Live(Top.i)
                            /\ callbacks' =
                                  [callbacks EXCEPT ![ackWaitList[Top.i].token] = @ + 1]

\* or it returns, after the entry of an answered action was freed.
Ends ==
    /\ Return
    /\ Top.op = "ack" => ackWaitList'[Top.i].free
    /\ Top.op = "expire" => Top.pc = "scan"

LEMMA DoneShape ==
    ASSUME Typed, stack # << >>, Top.pc \in EntryPcs, Top.pc # "callback",
           NEW status \in Status, TopicDone(status)
    PROVE  GoesOn \/ Ends
<1>1. /\ Top \in Frames /\ Top.i \in AckSlots /\ Top.op \in { "ack", "expire" }
      /\ ackWaitList \in [AckSlots -> EntryRecords]
  BY EntryFacts, TypedParts
<1>2. CASE status = "accepted"
  <2> DEFINE f == [Top EXCEPT !.pc = "unsubscribe_rejected"]
  <2>1. "unsubscribe_rejected" \in Pcs
    BY DEF Pcs
  <2>2. /\ f \in Frames /\ f.op = Top.op /\ f.pc = "unsubscribe_rejected"
        /\ f.token = Top.token /\ f.i = Top.i
    BY <1>1, <2>1, Changed
  <2>3. Continue(f)
    BY <1>2 DEF TopicDone, Goto
  <2> HIDE DEF f
  <2> QED
    BY <2>2, <2>3 DEF GoesOn
<1>3. CASE status # "accepted" /\ Top.op = "ack"
  <2>1. Return /\ ackWaitList' = [ackWaitList EXCEPT ![Top.i].free = TRUE]
    BY <1>3 DEF TopicDone, EntryDone
  <2>2. ackWaitList'[Top.i].free
    BY <1>1, <2>1 DEF EntryRecords
  <2> QED
    BY <1>3, <2>1, <2>2 DEF Ends
<1>4. CASE status # "accepted" /\ Top.op = "expire"
  <2> DEFINE f == [Top EXCEPT !.pc = "scan", !.i = @ + 1]
  <2>1. f \in Frames /\ f.op = Top.op /\ f.pc = "scan" /\ f.token = Top.token
    BY <1>1, Advanced
  <2>2. Continue(f)
    BY <1>4 DEF TopicDone, EntryDone
  <2> HIDE DEF f
  <2> QED
    BY <1>4, <2>1, <2>2 DEF GoesOn
<1> QED
  BY <1>1, <1>2, <1>3, <1>4

LEMMA LibraryShape ==
    ASSUME ShadowTypes, Library
    PROVE  stack # << >> /\ (GoesOn \/ Ends)
<1> USE DEF ShadowTypes
<1>1. stack # << >>
  BY DEF Library, SubscribedAccepted, SubscribedRejected, SubscribeFailed, Cleanup, Published,
         PublishFailed, Scan, CallbackReturn, ReleaseTopic, UnsubscribedTopic, At
<1>2. /\ Top \in Frames /\ FrameFits(Top) /\ Top.op \in { "action", "ack", "expire" }
      /\ ackWaitList \in [AckSlots -> EntryRecords]
  BY <1>1, TopFacts, FrameFields, TypedParts
<1>3. ASSUME NEW pc \in ActionPcs, Top.op = "action", Goto(pc)
      PROVE  GoesOn
  <2> DEFINE f == [Top EXCEPT !.pc = pc]
  <2>1. pc \in Pcs
    BY DEF ActionPcs, Pcs
  <2>2. /\ f \in Frames /\ f.op = Top.op /\ f.pc = pc /\ f.token = Top.token /\ f.i = Top.i
    BY <1>2, <2>1, Changed
  <2>3. Continue(f)
    BY <1>3 DEF Goto
  <2> HIDE DEF f
  <2> QED
    BY <1>3, <2>2, <2>3 DEF GoesOn
<1>4. CASE Top.pc \in ActionPcs
  <2>1. Top.op = "action"
    BY <1>2, <1>4 DEF FrameFits, ActionPcs, EntryPcs
  <2>2. CASE Return
    BY <1>1, <2>1, <2>2 DEF Ends
  <2>3. CASE \E pc \in ActionPcs : Goto(pc)
    BY <1>1, <1>3, <2>1, <2>3
  <2>4. CASE Continue([Top EXCEPT !.pc = "cleanup", !.ret = "FAILURE"])
    <3> DEFINE f == [Top EXCEPT !.pc = "cleanup", !.ret = "FAILURE"]
    <3>1. "cleanup" \in Pcs
      BY DEF Pcs
    <3>2. /\ f \in Frames /\ f.op = Top.op /\ f.pc = "cleanup" /\ f.token = Top.token
          /\ f.i = Top.i
      BY <1>2, <3>1, ChangedRet
    <3>3. Continue(f)
      BY <2>4
    <3> HIDE DEF f
    <3> QED
      BY <1>1, <2>1, <3>2, <3>3 DEF GoesOn
  <2>5. \/ SubscribedAccepted \/ SubscribedRejected \/ SubscribeFailed \/ Cleanup
        \/ Published \/ PublishFailed
    BY <1>4 DEF Library, Scan, CallbackReturn, ReleaseTopic, UnsubscribedTopic, At,
       ActionPcs
  <2> QED
    BY <2>2, <2>3, <2>4, <2>5 DEF SubscribedAccepted, SubscribedRejected, SubscribeFailed,
       Cleanup, Published, PublishFailed, ActionPcs
<1>5. CASE Scan
  <2>1. Top.pc = "scan" /\ Top.op = "expire"
    BY <1>2, <1>5 DEF Scan, At, FrameFits, ActionPcs, EntryPcs
  <2>2. CASE Top.i \notin AckSlots
    BY <1>1, <1>5, <2>1, <2>2 DEF Scan, Ends
  <2>3. CASE Top.i \in AckSlots /\ ~ackWaitList[Top.i].free /\ Top.i \in expired
    <3> DEFINE f == [Top EXCEPT !.pc = "callback"]
    <3>1. "callback" \in Pcs
      BY DEF Pcs
    <3>2. /\ f \in Frames /\ f.op = Top.op /\ f.pc = "callback" /\ f.token = Top.token
          /\ f.i = Top.i
      BY <1>2, <3>1, Changed
    <3>3. /\ Continue(f)
          /\ callbacks' = [callbacks EXCEPT ![ackWaitList[Top.i].token] = @ + 1]
      BY <1>5, <2>3 DEF Scan, Goto
    <3> HIDE DEF f
    <3> QED
      BY <1>1, <1>5, <2>1, <2>3, <3>2, <3>3 DEF GoesOn, Live
  <2>4. CASE Top.i \in AckSlots /\ ~(~ackWaitList[Top.i].free /\ Top.i \in expired)
    <3> DEFINE f == [Top EXCEPT !.i = @ + 1]
    <3>1. f \in Frames /\ f.op = Top.op /\ f.pc = Top.pc /\ f.token = Top.token
      BY <1>2, <2>4, Advanced
    <3>2. Continue(f)
      BY <1>5, <2>4 DEF Scan
    <3> HIDE DEF f
    <3> QED
      BY <1>1, <2>1, <3>1, <3>2 DEF GoesOn
  <2> QED
    BY <2>2, <2>3, <2>4
<1>6. CASE CallbackReturn
  <2>1. Top.pc = "callback" /\ Top.pc \in EntryPcs
    BY <1>6 DEF CallbackReturn, At, EntryPcs
  <2>2. /\ Top.i \in AckSlots /\ Top.op \in { "ack", "expire" }
        /\ ackWaitList[Top.i].key \in Keys \cup { None }
    BY <1>1, <2>1, EntryFacts
  <2> DEFINE k == ackWaitList[Top.i].key
             f == [Top EXCEPT !.pc = "unsubscribe_accepted", !.key = k]
  <2>3. "unsubscribe_accepted" \in Pcs /\ k \in Keys \cup { None }
    BY <2>2 DEF Pcs
  <2> HIDE DEF k
  <2>4. /\ f \in Frames /\ f.op = Top.op /\ f.pc = "unsubscribe_accepted"
        /\ f.token = Top.token /\ f.i = Top.i
    BY <1>1, <2>3, ChangedKey
  <2>5. Continue(f)
    BY <1>6 DEF CallbackReturn, k
  <2>6. Top.op = "expire" => ackWaitList'[Top.i].free
    BY <1>2, <1>6, <2>2 DEF CallbackReturn, EntryRecords
  <2> HIDE DEF f
  <2> QED
    BY <1>1, <2>4, <2>5, <2>6 DEF GoesOn
<1>7. ASSUME NEW status \in Status, ReleaseTopic(status)
      PROVE  GoesOn \/ Ends
  <2>1. Top.pc \in EntryPcs /\ Top.pc # "callback"
    BY <1>7 DEF ReleaseTopic, At, EntryPcs
  <2> DEFINE n == Find(<< Top.key, status >>)
             pc == IF status = "accepted" THEN "wait_accepted" ELSE "wait_rejected"
             f == [Top EXCEPT !.pc = pc, !.acc = n]
  <2>2. CASE TopicDone(status)
    BY <1>1, <2>1, <2>2, DoneShape
  <2>3. CASE n # NoSlot /\ Continue(f)
    <3>1. n \in SubSlots /\ pc \in Pcs /\ pc # "callback"
      BY <2>3, FindFacts DEF Pcs
    <3>2. Continue(f)
      BY <2>3
    <3> HIDE DEF n, pc
    <3>3. /\ f \in Frames /\ f.op = Top.op /\ f.pc = pc /\ f.token = Top.token
          /\ f.i = Top.i
      BY <1>1, <3>1, ChangedAcc
    <3> HIDE DEF f
    <3> QED
      BY <1>1, <2>1, <3>1, <3>2, <3>3 DEF GoesOn
  <2> QED
    BY <1>7, <2>2, <2>3 DEF ReleaseTopic
<1>8. ASSUME NEW status \in Status, UnsubscribedTopic(status)
      PROVE  GoesOn \/ Ends
  <2>1. Top.pc \in EntryPcs /\ Top.pc # "callback"
    BY <1>8 DEF UnsubscribedTopic, At, EntryPcs
  <2> QED
    BY <1>1, <1>8, <2>1, DoneShape DEF UnsubscribedTopic
<1>9. Top.pc \in ActionPcs \/ Scan \/ CallbackReturn
      \/ \E status \in Status : ReleaseTopic(status) \/ UnsubscribedTopic(status)
  BY DEF Library, SubscribedAccepted, SubscribedRejected, SubscribeFailed, Cleanup, Published,
         PublishFailed, At, ActionPcs
<1> QED
  BY <1>1, <1>4, <1>5, <1>6, <1>7, <1>8, <1>9

-----------------------------------------------------------------------------
(* An action is reported once *)

Fewer ==
    \A i \in AckSlots : Live(i)' => Live(i) /\ ackWaitList'[i].token = ackWaitList[i].token

\* A step that starts, publishes and reports nothing.
LEMMA QuietOnce ==
    ASSUME ShadowTypes, ShadowTypes', OnceInv, Fewer, Reported',
           UNCHANGED << pending, callbacks, used >>, Len(stack') <= Len(stack),
           \A n \in 1..Len(stack') :
              stack'[n].op = stack[n].op /\ stack'[n].token = stack[n].token
    PROVE  OnceInv'
<1>1. \A n \in 1..Len(stack') : n \in 1..Len(stack)
  BY DEF ShadowTypes, Typed, TypeOK
<1>2. EntriesTyped'
  BY DEF ShadowTypes
<1>3. Known'
  BY <1>1 DEF OnceInv, Known, Fewer
<1>4. Started'
  BY <1>1 DEF OnceInv, Started, Fewer
<1>5. Unique'
  BY DEF OnceInv, Unique, Fewer
<1>6. Handled'
  BY <1>1 DEF OnceInv, Handled
<1>7. CalledOnce'
  BY DEF OnceInv, CalledOnce
<1> QED
  BY <1>2, <1>3, <1>4, <1>5, <1>6, <1>7 DEF OnceInv

\* The same calls, one of them over perhaps.
LEMMA ShapeKept ==
    ASSUME ShadowTypes, stack # << >>, GoesOn \/ Ends
    PROVE  /\ Len(stack') <= Len(stack)
           /\ \A n \in 1..Len(stack') : stack'[n].op = stack[n].op
                                        /\ stack'[n].token = stack[n].token
           /\ \A n \in 1..Len(stack) : stack[n].op = "ack" =>
                 \/ ackWaitList'[stack[n].i].free
                 \/ n \in 1..Len(stack') /\ stack'[n].i = stack[n].i
<1> DEFINE d == Len(stack)
<1>1. d \in Nat /\ d > 0 /\ Top = stack[d]
  BY TopFacts DEF ShadowTypes
<1>2. CASE GoesOn
  <2>1. PICK f \in Frames : /\ Continue(f) /\ f.op = Top.op /\ f.token = Top.token
                            /\ Top.op # "expire" => f.i = Top.i
    BY <1>2 DEF GoesOn
  <2>2. /\ Len(stack') = d /\ stack'[d] = f
        /\ \A n \in 1..(d - 1) : stack'[n] = stack[n]
    BY <2>1, Continued DEF ShadowTypes
  <2>3. \A n \in 1..d : n \in 1..(d - 1) \/ n = d
    BY <1>1
  <2> HIDE DEF d
  <2>4. \A n \in 1..d : /\ stack'[n].op = stack[n].op /\ stack'[n].token = stack[n].token
                        /\ stack[n].op = "ack" => stack'[n].i = stack[n].i
    BY <1>1, <2>1, <2>2, <2>3
  <2>5. Len(stack') <= d
    BY <1>1, <2>2
  <2> QED
    BY <2>2, <2>4, <2>5 DEF d
<1>3. CASE Ends
  <2>1. /\ Len(stack') = d - 1
        /\ \A n \in 1..(d - 1) : stack'[n] = stack[n]
    BY <1>3, Returned DEF ShadowTypes, Ends
  <2>2. \A n \in 1..d : n \in 1..(d - 1) \/ n = d
    BY <1>1
  <2>3. Top.op = "ack" => ackWaitList'[Top.i].free
    BY <1>3 DEF Ends
  <2> HIDE DEF d
  <2>4. d - 1 <= d
    BY <1>1
  <2> QED
    BY <1>1, <2>1, <2>2, <2>3, <2>4 DEF d
<1> QED
  BY <1>2, <1>3

LEMMA LibraryQuiet ==
    ASSUME ShadowTypes, ShadowTypes', OnceInv, Library, Fewer,
           UNCHANGED << pending, callbacks, used >>
    PROVE  OnceInv'
<1>1. stack # << >> /\ (GoesOn \/ Ends)
  BY LibraryShape
<1>2. /\ Len(stack') <= Len(stack)
      /\ \A n \in 1..Len(stack') : stack'[n].op = stack[n].op
                                   /\ stack'[n].token = stack[n].token
      /\ \A n \in 1..Len(stack) : stack[n].op = "ack" =>
            \/ ackWaitList'[stack[n].i].free
            \/ n \in 1..Len(stack') /\ stack'[n].i = stack[n].i
  BY <1>1, ShapeKept
<1>3. Reported'
  <2> SUFFICES ASSUME NEW i \in AckSlots, Live(i)', callbacks[ackWaitList'[i].token] > 0
               PROVE  Marked(i)'
    BY DEF Reported
  <2>1. /\ Live(i) /\ ackWaitList'[i].token = ackWaitList[i].token
        /\ ~ackWaitList'[i].free
    BY DEF Fewer, Live
  <2>2. Marked(i)
    BY <2>1 DEF OnceInv, Reported
  <2>3. CASE \E n \in 1..Len(stack) : /\ stack[n].op = "ack" /\ stack[n].i = i
                                      /\ stack[n].token = ackWaitList[i].token
    <3>1. PICK n \in 1..Len(stack) : /\ stack[n].op = "ack" /\ stack[n].i = i
                                     /\ stack[n].token = ackWaitList[i].token
      BY <2>3
    <3>2. n \in 1..Len(stack') /\ stack'[n].i = i
      BY <1>2, <2>1, <3>1
    <3> QED
      BY <1>2, <2>1, <3>1, <3>2 DEF Marked
  <2>4. CASE Top.op = "expire" /\ Top.pc = "callback" /\ Top.i = i
    BY <1>1, <2>1, <2>4 DEF GoesOn, Ends
  <2> QED
    BY <2>2, <2>3, <2>4, TopFacts DEF Marked, ShadowTypes
<1> QED
  BY <1>2, <1>3, QuietOnce

\* The application starts an action,
LEMMA StartOnce ==
    ASSUME ShadowTypes, ShadowTypes', OnceInv, CallbacksAct = FALSE,
           NEW token \in Tokens, token \notin used, used' = used \cup { token },
           MayAct, NEW f \in Frames, Push(f), f.op = "action", f.token = token,
           UNCHANGED << ackWaitList, pending, callbacks >>
    PROVE  OnceInv'
<1> DEFINE d == Len(stack)
<1>1. /\ Len(stack') = d + 1 /\ stack'[d + 1] = f /\ d \in Nat
      /\ \A n \in 1..d : stack'[n] = stack[n]
  BY Pushed DEF ShadowTypes, Typed, TypeOK
<1>2. \A n \in 1..(d + 1) : n \in 1..d \/ n = d + 1
  BY <1>1
<1>2a. \A n \in 1..d : n \in 1..(d + 1) /\ n # d + 1
  BY <1>1
<1>3. \A i \in AckSlots : Live(i)' <=> Live(i)
  BY DEF Live
<1>4. /\ callbacks[token] = 0 /\ \A k \in Keys : << token, k >> \notin pending
      /\ \A i \in AckSlots : Live(i) => ackWaitList[i].token # token
      /\ \A n \in 1..d : stack[n].op = "action" => stack[n].token # token
  <2>1. callbacks[token] \in Nat
    BY DEF ShadowTypes, Typed, TypeOK
  <2> QED
    BY <2>1 DEF OnceInv, Known
<1> HIDE DEF d
<1>5. EntriesTyped' /\ CalledOnce'
  BY DEF ShadowTypes, OnceInv, CalledOnce
<1>6. Known'
  BY <1>1, <1>2, <1>3 DEF OnceInv, Known, d
<1>7. Started'
  <2> SUFFICES ASSUME NEW n \in 1..(d + 1), stack'[n].op = "action"
               PROVE  /\ callbacks[stack'[n].token] = 0
                      /\ \A k \in Keys : << stack'[n].token, k >> \notin pending
                      /\ \A i \in AckSlots : Live(i) =>
                            ackWaitList[i].token # stack'[n].token
                      /\ \A m \in 1..(d + 1) : stack'[m].op = "action" /\ m # n =>
                            stack'[m].token # stack'[n].token
    BY <1>1, <1>3 DEF Started
  <2>1. CASE n = d + 1
    BY <1>1, <1>2, <1>4, <2>1
  <2>2. CASE n \in 1..d
    <3>1. stack[n].op = "action" /\ stack'[n] = stack[n]
      BY <1>1, <2>2
    <3>2. /\ callbacks[stack[n].token] = 0
          /\ \A k \in Keys : << stack[n].token, k >> \notin pending
          /\ \A i \in AckSlots : Live(i) => ackWaitList[i].token # stack[n].token
          /\ \A m \in 1..d : stack[m].op = "action" /\ m # n =>
                stack[m].token # stack[n].token
      BY <2>2, <3>1 DEF OnceInv, Started, d
    <3> QED
      BY <1>1, <1>2, <1>4, <2>2, <3>1, <3>2
  <2> QED
    BY <1>2, <2>1, <2>2
<1>8. Unique'
  BY <1>3 DEF OnceInv, Unique
<1>9. Handled'
  BY <1>1, <1>2 DEF OnceInv, Handled, d
<1>10. Reported'
  <2> SUFFICES ASSUME NEW i \in AckSlots, Live(i), callbacks[ackWaitList[i].token] > 0
               PROVE  Marked(i)'
    BY <1>3 DEF Reported
  <2>1. ~(d > 0 /\ stack[d].op = "expire" /\ stack[d].pc = "callback")
    <3>1. SUFFICES ASSUME d > 0
                   PROVE  Top = stack[d] /\ Top.pc # "callback"
      OBVIOUS
    <3>2. stack # << >> /\ Top = stack[d]
      BY <3>1, TopFacts DEF ShadowTypes, d
    <3> QED
      BY <3>2 DEF MayAct, Reading
  <2>2. PICK n \in 1..d : /\ stack[n].op = "ack" /\ stack[n].i = i
                          /\ stack[n].token = ackWaitList[i].token
    BY <2>1 DEF OnceInv, Reported, Marked, d
  <2> QED
    BY <1>1, <1>2a, <2>2 DEF Marked
<1> QED
  BY <1>5, <1>6, <1>7, <1>8, <1>9, <1>10 DEF OnceInv

\* The frame of an action that was just started.
LEMMA NewAction ==
    ASSUME Typed, NEW token \in Tokens, NEW key \in Keys, NEW sticky \in Stickies[key],
           \/ ActionShares(token, key, sticky)
           \/ ActionSubscribes(token, key, sticky)
           \/ ActionOutOfRecords(token, key, sticky)
    PROVE  \E f \in Frames : /\ Push(f) /\ f.op = "action" /\ f.token = token
                             /\ f.i = Min(FreeAcks) /\ f.i \in FreeAcks
                             /\ f.key = key /\ f.sticky = sticky
<1>0. sticky \in BOOLEAN
  BY ShadowAssumption
<1>1. FreeAcks # {}
  BY DEF ActionShares, ActionSubscribes, ActionOutOfRecords
<1>2. Min(FreeAcks) \in FreeAcks /\ Min(FreeAcks) \in AckSlots
  BY <1>1, FreeFacts
<1>3. PICK pc, acc, rej :
         Push(Frame("action", pc, key, token, sticky, Min(FreeAcks), acc, rej, "SUCCESS"))
  BY DEF ActionShares, ActionSubscribes, ActionOutOfRecords
<1> DEFINE f == Frame("action", pc, key, token, sticky, Min(FreeAcks), acc, rej, "SUCCESS")
<1>4. /\ f.op = "action" /\ f.token = token /\ f.i = Min(FreeAcks)
      /\ f.key = key /\ f.sticky = sticky
  BY DEF Frame
<1>5. stack' \in Seq(Frames) /\ Len(stack) + 1 \in 1..Len(stack') /\ stack'[Len(stack) + 1] = f
  <2>1. Typed'
    BY ApplicationTyped DEF Application
  <2>2. stack' \in Seq(Frames) /\ stack \in Seq(Frames)
    BY <2>1 DEF Typed, TypeOK
  <2> HIDE DEF f
  <2>3. stack' = Append(stack, f)
    BY <1>3 DEF Push, f
  <2>4. Len(stack) \in Nat /\ Len(stack') = Len(stack) + 1 /\ stack'[Len(stack) + 1] = f
    BY <2>2, <2>3
  <2> QED
    BY <2>2, <2>4
<1>6. f \in Frames
  <2> HIDE DEF f
  <2> QED
    BY <1>5
<1> QED
  BY <1>2, <1>3, <1>4, <1>6

LEMMA ApplicationOnce ==
    ASSUME ShadowTypes, ShadowTypes', OnceInv, CallbacksAct = FALSE, Application
    PROVE  OnceInv'
<1> USE DEF records, mqtt, history
<1>1. PICK token \in Tokens :
        \/ ActionRefused(token)
        \/ \E key \in Keys : \E sticky \in Stickies[key] :
              \/ ActionShares(token, key, sticky)
              \/ ActionSubscribes(token, key, sticky)
              \/ ActionOutOfRecords(token, key, sticky)
  BY DEF Application
<1>2. CASE ActionRefused(token)
  <2>1. UNCHANGED << ackWaitList, pending, callbacks, stack >> /\ used' = used \cup { token }
    BY <1>2 DEF ActionRefused
  <2>2. \A i \in AckSlots : (Live(i)' <=> Live(i)) /\ (Marked(i)' <=> Marked(i))
    BY <2>1 DEF Live, Marked
  <2>3. Known'
    BY <2>1, <2>2 DEF OnceInv, Known
  <2>4. EntriesTyped' /\ Started' /\ Unique'
    BY <2>1, <2>2 DEF OnceInv, EntriesTyped, Started, Unique
  <2>5. Handled' /\ Reported' /\ CalledOnce'
    BY <2>1, <2>2 DEF OnceInv, Handled, Reported, CalledOnce
  <2> QED
    BY <2>3, <2>4, <2>5 DEF OnceInv
<1>3. ASSUME NEW key \in Keys, NEW sticky \in Stickies[key],
             \/ ActionShares(token, key, sticky)
             \/ ActionSubscribes(token, key, sticky)
             \/ ActionOutOfRecords(token, key, sticky)
      PROVE  OnceInv'
  <2>1. PICK f \in Frames : Push(f) /\ f.op = "action" /\ f.token = token
    BY <1>3, NewAction DEF ShadowTypes
  <2>2. /\ MayAct /\ token \notin used /\ used' = used \cup { token }
        /\ UNCHANGED << ackWaitList, pending, callbacks >>
    BY <1>3 DEF ActionShares, ActionSubscribes, ActionOutOfRecords
  <2> QED
    BY <2>1, <2>2, StartOnce
<1> QED
  BY <1>1, <1>2, <1>3

\* publishes it,
LEMMA PublishOnce ==
    ASSUME ShadowTypes, ShadowTypes', OnceInv, Published
    PROVE  OnceInv'
<1> DEFINE d == Len(stack)
           t == Top.token
           e == Top.i
<1>1. stack # << >> /\ Top.pc = "publish"
  BY DEF Published, At
<1>2. /\ Top = stack[d] /\ FrameFits(Top) /\ Top.op \in { "action", "ack", "expire" }
      /\ d \in Nat /\ d > 0 /\ d \in 1..d
  BY <1>1, TopFacts, FrameFields DEF ShadowTypes
<1>3. Top.op = "action" /\ t \in Tokens /\ e \in AckSlots /\ Top.key \in Keys
  BY <1>1, <1>2 DEF FrameFits, EntryPcs
<1>4. /\ Len(stack') = d - 1 /\ \A n \in 1..(d - 1) : stack'[n] = stack[n]
  BY <1>1, Returned DEF Published, ShadowTypes
<1>5. \A n \in 1..(d - 1) : n \in 1..d /\ n # d
  BY <1>2
<1>6. /\ pending' = pending \cup { << t, Top.key >> }
      /\ ackWaitList' = [ackWaitList EXCEPT ![e] = [free |-> FALSE, token |-> t,
                                                     key |-> Top.key]]
      /\ UNCHANGED << callbacks, used >>
  BY DEF Published
<1>7. /\ callbacks[t] = 0 /\ t \in used
      /\ \A k \in Keys : << t, k >> \notin pending
      /\ \A i \in AckSlots : Live(i) => ackWaitList[i].token # t
      /\ \A n \in 1..(d - 1) : stack[n].op = "action" => stack[n].token # t
  BY <1>2, <1>3, <1>5 DEF OnceInv, Started, Known
<1>8. /\ ackWaitList'[e].token = t
      /\ \A i \in AckSlots : i # e => /\ ackWaitList'[i] = ackWaitList[i]
                                      /\ (Live(i)' <=> Live(i))
  <2>1. ackWaitList \in [AckSlots -> EntryRecords]
    BY TypedParts DEF ShadowTypes
  <2>2. /\ ackWaitList'[e] = [free |-> FALSE, token |-> t, key |-> Top.key]
        /\ \A i \in AckSlots : i # e => ackWaitList'[i] = ackWaitList[i]
    BY <1>3, <1>6, <2>1
  <2> HIDE DEF e
  <2> QED
    BY <2>2 DEF Live
<1> HIDE DEF d, t, e
<1>9. EntriesTyped' /\ CalledOnce'
  BY <1>6 DEF ShadowTypes, OnceInv, CalledOnce
<1>10. Known'
  <2>1. \A s \in Tokens, k \in Keys : << s, k >> \in pending' => s \in used'
    BY <1>3, <1>6, <1>7 DEF OnceInv, Known
  <2>2. \A i \in AckSlots : Live(i)' => ackWaitList'[i].token \in used'
    BY <1>6, <1>7, <1>8 DEF OnceInv, Known
  <2>3. \A n \in 1..(d - 1) : stack'[n].op = "action" => stack'[n].token \in used'
    BY <1>4, <1>5, <1>6 DEF OnceInv, Known, d
  <2> QED
    BY <1>4, <1>6, <2>1, <2>2, <2>3 DEF OnceInv, Known
<1>11. Started'
  <2> SUFFICES ASSUME NEW n \in 1..(d - 1), stack'[n].op = "action"
               PROVE  /\ callbacks'[stack'[n].token] = 0
                      /\ \A k \in Keys : << stack'[n].token, k >> \notin pending'
                      /\ \A i \in AckSlots : Live(i)' =>
                            ackWaitList'[i].token # stack'[n].token
                      /\ \A m \in 1..(d - 1) : stack'[m].op = "action" /\ m # n =>
                            stack'[m].token # stack'[n].token
    BY <1>4 DEF Started
  <2>1. stack'[n] = stack[n] /\ stack[n].op = "action" /\ stack[n].token # t
    BY <1>4, <1>7
  <2>2. /\ callbacks[stack[n].token] = 0
        /\ \A k \in Keys : << stack[n].token, k >> \notin pending
        /\ \A i \in AckSlots : Live(i) => ackWaitList[i].token # stack[n].token
        /\ \A m \in 1..d : stack[m].op = "action" /\ m # n => stack[m].token # stack[n].token
    BY <1>5, <2>1 DEF OnceInv, Started, d
  <2> QED
    BY <1>4, <1>5, <1>6, <1>8, <2>1, <2>2
<1>12. Unique'
  <2>1. ASSUME NEW i \in AckSlots, NEW j \in AckSlots, Live(i)', Live(j)',
               ackWaitList'[i].token = ackWaitList'[j].token
        PROVE  i = j
    BY <1>7, <1>8, <2>1 DEF OnceInv, Unique
  <2>2. ASSUME NEW s \in Tokens, NEW j \in Keys, NEW k \in Keys,
               << s, j >> \in pending', << s, k >> \in pending'
        PROVE  j = k
    BY <1>6, <1>7, <2>2 DEF OnceInv, Unique
  <2> QED
    BY <2>1, <2>2 DEF Unique
<1>13. Handled'
  <2> SUFFICES ASSUME NEW n \in 1..(d - 1)
               PROVE  /\ stack'[n].op = "ack" =>
                            /\ callbacks'[stack'[n].token] > 0
                            /\ \A k \in Keys : << stack'[n].token, k >> \notin pending'
                      /\ stack'[n].op = "expire" => n = 1
    BY <1>4 DEF Handled
  <2>1. stack'[n] = stack[n] /\ n \in 1..d
    BY <1>4, <1>5
  <2>2. /\ stack[n].op = "ack" =>
              /\ callbacks[stack[n].token] > 0
              /\ \A k \in Keys : << stack[n].token, k >> \notin pending
        /\ stack[n].op = "expire" => n = 1
    BY <2>1 DEF OnceInv, Handled, d
  <2> QED
    BY <1>6, <1>7, <2>1, <2>2
<1>14. Reported'
  <2> SUFFICES ASSUME NEW i \in AckSlots, Live(i)', callbacks'[ackWaitList'[i].token] > 0
               PROVE  Marked(i)'
    BY DEF Reported
  <2>1. i # e
    BY <1>6, <1>7, <1>8
  <2>2. ackWaitList'[i] = ackWaitList[i] /\ Live(i) /\ callbacks[ackWaitList[i].token] > 0
    BY <1>6, <1>8, <2>1
  <2>3. Marked(i)
    BY <2>2 DEF OnceInv, Reported
  <2>4. PICK n \in 1..d : /\ stack[n].op = "ack" /\ stack[n].i = i
                          /\ stack[n].token = ackWaitList[i].token
    BY <1>2, <1>3, <2>3 DEF Marked, d
  <2>5. n \in 1..(d - 1)
    BY <1>2, <1>3, <2>4
  <2> QED
    BY <1>4, <2>2, <2>4, <2>5 DEF Marked
<1> QED
  BY <1>9, <1>10, <1>11, <1>12, <1>13, <1>14 DEF OnceInv

\* the scan reports an expired entry: no other call is in progress,
LEMMA ExpireOnce ==
    ASSUME ShadowTypes, ShadowTypes', OnceInv, Scan, NEW f \in Frames, Continue(f),
           f.op = "expire", f.pc = "callback", f.i = Top.i, f.token = Top.token,
           Top.op = "expire", Top.i \in AckSlots, Live(Top.i),
           callbacks' = [callbacks EXCEPT ![ackWaitList[Top.i].token] = @ + 1]
    PROVE  OnceInv'
<1> DEFINE e == Top.i
           t == ackWaitList[e].token
<1>1. stack # << >> /\ Top.pc = "scan"
  BY DEF Scan, At
<1>2. Top = stack[Len(stack)] /\ Len(stack) \in 1..Len(stack)
  BY <1>1, TopFacts DEF ShadowTypes
<1>3. Len(stack) = 1 /\ stack[1].op = "expire" /\ stack[1].pc = "scan"
  BY <1>1, <1>2 DEF OnceInv, Handled
<1>4. Len(stack') = 1 /\ stack'[1] = f
  BY <1>1, <1>3, Continued DEF ShadowTypes
<1>5. \A n \in 1..1 : n = 1
  OBVIOUS
<1>6. UNCHANGED << ackWaitList, pending, used >>
  BY DEF Scan, records
<1>7. /\ t \in Tokens /\ callbacks \in [Tokens -> Nat] /\ t \in used
      /\ e \in AckSlots /\ Live(e)
  BY DEF ShadowTypes, EntriesTyped, Typed, TypeOK, OnceInv, Known
<1>8. callbacks[t] = 0
  <2>1. ~Marked(e)
    BY <1>3, <1>5 DEF Marked
  <2> QED
    BY <1>7, <2>1 DEF OnceInv, Reported
<1>9. /\ callbacks'[t] = 1 /\ \A s \in Tokens : s # t => callbacks'[s] = callbacks[s]
  BY <1>7, <1>8
<1>10. \A i \in AckSlots : Live(i)' <=> Live(i)
  BY <1>6 DEF Live
<1> HIDE DEF e, t
<1>11. EntriesTyped'
  BY DEF ShadowTypes
<1>12. Known'
  <2>1. \A s \in Tokens : callbacks'[s] > 0 => s \in used
    BY <1>7, <1>9 DEF OnceInv, Known
  <2> QED
    BY <1>4, <1>5, <1>6, <1>10, <2>1 DEF OnceInv, Known
<1>13. Started'
  BY <1>4, <1>5 DEF Started
<1>14. Unique'
  BY <1>6, <1>10 DEF OnceInv, Unique
<1>15. Handled'
  BY <1>4, <1>5 DEF Handled
<1>16. CalledOnce'
  BY <1>9 DEF OnceInv, CalledOnce
<1>17. Reported'
  <2> SUFFICES ASSUME NEW i \in AckSlots, Live(i)', callbacks'[ackWaitList'[i].token] > 0
               PROVE  Marked(i)'
    BY DEF Reported
  <2>1. Live(i) /\ callbacks'[ackWaitList[i].token] > 0 /\ ackWaitList[i].token \in Tokens
    BY <1>6, <1>10 DEF ShadowTypes, EntriesTyped
  <2>2. CASE i = e
    <3>1. f.i = i
      BY <2>2 DEF e
    <3> QED
      BY <1>4, <3>1 DEF Marked
  <2>3. CASE i # e
    <3>1. ackWaitList[i].token # t
      BY <1>7, <2>1, <2>3 DEF OnceInv, Unique, t
    <3>2. Marked(i)
      BY <1>9, <2>1, <3>1 DEF OnceInv, Reported
    <3> QED
      BY <1>3, <1>5, <3>2 DEF Marked
  <2> QED
    BY <2>2, <2>3
<1> QED
  BY <1>11, <1>12, <1>13, <1>14, <1>15, <1>16, <1>17 DEF OnceInv

\* and a response reports the entry that has its client token.
LEMMA ResponseOnce ==
    ASSUME ShadowTypes, ShadowTypes', OnceInv, NEW t \in Tokens, NEW key \in Keys,
           NEW status \in Status, Response(t, key, status)
    PROVE  OnceInv'
<1> USE DEF records
<1>0. /\ Reading /\ << t, key >> \in pending /\ pending' = pending \ { << t, key >> }
      /\ UNCHANGED << ackWaitList, used >>
  BY DEF Response
<1>1. \A i \in AckSlots : Live(i)' <=> Live(i)
  BY <1>0 DEF Live
<1>2. EntriesTyped' /\ Unique'
  BY <1>0, <1>1 DEF ShadowTypes, OnceInv, Unique
<1>3. \A s \in Tokens, k \in Keys : << s, k >> \in pending' => << s, k >> \in pending
  BY <1>0
<1> DEFINE d == Len(stack)
<1>4. ~(d > 0 /\ stack[d].op = "expire" /\ stack[d].pc = "callback")
  <2>1. SUFFICES ASSUME d > 0
                 PROVE  stack[d].pc # "callback"
    OBVIOUS
  <2>2. stack # << >> /\ Top = stack[d]
    BY <2>1, TopFacts DEF ShadowTypes
  <2> QED
    BY <1>0, <2>2 DEF Reading
<1>5. CASE UNCHANGED << stack, callbacks >>
  <2>1. \A i \in AckSlots : Marked(i)' <=> Marked(i)
    BY <1>0, <1>5 DEF Marked
  <2>2. Known' /\ Started'
    BY <1>0, <1>1, <1>3, <1>5 DEF OnceInv, Known, Started
  <2>3. Handled' /\ Reported' /\ CalledOnce'
    BY <1>0, <1>1, <1>3, <1>5, <2>1 DEF OnceInv, Handled, Reported, CalledOnce
  <2> QED
    BY <1>2, <2>2, <2>3 DEF OnceInv
<1>6. CASE /\ callbacks' = [callbacks EXCEPT ![t] = @ + 1]
           /\ \E e \in AckSlots :
                 /\ Live(e) /\ ackWaitList[e].token = t
                 /\ Push(Frame("ack", "callback", key, t, FALSE, e, NoSlot, NoSlot, "SUCCESS"))
  <2>1. PICK e \in AckSlots :
                 /\ Live(e) /\ ackWaitList[e].token = t
                 /\ Push(Frame("ack", "callback", key, t, FALSE, e, NoSlot, NoSlot, "SUCCESS"))
    BY <1>6
  <2> DEFINE f == Frame("ack", "callback", key, t, FALSE, e, NoSlot, NoSlot, "SUCCESS")
  <2>2. f.op = "ack" /\ f.token = t /\ f.i = e
    BY DEF Frame
  <2>3. stack' = Append(stack, f)
    BY <2>1 DEF Push
  <2> HIDE DEF f
  <2>4. /\ d \in Nat /\ Len(stack') = d + 1 /\ stack'[d + 1] = f
        /\ \A n \in 1..d : stack'[n] = stack[n]
    BY <2>3 DEF ShadowTypes, Typed, TypeOK
  <2>5. \A n \in 1..(d + 1) : n \in 1..d \/ n = d + 1
    BY <2>4
  <2>6. \A n \in 1..d : n \in 1..(d + 1)
    BY <2>4
  <2>7. callbacks[t] = 0
    <3>1. SUFFICES ASSUME callbacks[t] > 0
                   PROVE  FALSE
      <4>1. callbacks[t] \in Nat
        BY DEF ShadowTypes, Typed, TypeOK
      <4> QED
        BY <4>1
    <3>2. Marked(e)
      BY <2>1, <3>1 DEF OnceInv, Reported
    <3>3. PICK n \in 1..d : stack[n].op = "ack" /\ stack[n].token = t
      BY <1>4, <2>1, <3>2 DEF Marked
    <3> QED
      BY <1>0, <3>3 DEF OnceInv, Handled
  <2>8. /\ callbacks'[t] = 1 /\ \A s \in Tokens : s # t => callbacks'[s] = callbacks[s]
        /\ t \in used
    <3>1. callbacks \in [Tokens -> Nat] /\ t \in used
      BY <1>0 DEF ShadowTypes, Typed, TypeOK, OnceInv, Known
    <3> QED
      BY <1>6, <2>7, <3>1
  <2>9. \A k \in Keys : << t, k >> \notin pending'
    BY <1>0 DEF OnceInv, Unique
  <2>10. \A n \in 1..d : stack[n].op = "action" => stack[n].token # t
    BY <2>1 DEF OnceInv, Started
  <2>10a. \A n \in 1..d : stack[n].op \in { "action", "ack" } => stack[n].token \in Tokens
    BY DEF ShadowTypes, Typed, StackFits, FrameFits
  <2> HIDE DEF d
  <2>11. Known'
    <3>1. \A s \in Tokens : callbacks'[s] > 0 => s \in used'
      BY <1>0, <2>8 DEF OnceInv, Known
    <3>2. \A n \in 1..Len(stack') : stack'[n].op = "action" => stack'[n].token \in used'
      BY <1>0, <2>2, <2>4, <2>5 DEF OnceInv, Known, d
    <3> QED
      BY <1>0, <1>1, <1>3, <3>1, <3>2 DEF OnceInv, Known
  <2>12. Started'
    <3> SUFFICES ASSUME NEW n \in 1..(d + 1), stack'[n].op = "action"
                 PROVE  /\ callbacks'[stack'[n].token] = 0
                        /\ \A k \in Keys : << stack'[n].token, k >> \notin pending'
                        /\ \A i \in AckSlots : Live(i)' =>
                              ackWaitList'[i].token # stack'[n].token
                        /\ \A m \in 1..(d + 1) : stack'[m].op = "action" /\ m # n =>
                              stack'[m].token # stack'[n].token
      BY <2>4 DEF Started
    <3>1. n \in 1..d /\ stack'[n] = stack[n] /\ stack[n].op = "action"
      BY <2>2, <2>4, <2>5
    <3>2. stack[n].token # t /\ stack[n].token \in Tokens
      BY <2>10, <2>10a, <3>1
    <3>3. /\ callbacks[stack[n].token] = 0
          /\ \A k \in Keys : << stack[n].token, k >> \notin pending
          /\ \A i \in AckSlots : Live(i) => ackWaitList[i].token # stack[n].token
          /\ \A m \in 1..d : stack[m].op = "action" /\ m # n =>
                stack[m].token # stack[n].token
      BY <3>1 DEF OnceInv, Started, d
    <3>4. \A m \in 1..(d + 1) : stack'[m].op = "action" =>
             m \in 1..d /\ stack'[m] = stack[m]
      BY <2>2, <2>4, <2>5
    <3> QED
      BY <1>0, <1>1, <1>3, <2>8, <3>1, <3>2, <3>3, <3>4
  <2>13. Handled'
    <3> SUFFICES ASSUME NEW n \in 1..(d + 1)
                 PROVE  /\ stack'[n].op = "ack" =>
                              /\ callbacks'[stack'[n].token] > 0
                              /\ \A k \in Keys : << stack'[n].token, k >> \notin pending'
                        /\ stack'[n].op = "expire" => n = 1
      BY <2>4 DEF Handled
    <3>1. CASE n = d + 1
      BY <2>2, <2>4, <2>8, <2>9, <3>1
    <3>2. CASE n \in 1..d
      <4>1. stack'[n] = stack[n]
        BY <2>4, <3>2
      <4>2. /\ stack[n].op = "ack" =>
                  /\ callbacks[stack[n].token] > 0
                  /\ \A k \in Keys : << stack[n].token, k >> \notin pending
            /\ stack[n].op = "expire" => n = 1
        BY <3>2 DEF OnceInv, Handled, d
      <4>3. stack[n].op = "ack" => stack[n].token \in Tokens
        BY <2>10a, <3>2
      <4> QED
        BY <1>3, <2>8, <4>1, <4>2, <4>3
    <3> QED
      BY <2>5, <3>1, <3>2
  <2>14. CalledOnce'
    BY <2>8 DEF OnceInv, CalledOnce
  <2>15. Reported'
    <3> SUFFICES ASSUME NEW i \in AckSlots, Live(i)', callbacks'[ackWaitList'[i].token] > 0
                 PROVE  Marked(i)'
      BY DEF Reported
    <3>1. Live(i) /\ callbacks'[ackWaitList[i].token] > 0 /\ ackWaitList[i].token \in Tokens
      BY <1>0, <1>1 DEF ShadowTypes, EntriesTyped
    <3>2. CASE i = e
      <4>1. d + 1 \in 1..(d + 1)
        BY <2>4
      <4> QED
        BY <1>0, <2>1, <2>2, <2>4, <3>2, <4>1 DEF Marked
    <3>3. CASE i # e
      <4>1. ackWaitList[i].token # t
        BY <2>1, <3>1, <3>3 DEF OnceInv, Unique
      <4>2. Marked(i)
        BY <2>8, <3>1, <4>1 DEF OnceInv, Reported
      <4>3. PICK n \in 1..d : /\ stack[n].op = "ack" /\ stack[n].i = i
                              /\ stack[n].token = ackWaitList[i].token
        BY <1>4, <4>2 DEF Marked, d
      <4> QED
        BY <1>0, <2>4, <2>6, <4>3 DEF Marked
    <3> QED
      BY <3>2, <3>3
  <2> QED
    BY <1>2, <2>11, <2>12, <2>13, <2>14, <2>15 DEF OnceInv
<1> DEFINE waiting == { i \in AckSlots : ~ackWaitList[i].free /\ ackWaitList[i].token = t }
<1>7. waiting # {} => Min(waiting) \in waiting
  <2>1. waiting \in SUBSET Nat
    BY Slots
  <2> QED
    BY <2>1, MinIn
<1>8. \/ UNCHANGED << stack, callbacks >>
      \/ /\ waiting # {} /\ callbacks' = [callbacks EXCEPT ![t] = @ + 1]
         /\ Push(Frame("ack", "callback", key, t, FALSE, Min(waiting), NoSlot, NoSlot,
                       "SUCCESS"))
  BY DEF Response
<1> QED
  BY <1>5, <1>6, <1>7, <1>8 DEF Live

\* A timer that runs out, yield's look for expired entries, and a new connect.
LEMMA OtherOnce ==
    ASSUME ShadowTypes, ShadowTypes', OnceInv,
           ShadowYield \/ ShadowConnect \/ (\E i \in AckSlots : TimerExpires(i))
    PROVE  OnceInv'
<1> USE DEF records, history
<1>1. CASE ShadowYield
  <2> DEFINE f == Frame("expire", "scan", None, None, FALSE, 0, NoSlot, NoSlot, "SUCCESS")
  <2>1. f.op = "expire" /\ f.pc = "scan"
    BY DEF Frame
  <2>2. /\ stack = << >> /\ stack' = Append(stack, f)
        /\ UNCHANGED << ackWaitList, pending, callbacks, used >>
    BY <1>1 DEF ShadowYield, Push
  <2> HIDE DEF f
  <2>3. Len(stack) = 0 /\ Len(stack') = 1 /\ stack'[1] = f
    BY <2>2
  <2>4. \A n \in 1..1 : n = 1
    OBVIOUS
  <2>5. \A i \in AckSlots : (Live(i)' <=> Live(i)) /\ ~Marked(i)
    BY <2>2, <2>3 DEF Live, Marked
  <2>6. Known' /\ EntriesTyped' /\ Unique' /\ CalledOnce'
    BY <2>1, <2>2, <2>3, <2>4, <2>5
       DEF OnceInv, Known, ShadowTypes, Unique, CalledOnce
  <2>7. Started' /\ Handled'
    BY <2>1, <2>3, <2>4 DEF Started, Handled
  <2>8. Reported'
    BY <2>2, <2>5 DEF OnceInv, Reported
  <2> QED
    BY <2>6, <2>7, <2>8 DEF OnceInv
<1>2. CASE ShadowConnect
  <2>1. /\ stack' = stack /\ Len(stack) = 0 /\ UNCHANGED << pending, callbacks, used >>
    BY <1>2 DEF ShadowConnect
  <2>2. \A i \in AckSlots : ~Live(i)'
    <3>1. ackWaitList \in [AckSlots -> EntryRecords]
      BY TypedParts DEF ShadowTypes
    <3> QED
      BY <1>2, <3>1 DEF ShadowConnect, Live, EntryRecords
  <2>3. Fewer /\ Reported'
    BY <2>2 DEF Fewer, Reported
  <2> QED
    BY <2>1, <2>3, QuietOnce
<1>3. CASE \E i \in AckSlots : TimerExpires(i)
  <2>1. UNCHANGED << ackWaitList, pending, callbacks, used, stack >>
    BY <1>3 DEF TimerExpires
  <2>2. Fewer /\ Reported' /\ Len(stack') <= Len(stack)
    BY <2>1 DEF Fewer, OnceInv, Reported, Live, Marked, ShadowTypes, Typed, TypeOK
  <2> QED
    BY <2>1, <2>2, QuietOnce
<1> QED
  BY <1>1, <1>2, <1>3

LEMMA OnceNext ==
    ASSUME ShadowTypes, OnceInv, [Next]_vars, CallbacksAct = FALSE
    PROVE  OnceInv'
<1> USE DEF records, history, mqtt
<1>1. ShadowTypes'
  BY TypesNext
<1>2. CASE UNCHANGED vars
  BY <1>2 DEF vars, OnceInv, EntriesTyped, Known, Started, Unique, Handled, Reported,
     CalledOnce, Live, Marked
<1>3. CASE Application
  BY <1>1, <1>3, ApplicationOnce
<1>4. CASE Published
  BY <1>1, <1>4, PublishOnce
<1>5. CASE Library /\ ~Published
  <2>1. Fewer
    BY <1>5, EntriesStep DEF ShadowTypes, Fewer, Next
  <2>2. UNCHANGED << pending, used >> /\ (Scan \/ UNCHANGED callbacks)
    BY <1>5 DEF Library, SubscribedAccepted, SubscribedRejected, SubscribeFailed, Cleanup,
       PublishFailed, Scan, CallbackReturn, ReleaseTopic, UnsubscribedTopic
  <2>3. CASE UNCHANGED callbacks
    BY <1>1, <1>5, <2>1, <2>2, <2>3, LibraryQuiet
  <2>4. CASE Scan /\ ~UNCHANGED callbacks
    <3>1. /\ Top.i \in AckSlots /\ Live(Top.i) /\ Goto("callback")
          /\ callbacks' = [callbacks EXCEPT ![ackWaitList[Top.i].token] = @ + 1]
      BY <2>4 DEF Scan, Live
    <3>2. stack # << >> /\ Top.pc = "scan"
      BY <2>4 DEF Scan, At
    <3>3. Top \in Frames /\ FrameFits(Top) /\ Top.op \in { "action", "ack", "expire" }
      BY <3>2, TopFacts, FrameFields DEF ShadowTypes
    <3>4. Top.op = "expire"
      BY <3>2, <3>3 DEF FrameFits, ActionPcs, EntryPcs
    <3> DEFINE f == [Top EXCEPT !.pc = "callback"]
    <3>5. "callback" \in Pcs
      BY DEF Pcs
    <3>6. /\ f \in Frames /\ f.op = Top.op /\ f.pc = "callback" /\ f.token = Top.token
          /\ f.i = Top.i
      BY <3>3, <3>5, Changed
    <3>7. Continue(f)
      BY <3>1 DEF Goto
    <3> HIDE DEF f
    <3> QED
      BY <1>1, <2>4, <3>1, <3>4, <3>6, <3>7, ExpireOnce
  <2> QED
    BY <2>2, <2>3, <2>4
<1>6. CASE Service
  BY <1>1, <1>6, ResponseOnce DEF Service
<1>7. CASE ShadowYield \/ ShadowConnect \/ \E i \in AckSlots : TimerExpires(i)
  BY <1>1, <1>7, OtherOnce
<1> QED
  BY <1>2, <1>3, <1>4, <1>5, <1>6, <1>7 DEF Next, Library

LEMMA OnceInit == Init => OnceInv
<1> SUFFICES ASSUME Init
             PROVE  OnceInv
  OBVIOUS
<1>1. /\ \A i \in AckSlots : ~Live(i)
      /\ \A n \in 1..Len(stack) : FALSE
      /\ \A t \in Tokens : callbacks[t] = 0
      /\ pending = {}
  BY DEF Init, Live
<1> QED
  BY <1>1 DEF OnceInv, EntriesTyped, Known, Started, Unique, Handled, Reported, CalledOnce

\* If the response callbacks start no actions, an action's callback is called at
\* most once, as accepted, rejected or timed out: for all sizes of the lists, all
\* numbers of failures, new connects and late or ignored responses, and also when
\* the handlers of other messages start actions while one is under way.
THEOREM ShadowCalledOnce ==
    ASSUME CallbacksAct = FALSE
    PROVE  Spec => []CalledOnce
<1>1. Init => ShadowTypes /\ OnceInv
  BY OnceInit, TypedInit DEF ShadowTypes, OnceInv
<1>2. ShadowTypes /\ OnceInv /\ [Next]_vars => (ShadowTypes /\ OnceInv)'
  BY OnceNext, TypesNext
<1>3. ShadowTypes /\ OnceInv => CalledOnce
  BY DEF OnceInv
<1> QED
  BY <1>1, <1>2, <1>3, PTL DEF Spec

-----------------------------------------------------------------------------
(* An action that returned SUCCESS waits until it is reported *)

BetweenCalls == CallbacksAct = FALSE /\ HandlersAct = FALSE

\* Nothing but the publish of an action changes a live entry or makes one.
LEMMA TrackedKept ==
    ASSUME ShadowTypes, ShadowTypes', TrackInv, Fewer, UNCHANGED tracked,
           \A t \in Tokens : callbacks'[t] >= callbacks[t],
           \A i \in AckSlots : Live(i) /\ ~Live(i)' => callbacks[ackWaitList[i].token] > 0
    PROVE  ActionTracked'
<1> SUFFICES ASSUME NEW t \in tracked, callbacks'[t] = 0
             PROVE  \E i \in AckSlots : ~ackWaitList'[i].free /\ ackWaitList'[i].token = t
  BY DEF ActionTracked
<1>1. t \in Tokens /\ callbacks[t] \in Nat
  BY DEF ShadowTypes, Typed, TypeOK
<1>2. callbacks[t] = 0
  BY <1>1
<1>3. PICK i \in AckSlots : ~ackWaitList[i].free /\ ackWaitList[i].token = t
  BY <1>2 DEF TrackInv, ActionTracked
<1>4. Live(i)'
  BY <1>2, <1>3 DEF Live
<1> QED
  BY <1>3, <1>4 DEF Fewer, Live

LEMMA LibraryTrack ==
    ASSUME ShadowTypes, ShadowTypes', TrackInv, Library, ~Published
    PROVE  TrackInv'
<1> DEFINE d == Len(stack)
<1>1. stack # << >> /\ (GoesOn \/ Ends)
  BY LibraryShape
<1>2. /\ d \in Nat /\ d \in 1..d /\ Top = stack[d] /\ Top \in Frames /\ FrameFits(Top)
      /\ \A n \in 1..d : n \in 1..(d - 1) \/ n = d
  BY <1>1, TopFacts DEF ShadowTypes
<1>3. Fewer
  BY EntriesStep DEF ShadowTypes, Fewer, Next
<1>4. \A t \in Tokens : callbacks[t] \in Nat /\ callbacks'[t] \in Nat
                         /\ callbacks'[t] >= callbacks[t]
  <2>1. /\ callbacks \in [Tokens -> Nat] /\ callbacks' \in [Tokens -> Nat]
    BY DEF ShadowTypes, Typed, TypeOK
  <2>2. CASE UNCHANGED callbacks
    BY <2>1, <2>2
  <2>3. CASE \E t \in Tokens : callbacks' = [callbacks EXCEPT ![t] = @ + 1]
    BY <2>1, <2>3
  <2>4. CASE Scan
    BY <2>2, <2>3, <2>4 DEF Scan, ShadowTypes, EntriesTyped, Live
  <2> QED
    BY <2>2, <2>4 DEF Library, SubscribedAccepted, SubscribedRejected, SubscribeFailed,
       Cleanup, PublishFailed, CallbackReturn, ReleaseTopic, UnsubscribedTopic, history
<1>5. /\ \A n \in 1..(d - 1) : n \in 1..d /\ stack'[n] = stack[n]
      /\ \A n \in 1..Len(stack') : n \in 1..(d - 1) \/ (n = d /\ Len(stack') = d)
      /\ Len(stack') = d => \E f \in Frames :
            /\ stack'[d] = f /\ f.op = Top.op
            /\ Top.op # "expire" => f.i = Top.i
            /\ f.op = "expire" /\ f.pc = "callback" =>
                  /\ Scan /\ f.i = Top.i /\ Top.i \in AckSlots /\ Live(Top.i)
                  /\ callbacks' = [callbacks EXCEPT ![ackWaitList[Top.i].token] = @ + 1]
  <2>1. CASE GoesOn
    <3>1. PICK f \in Frames :
            /\ Continue(f) /\ f.op = Top.op
            /\ Top.op # "expire" => f.i = Top.i
            /\ f.op = "expire" /\ f.pc = "callback" =>
                  /\ Scan /\ f.i = Top.i /\ Top.i \in AckSlots /\ Live(Top.i)
                  /\ callbacks' = [callbacks EXCEPT ![ackWaitList[Top.i].token] = @ + 1]
      BY <2>1 DEF GoesOn
    <3>2. /\ Len(stack') = d /\ stack'[d] = f
          /\ \A n \in 1..(d - 1) : stack'[n] = stack[n]
      BY <1>1, <3>1, Continued DEF ShadowTypes
    <3> HIDE DEF d
    <3> QED
      BY <1>2, <3>1, <3>2
  <2>2. CASE Ends
    <3>1. Len(stack') = d - 1 /\ \A n \in 1..(d - 1) : stack'[n] = stack[n]
      BY <1>1, <2>2, Returned DEF ShadowTypes, Ends
    <3> HIDE DEF d
    <3> QED
      BY <1>2, <3>1
  <2> QED
    BY <1>1, <2>1, <2>2
\* an entry that is freed was reported
<1>6. \A i \in AckSlots : Live(i) /\ ~Live(i)' => callbacks[ackWaitList[i].token] > 0
  <2>1. ackWaitList \in [AckSlots -> EntryRecords]
    BY TypedParts DEF ShadowTypes
  <2>2. CASE UNCHANGED ackWaitList
    BY <2>2 DEF Live
  <2>3. CASE /\ ackWaitList' = [ackWaitList EXCEPT ![Top.i].free = TRUE]
             /\ Top.op = "ack" \/ (Top.op = "expire" /\ Top.pc = "callback")
    <3>1. Live(Top.i) => callbacks[ackWaitList[Top.i].token] > 0
      BY <1>2, <2>3 DEF TrackInv, Informed
    <3> QED
      BY <2>1, <2>3, <3>1 DEF Live
  <2> QED
    BY <2>2, <2>3 DEF Library, SubscribedAccepted, SubscribedRejected, SubscribeFailed,
       Cleanup, PublishFailed, Scan, CallbackReturn, ReleaseTopic, UnsubscribedTopic,
       TopicDone, EntryDone, records, At
<1>7. UNCHANGED tracked
  BY DEF Library, SubscribedAccepted, SubscribedRejected, SubscribeFailed,
       Cleanup, PublishFailed, Scan, CallbackReturn, ReleaseTopic, UnsubscribedTopic, history
<1>8. ActionTracked'
  BY <1>3, <1>4, <1>6, <1>7, TrackedKept
<1> HIDE DEF d
<1>9. Bottom'
  <2> SUFFICES ASSUME NEW n \in 1..Len(stack'), stack'[n].op = "action"
               PROVE  n = 1 /\ ackWaitList'[stack'[n].i].free
    BY DEF Bottom, Live
  <2>1. n \in 1..d /\ stack[n].op = "action" /\ stack[n].i = stack'[n].i
    BY <1>2, <1>5
  <2>2. n = 1 /\ ~Live(stack[n].i) /\ stack[n].i \in AckSlots
    BY <2>1 DEF TrackInv, Bottom, ShadowTypes, Typed, StackFits, FrameFits, d
  <2> QED
    BY <1>3, <2>1, <2>2 DEF Fewer, Live
<1>10. Informed'
  <2> SUFFICES ASSUME NEW n \in 1..Len(stack'),
                      \/ stack'[n].op = "ack"
                      \/ stack'[n].op = "expire" /\ stack'[n].pc = "callback",
                      ~ackWaitList'[stack'[n].i].free
               PROVE  callbacks'[ackWaitList'[stack'[n].i].token] > 0
    BY DEF Informed, Live
  <2> DEFINE e == stack'[n].i
  <2>0. e \in AckSlots
    BY DEF ShadowTypes, Typed, StackFits, FrameFits, EntryPcs
  <2>1. Live(e) /\ ackWaitList'[e].token = ackWaitList[e].token /\ ackWaitList[e].token \in Tokens
    BY <1>3, <2>0 DEF Fewer, Live, ShadowTypes, EntriesTyped
  <2>2. CASE callbacks[ackWaitList[e].token] > 0
    BY <1>4, <2>1, <2>2
  <2>3. CASE n \in 1..d /\ stack[n].op = "ack" /\ stack[n].i = e
    BY <2>1, <2>2, <2>3 DEF TrackInv, Informed, d
  <2>4. CASE n \in 1..(d - 1)
    BY <1>5, <2>1, <2>2, <2>4 DEF TrackInv, Informed, d
  <2>5. CASE n = d /\ Len(stack') = d
    <3>1. CASE stack'[n].op = "ack"
      BY <1>2, <1>5, <2>3, <2>5, <3>1
    <3>2. CASE stack'[n].op = "expire" /\ stack'[n].pc = "callback"
      <4>1. /\ e = Top.i
            /\ callbacks' = [callbacks EXCEPT ![ackWaitList[Top.i].token] = @ + 1]
        BY <1>5, <2>5, <3>2
      <4>2. callbacks'[ackWaitList[e].token] = callbacks[ackWaitList[e].token] + 1
        BY <2>1, <4>1 DEF ShadowTypes, Typed, TypeOK
      <4> QED
        BY <1>4, <2>1, <4>2
    <3> QED
      BY <3>1, <3>2
  <2> QED
    BY <1>5, <2>4, <2>5
<1> QED
  BY <1>8, <1>9, <1>10 DEF TrackInv, ShadowTypes

LEMMA PublishTrack ==
    ASSUME ShadowTypes, ShadowTypes', TrackInv, Published
    PROVE  TrackInv'
<1> DEFINE t == Top.token
           e == Top.i
<1>1. stack # << >> /\ Top.pc = "publish"
  BY DEF Published, At
<1>2. /\ Top = stack[Len(stack)] /\ FrameFits(Top) /\ Top.op \in { "action", "ack", "expire" }
      /\ Len(stack) \in 1..Len(stack)
  BY <1>1, TopFacts, FrameFields DEF ShadowTypes
<1>3. Top.op = "action" /\ t \in Tokens /\ e \in AckSlots
  BY <1>1, <1>2 DEF FrameFits, EntryPcs
<1>4. Len(stack) = 1 /\ ~Live(e)
  BY <1>2, <1>3 DEF TrackInv, Bottom
<1>5. Len(stack') = 0
  BY <1>1, <1>4, Returned DEF Published, ShadowTypes
<1>6. Bottom' /\ Informed'
  BY <1>5 DEF Bottom, Informed
<1>7. /\ ackWaitList' = [ackWaitList EXCEPT ![e] = [free |-> FALSE, token |-> t,
                                                     key |-> Top.key]]
      /\ tracked' = tracked \cup { t } /\ UNCHANGED callbacks
      /\ ackWaitList \in [AckSlots -> EntryRecords]
  BY TypedParts DEF Published, ShadowTypes
<1>8. /\ ackWaitList'[e].token = t /\ ackWaitList'[e].free = FALSE
      /\ \A i \in AckSlots : i # e => ackWaitList'[i] = ackWaitList[i]
  BY <1>3, <1>7
<1> HIDE DEF t, e
<1>9. ActionTracked'
  <2> SUFFICES ASSUME NEW s \in tracked', callbacks[s] = 0
               PROVE  \E i \in AckSlots : ~ackWaitList'[i].free /\ ackWaitList'[i].token = s
    BY <1>7 DEF ActionTracked
  <2>1. CASE s = t
    BY <1>3, <1>8, <2>1
  <2>2. CASE s \in tracked
    <3>1. PICK i \in AckSlots : ~ackWaitList[i].free /\ ackWaitList[i].token = s
      BY <2>2 DEF TrackInv, ActionTracked
    <3>2. i # e
      BY <1>4, <3>1 DEF Live
    <3> QED
      BY <1>8, <3>1, <3>2
  <2> QED
    BY <1>7, <2>1, <2>2
<1> QED
  BY <1>6, <1>9 DEF TrackInv, ShadowTypes

LEMMA ApplicationTrack ==
    ASSUME ShadowTypes, ShadowTypes', TrackInv, BetweenCalls, Application
    PROVE  TrackInv'
<1> USE DEF records, mqtt, history
<1>1. PICK token \in Tokens :
        \/ ActionRefused(token)
        \/ \E key \in Keys : \E sticky \in Stickies[key] :
              \/ ActionShares(token, key, sticky)
              \/ ActionSubscribes(token, key, sticky)
              \/ ActionOutOfRecords(token, key, sticky)
  BY DEF Application
<1>2. UNCHANGED << ackWaitList, callbacks, tracked >> /\ MayAct
  BY <1>1 DEF ActionRefused, ActionShares, ActionSubscribes, ActionOutOfRecords
<1>3. ActionTracked' /\ EntriesTyped'
  BY <1>2 DEF TrackInv, ActionTracked, ShadowTypes
<1>4. CASE ActionRefused(token)
  <2>1. UNCHANGED stack
    BY <1>4 DEF ActionRefused
  <2>2. Bottom' /\ Informed'
    BY <1>2, <2>1 DEF TrackInv, Bottom, Informed, Live
  <2> QED
    BY <1>3, <2>2 DEF TrackInv
<1>5. ASSUME NEW key \in Keys, NEW sticky \in Stickies[key],
             \/ ActionShares(token, key, sticky)
             \/ ActionSubscribes(token, key, sticky)
             \/ ActionOutOfRecords(token, key, sticky)
      PROVE  TrackInv'
  <2>1. PICK f \in Frames : Push(f) /\ f.op = "action" /\ f.i \in FreeAcks
    BY <1>5, NewAction DEF ShadowTypes
  <2>2. Len(stack) = 0
    BY <1>2 DEF MayAct, BetweenCalls, ShadowTypes, Typed, TypeOK
  <2>3. Len(stack') = 1 /\ stack'[1] = f
    BY <2>1, <2>2, Pushed DEF ShadowTypes
  <2>4. \A n \in 1..1 : n = 1
    OBVIOUS
  <2>5. ackWaitList'[f.i].free
    BY <1>2, <2>1 DEF FreeAcks
  <2>6. Bottom'
    <3>1. \A n \in 1..Len(stack') : n = 1 /\ ackWaitList'[stack'[n].i].free
      BY <2>3, <2>4, <2>5
    <3> QED
      BY <3>1 DEF Bottom, Live
  <2>7. Informed'
    BY <2>1, <2>3, <2>4 DEF Informed
  <2> QED
    BY <1>3, <2>6, <2>7 DEF TrackInv
<1> QED
  BY <1>1, <1>4, <1>5

LEMMA ResponseTrack ==
    ASSUME ShadowTypes, ShadowTypes', TrackInv, NEW t \in Tokens, NEW key \in Keys,
           NEW status \in Status, Response(t, key, status)
    PROVE  TrackInv'
<1> USE DEF records
<1>1. UNCHANGED << ackWaitList, tracked >>
  BY DEF Response
<1>2. \A i \in AckSlots : Live(i)' <=> Live(i)
  BY <1>1 DEF Live
<1>3. callbacks \in [Tokens -> Nat]
  BY DEF ShadowTypes, Typed, TypeOK
<1>4. CASE UNCHANGED << stack, callbacks >>
  <2>1. ActionTracked' /\ Bottom' /\ Informed'
    BY <1>1, <1>4 DEF TrackInv, ActionTracked, Bottom, Informed, Live
  <2> QED
    BY <2>1 DEF TrackInv, ShadowTypes
<1>5. CASE /\ callbacks' = [callbacks EXCEPT ![t] = @ + 1]
           /\ \E e \in AckSlots :
                 /\ ackWaitList[e].token = t
                 /\ Push(Frame("ack", "callback", key, t, FALSE, e, NoSlot, NoSlot, "SUCCESS"))
  <2>1. PICK e \in AckSlots :
                 /\ ackWaitList[e].token = t
                 /\ Push(Frame("ack", "callback", key, t, FALSE, e, NoSlot, NoSlot, "SUCCESS"))
    BY <1>5
  <2> DEFINE f == Frame("ack", "callback", key, t, FALSE, e, NoSlot, NoSlot, "SUCCESS")
             d == Len(stack)
  <2>2. f.op = "ack" /\ f.i = e
    BY DEF Frame
  <2>3. stack' = Append(stack, f)
    BY <2>1 DEF Push
  <2> HIDE DEF f
  <2>4. /\ d \in Nat /\ Len(stack') = d + 1 /\ stack'[d + 1] = f
        /\ \A n \in 1..d : stack'[n] = stack[n]
    BY <2>3 DEF ShadowTypes, Typed, TypeOK
  <2>5. \A n \in 1..(d + 1) : n \in 1..d \/ n = d + 1
    BY <2>4
  <2> HIDE DEF d
  <2>6. \A s \in Tokens : callbacks[s] \in Nat /\ callbacks'[s] >= callbacks[s]
    BY <1>3, <1>5
  <2>7. callbacks'[t] = callbacks[t] + 1 /\ callbacks'[t] > 0
    BY <1>3, <1>5
  <2>8. ActionTracked'
    BY <1>1, <1>2, <2>6, TrackedKept DEF Fewer
  <2>9. Bottom'
    <3> SUFFICES ASSUME NEW n \in 1..(d + 1), stack'[n].op = "action"
                 PROVE  n = 1 /\ ackWaitList'[stack'[n].i].free
      BY <2>4 DEF Bottom, Live
    <3>1. n \in 1..d /\ stack'[n] = stack[n]
      BY <2>2, <2>4, <2>5
    <3> QED
      BY <1>1, <3>1 DEF TrackInv, Bottom, Live, d
  <2>10. Informed'
    <3> SUFFICES ASSUME NEW n \in 1..(d + 1),
                        \/ stack'[n].op = "ack"
                        \/ stack'[n].op = "expire" /\ stack'[n].pc = "callback",
                        ~ackWaitList'[stack'[n].i].free
                 PROVE  callbacks'[ackWaitList'[stack'[n].i].token] > 0
      BY <2>4 DEF Informed, Live
    <3>1. CASE n = d + 1
      BY <1>1, <2>1, <2>2, <2>4, <2>7, <3>1
    <3>2. CASE n \in 1..d
      <4>1. stack'[n] = stack[n] /\ Live(stack[n].i)
        BY <1>1, <2>4, <3>2 DEF Live
      <4>2. callbacks[ackWaitList[stack[n].i].token] > 0
        BY <3>2, <4>1 DEF TrackInv, Informed, d
      <4>3. stack[n].i \in AckSlots
        BY <3>2, <4>1 DEF ShadowTypes, Typed, StackFits, FrameFits, EntryPcs, d
      <4>4. ackWaitList[stack[n].i].token \in Tokens
        BY <4>1, <4>3 DEF ShadowTypes, EntriesTyped
      <4>5. callbacks'[ackWaitList[stack[n].i].token] > 0
        BY <2>6, <4>2, <4>4, <1>3, <1>5
      <4> QED
        BY <1>1, <4>1, <4>5
    <3> QED
      BY <2>5, <3>1, <3>2
  <2> QED
    BY <2>8, <2>9, <2>10 DEF TrackInv, ShadowTypes
<1> DEFINE waiting == { i \in AckSlots : ~ackWaitList[i].free /\ ackWaitList[i].token = t }
<1>6. waiting # {} => Min(waiting) \in waiting
  <2>1. waiting \in SUBSET Nat
    BY Slots
  <2> QED
    BY <2>1, MinIn
<1>7. \/ UNCHANGED << stack, callbacks >>
      \/ /\ waiting # {} /\ callbacks' = [callbacks EXCEPT ![t] = @ + 1]
         /\ Push(Frame("ack", "callback", key, t, FALSE, Min(waiting), NoSlot, NoSlot,
                       "SUCCESS"))
  BY DEF Response
<1> QED
  BY <1>4, <1>5, <1>6, <1>7

LEMMA TrackNext ==
    ASSUME ShadowTypes, TrackInv, [Next]_vars, BetweenCalls, MaxConnects = 0
    PROVE  TrackInv'
<1> USE DEF records, history, mqtt
<1>1. ShadowTypes'
  BY TypesNext
<1>2. CASE UNCHANGED vars
  BY <1>2 DEF vars, TrackInv, EntriesTyped, Bottom, Informed, ActionTracked, Live
<1>3. CASE Application
  BY <1>1, <1>3, ApplicationTrack
<1>4. CASE Published
  BY <1>1, <1>4, PublishTrack
<1>5. CASE Library /\ ~Published
  BY <1>1, <1>5, LibraryTrack
<1>6. CASE Service
  BY <1>1, <1>6, ResponseTrack DEF Service
<1>7. CASE ShadowConnect
  <2>1. connects \in 0..0 /\ connects < 0
    BY <1>7 DEF ShadowConnect, ShadowTypes, Typed, TypeOK
  <2> QED
    BY <2>1
<1>8. CASE ShadowYield
  <2> DEFINE f == Frame("expire", "scan", None, None, FALSE, 0, NoSlot, NoSlot, "SUCCESS")
  <2>1. f.op = "expire" /\ f.pc = "scan"
    BY DEF Frame
  <2>2. /\ stack = << >> /\ stack' = Append(stack, f)
        /\ UNCHANGED << ackWaitList, callbacks, tracked >>
    BY <1>8 DEF ShadowYield, Push
  <2> HIDE DEF f
  <2>3. Len(stack') = 1 /\ stack'[1] = f
    BY <2>2
  <2>4. \A n \in 1..1 : n = 1
    OBVIOUS
  <2>5. Bottom' /\ Informed'
    BY <2>1, <2>3, <2>4 DEF Bottom, Informed
  <2>6. ActionTracked'
    BY <2>2 DEF TrackInv, ActionTracked
  <2> QED
    BY <1>1, <2>5, <2>6 DEF TrackInv, ShadowTypes
<1>9. CASE \E i \in AckSlots : TimerExpires(i)
  <2>1. UNCHANGED << ackWaitList, callbacks, tracked, stack >>
    BY <1>9 DEF TimerExpires
  <2> QED
    BY <1>1, <2>1 DEF TrackInv, ShadowTypes, Bottom, Informed, ActionTracked, Live
<1> QED
  BY <1>2, <1>3, <1>4, <1>5, <1>6, <1>7, <1>8, <1>9 DEF Next, Library

LEMMA TrackInit == Init => TrackInv
<1> SUFFICES ASSUME Init
             PROVE  TrackInv
  OBVIOUS
<1>1. /\ \A i \in AckSlots : ~Live(i)
      /\ \A n \in 1..Len(stack) : FALSE
      /\ tracked = {}
  BY DEF Init, Live
<1> QED
  BY <1>1 DEF TrackInv, EntriesTyped, Bottom, Informed, ActionTracked

\* If actions are started between calls only, not by callbacks and not by the
\* handlers of other messages, an action that returned SUCCESS waits in the list until
\* its callback is called, as long as the application does not connect again: for
\* all sizes of the lists, full or not, and whatever MQTT calls fail.
THEOREM ShadowActionTracked ==
    ASSUME BetweenCalls, MaxConnects = 0
    PROVE  Spec => []ActionTracked
<1>1. Init => ShadowTypes /\ TrackInv
  BY TrackInit, TypedInit DEF ShadowTypes, TrackInv
<1>2. ShadowTypes /\ TrackInv /\ [Next]_vars => (ShadowTypes /\ TrackInv)'
  BY TrackNext, TypesNext
<1>3. ShadowTypes /\ TrackInv => ActionTracked
  BY DEF TrackInv
<1> QED
  BY <1>1, <1>2, <1>3, PTL DEF Spec

-----------------------------------------------------------------------------
(* The topics that are wanted are listened to, and no other                *)

\* What a call is about while it is in progress.
Owns(f) == f.pc \notin { "scan", "callback" }

WaitPcs == { "subscribe_accepted", "subscribe_rejected", "cleanup", "wait_accepted",
             "wait_rejected" }

\* A key that is used persistently is one with a persistent subscription.
Kept(key, keys) == TRUE \in Stickies[key] => key \in keys

\* A call about an entry of the list of waiting actions.
CallFits(f, list, keys) ==
    /\ f.op = "action" => f.sticky \in Stickies[f.key]
    /\ f.op = "expire" /\ Owns(f) => list[f.i].free
    /\ f.op = "expire" /\ f.pc = "callback" => ~list[f.i].free
    /\ f.op = "ack" => ~list[f.i].free /\ list[f.i].token = f.token /\ list[f.i].key = f.key
    /\ f.op # "action" /\ Owns(f) => f.key \in Keys /\ Kept(f.key, keys)

CallsFit == \A n \in 1..Len(stack) : CallFits(stack[n], ackWaitList, persistent)

\* A call is interrupted only where it waits for an answer,
Interrupted == \A n \in 1..Len(stack) : n < Len(stack) => stack[n].pc \in WaitPcs

\* and no two calls are about the same entry.
ApartIn(stk) == \A m, n \in 1..Len(stk) : stk[m].i = stk[n].i => m = n

EntriesFit ==
    \A i \in AckSlots : Live(i) =>
        /\ ackWaitList[i].key \in Keys /\ Kept(ackWaitList[i].key, persistent)
        /\ \A k \in Keys : << ackWaitList[i].token, k >> \in pending => k = ackWaitList[i].key

ControlInv == CallsFit /\ Interrupted /\ ApartIn(stack) /\ EntriesFit

\* Which topics an action still needs: those its call has subscribed and not
\* released, and both if it waits for its response.
Holds(f, s) ==
    \/ f.pc \in { "publish", "unsubscribe_accepted", "wait_accepted" }
    \/ f.pc = "subscribe_rejected" /\ s = "accepted"
    \/ f.pc \in { "unsubscribe_rejected", "wait_rejected" } /\ s = "rejected"

OwnerIn(stk, n, i) == Owns(stk[n]) /\ stk[n].i = i

UsesIn(stk, list, i, t) ==
    \/ \E n \in 1..Len(stk) : /\ OwnerIn(stk, n, i)
                              /\ stk[n].key = t[1] /\ Holds(stk[n], t[2])
    \/ /\ \A n \in 1..Len(stk) : ~OwnerIn(stk, n, i)
       /\ ~list[i].free /\ list[i].key = t[1]

UsersIn(stk, list, t) == { i \in AckSlots : UsesIn(stk, list, i, t) }

Users(t) == UsersIn(stack, ackWaitList, t)

Use(stk, list) == [t \in Topics |-> UsersIn(stk, list, t)]

\* The topics that should be subscribed.
ListedIn(use, keys) == { t \in Topics : use[t] # {} \/ t[1] \in keys }

\* The records of an action that is being started: taken, and not yet subscribed.
UnheardIn(stk) ==
    { n \in SubSlots : /\ Len(stk) > 0
                       /\ \/ stk[1].pc = "subscribe_accepted" /\ n \in { stk[1].acc, stk[1].rej }
                          \/ stk[1].pc = "subscribe_rejected" /\ n = stk[1].rej }

SettledIn(subs, unheard) == { n \in SubSlots : ~subs[n].free /\ n \notin unheard }

\* A record is the first one with its topic: one with the same topic that is free,
\* or whose topic is an old one, lies behind it.
Claims(subs, n, t) == \A i \in SubSlots : i # n /\ subs[i].topic = t => n < i

\* The list has the topics that should be subscribed, and no other,
RecordedIn(subs, settled, listed) ==
    /\ \A n \in settled : subs[n].topic \in listed /\ Claims(subs, n, subs[n].topic)
    /\ \A t \in listed : \E n \in settled : subs[n].topic = t

\* the MQTT client has a handler for each of its records,
HandledIn(hand, settled) ==
    /\ \A h \in HandlerSlots : hand[h] # NoSlot => hand[h] \in settled
    /\ \A g, h \in HandlerSlots : hand[g] # NoSlot /\ hand[g] = hand[h] => g = h
    /\ \A n \in settled : \E h \in HandlerSlots : hand[h] = n

\* and a record counts the actions that use it, unless it is kept for ever.
Sticks(key) == TRUE \in Stickies[key]

CountedIn(subs, settled, use) ==
    \A n \in settled :
        /\ subs[n].sticky <=> Sticks(subs[n].topic[1])
        /\ ~Sticks(subs[n].topic[1]) => subs[n].count = Cardinality(use[subs[n].topic])

ListIn(subs, hand, broker, unheard, use, keys) ==
    /\ RecordedIn(subs, SettledIn(subs, unheard), ListedIn(use, keys))
    /\ HandledIn(hand, SettledIn(subs, unheard))
    /\ broker = ListedIn(use, keys)
    /\ CountedIn(subs, SettledIn(subs, unheard), use)
    /\ \A k \in keys : Sticks(k)

\* The records of an action that is being started will be the first ones with
\* their topics.
BegunIn(f, subs, listed) ==
    /\ f.pc = "subscribe_accepted" =>
          /\ f.acc # f.rej /\ ~subs[f.acc].free /\ ~subs[f.rej].free
          /\ subs[f.acc].topic = << f.key, "accepted" >>
          /\ Claims(subs, f.acc, << f.key, "accepted" >>)
          /\ Claims(subs, f.rej, << f.key, "rejected" >>)
          /\ \A s \in Status : << f.key, s >> \notin listed
    /\ f.pc = "subscribe_rejected" =>
          /\ ~subs[f.rej].free
          /\ subs[f.rej].topic = << f.key, "rejected" >>
          /\ Claims(subs, f.rej, << f.key, "rejected" >>)
          /\ << f.key, "rejected" >> \notin listed

\* A topic that is being unsubscribed is used by the call that unsubscribes it only.
WaitPc(s) == IF s = "accepted" THEN "wait_accepted" ELSE "wait_rejected"

ReleasingIn(f, subs, unheard, use) ==
    \A s \in Status : f.pc = WaitPc(s) =>
        /\ f.acc \in SettledIn(subs, unheard) /\ subs[f.acc].topic = << f.key, s >>
        /\ ~Sticks(f.key) /\ use[<< f.key, s >>] = { f.i }

\* What a call in progress knows of the list.
CallListed(f, subs, unheard, use, keys) ==
    /\ f.pc # "cleanup"
    /\ BegunIn(f, subs, ListedIn(use, keys))
    /\ ReleasingIn(f, subs, unheard, use)

ListInv ==
    /\ ListIn(subscriptionList, messageHandlers, brokerSubs, UnheardIn(stack),
              Use(stack, ackWaitList), persistent)
    /\ \A n \in 1..Len(stack) : CallListed(stack[n], subscriptionList, UnheardIn(stack),
                                           Use(stack, ackWaitList), persistent)

-----------------------------------------------------------------------------
(* The calls in progress and their entries *)

LEMMA ChangedSticky ==
    ASSUME NEW f \in Frames, NEW pc \in Pcs
    PROVE  /\ [f EXCEPT !.pc = pc].sticky = f.sticky
           /\ [f EXCEPT !.pc = pc, !.ret = "FAILURE"].sticky = f.sticky
BY DEF Frames

\* A call that is not the innermost one waits, and is about an entry of the list.
LEMMA BelowFacts ==
    ASSUME ShadowTypes, ControlInv, NEW n \in 1..(Len(stack) - 1)
    PROVE  /\ n \in 1..Len(stack) /\ n < Len(stack)
           /\ stack[n] \in Frames /\ FrameFits(stack[n]) /\ stack[n].i \in AckSlots
           /\ stack[n].pc \in WaitPcs /\ Owns(stack[n])
<1>1. stack \in Seq(Frames) /\ StackFits
  BY DEF ShadowTypes, Typed, TypeOK
<1>2. n \in 1..Len(stack) /\ n < Len(stack)
  BY <1>1
<1>3. stack[n] \in Frames /\ FrameFits(stack[n]) /\ stack[n].pc \in WaitPcs
  BY <1>1, <1>2 DEF StackFits, ControlInv, Interrupted
<1>4. stack[n].op \in { "action", "ack", "expire" }
  BY <1>3, FrameFields
<1>5. stack[n].i \in AckSlots /\ Owns(stack[n])
  BY <1>3, <1>4 DEF FrameFits, WaitPcs, Owns, EntryPcs
<1> QED
  BY <1>2, <1>3, <1>5

\* A call fits as long as its entry and the persistent keys stay.
LEMMA CallKept ==
    ASSUME NEW f, CallFits(f, ackWaitList, persistent), ackWaitList'[f.i] = ackWaitList[f.i],
           persistent \subseteq persistent'
    PROVE  CallFits(f, ackWaitList', persistent')
BY DEF CallFits, Kept

LEMMA EntriesKept ==
    ASSUME EntriesFit, UNCHANGED persistent, pending' \subseteq pending,
           \A j \in AckSlots : Live(j)' => ackWaitList'[j] = ackWaitList[j]
    PROVE  EntriesFit'
BY DEF EntriesFit, Live, Kept

LEMMA ControlStep ==
    ASSUME ShadowTypes, ShadowTypes', ControlInv, stack # << >>,
           \A j \in AckSlots : j # Top.i => ackWaitList'[j] = ackWaitList[j],
           \A j \in AckSlots : Live(j)' => ackWaitList'[j] = ackWaitList[j],
           UNCHANGED << pending, persistent >>,
           \/ Return
           \/ \E f \in Frames : /\ Continue(f) /\ CallFits(f, ackWaitList', persistent')
                                /\ f.i = Top.i \/ Len(stack) = 1
    PROVE  ControlInv'
<1> DEFINE d == Len(stack)
<1>1. /\ d \in Nat /\ d > 0 /\ d \in 1..d /\ Top = stack[d]
      /\ \A n \in 1..d : n \in 1..(d - 1) \/ n = d
  BY TopFacts DEF ShadowTypes
<1>2. \A n \in 1..(d - 1) : /\ n \in 1..d /\ n < d /\ stack[n].i \in AckSlots
                            /\ stack[n].pc \in WaitPcs
  BY BelowFacts
<1>3. \A n \in 1..(d - 1) : stack[n].i # Top.i /\ CallFits(stack[n], ackWaitList, persistent)
  BY <1>1, <1>2 DEF ControlInv, ApartIn, CallsFit
<1>4. \A n \in 1..(d - 1) : \A f : f = stack[n] => CallFits(f, ackWaitList', persistent')
  BY <1>2, <1>3, CallKept
<1>5. EntriesFit'
  BY EntriesKept DEF ControlInv
<1>6. CASE Return
  <2>1. Len(stack') = d - 1 /\ \A n \in 1..(d - 1) : stack'[n] = stack[n]
    BY <1>6, Returned DEF ShadowTypes
  <2> HIDE DEF d
  <2>2. CallsFit'
    BY <1>4, <2>1 DEF CallsFit
  <2>3. Interrupted'
    BY <1>2, <2>1 DEF Interrupted
  <2>4. ApartIn(stack')
    BY <1>2, <2>1 DEF ControlInv, ApartIn, d
  <2> QED
    BY <1>5, <2>2, <2>3, <2>4 DEF ControlInv
<1>7. ASSUME NEW f \in Frames, Continue(f), CallFits(f, ackWaitList', persistent'),
             f.i = Top.i \/ d = 1
      PROVE  ControlInv'
  <2>1. /\ Len(stack') = d /\ stack'[d] = f
        /\ \A n \in 1..(d - 1) : stack'[n] = stack[n]
    BY <1>7, Continued DEF ShadowTypes
  <2> HIDE DEF d
  <2>2. CallsFit'
    BY <1>1, <1>4, <1>7, <2>1 DEF CallsFit
  <2>3. Interrupted'
    <3> SUFFICES ASSUME NEW n \in 1..d, n < d PROVE stack'[n].pc \in WaitPcs
      BY <2>1 DEF Interrupted
    <3>1. n \in 1..(d - 1)
      BY <1>1
    <3> QED
      BY <1>2, <2>1, <3>1
  <2>4. ApartIn(stack')
    <3>1. CASE d = 1
      BY <2>1, <3>1 DEF ApartIn
    <3>2. CASE f.i = Top.i
      <4>1. \A n \in 1..d : stack'[n].i = stack[n].i
        BY <1>1, <2>1, <3>2
      <4> QED
        BY <2>1, <4>1 DEF ControlInv, ApartIn, d
    <3> QED
      BY <1>7, <3>1, <3>2
  <2> QED
    BY <1>5, <2>2, <2>3, <2>4 DEF ControlInv
<1> QED
  BY <1>6, <1>7

\* The innermost call fits.
LEMMA TopFits ==
    ASSUME ShadowTypes, ControlInv, stack # << >>
    PROVE  CallFits(Top, ackWaitList, persistent)
BY TopFacts DEF ShadowTypes, ControlInv, CallsFit

\* Actions between their subscribes,
LEMMA ActionControl ==
    ASSUME ShadowTypes, ShadowTypes', ControlInv,
           SubscribedAccepted \/ SubscribedRejected \/ SubscribeFailed \/ Cleanup \/ PublishFailed
    PROVE  ControlInv'
<1>1. stack # << >> /\ Top.pc \in ActionPcs
  BY DEF SubscribedAccepted, SubscribedRejected, SubscribeFailed, Cleanup, PublishFailed, At,
     ActionPcs
<1>2. Top \in Frames /\ FrameFits(Top) /\ Top.op \in { "action", "ack", "expire" }
  BY <1>1, TopFacts, FrameFields DEF ShadowTypes
<1>3. Top.op = "action"
  BY <1>1, <1>2 DEF FrameFits, ActionPcs, EntryPcs
<1>4. Top.sticky \in Stickies[Top.key]
  BY <1>1, <1>3, TopFits DEF CallFits
<1>5. UNCHANGED << ackWaitList, pending, persistent >>
  BY DEF SubscribedAccepted, SubscribedRejected, SubscribeFailed, Cleanup, PublishFailed,
     records, history
<1>6. ASSUME NEW f \in Frames, f.op = "action", f.sticky = Top.sticky, f.key = Top.key,
             f.i = Top.i
      PROVE  CallFits(f, ackWaitList', persistent') /\ f.i = Top.i
  BY <1>4, <1>6 DEF CallFits
<1>7. ASSUME NEW pc \in ActionPcs, Goto(pc)
      PROVE  \E f \in Frames : Continue(f) /\ CallFits(f, ackWaitList', persistent') /\ f.i = Top.i
  <2>1. pc \in Pcs
    BY DEF Pcs, ActionPcs
  <2>2. LET f == [Top EXCEPT !.pc = pc]
        IN  f \in Frames /\ f.op = Top.op /\ f.sticky = Top.sticky /\ f.key = Top.key
            /\ f.i = Top.i
    BY <1>2, <2>1, Changed, ChangedSticky
  <2> QED
    BY <1>3, <1>6, <1>7, <2>2 DEF Goto
<1>8. ASSUME Continue([Top EXCEPT !.pc = "cleanup", !.ret = "FAILURE"])
      PROVE  \E f \in Frames : Continue(f) /\ CallFits(f, ackWaitList', persistent') /\ f.i = Top.i
  <2>1. "cleanup" \in Pcs
    BY DEF Pcs
  <2>2. LET f == [Top EXCEPT !.pc = "cleanup", !.ret = "FAILURE"]
        IN  f \in Frames /\ f.op = Top.op /\ f.sticky = Top.sticky /\ f.key = Top.key
            /\ f.i = Top.i
    BY <1>2, <2>1, ChangedRet, ChangedSticky
  <2> QED
    BY <1>3, <1>6, <1>8, <2>2
<1>9. \/ Return
      \/ \E f \in Frames : Continue(f) /\ CallFits(f, ackWaitList', persistent') /\ f.i = Top.i
  <2>1. \/ Return \/ Continue([Top EXCEPT !.pc = "cleanup", !.ret = "FAILURE"])
        \/ \E pc \in ActionPcs : Goto(pc)
    BY DEF SubscribedAccepted, SubscribedRejected, SubscribeFailed, Cleanup, PublishFailed,
       ActionPcs
  <2> QED
    BY <1>7, <1>8, <2>1
<1> QED
  BY <1>1, <1>5, <1>9, ControlStep

\* A call about an entry, for which the stack is at most one level deep if it
\* looks for expired ones.
LEMMA EntryAlone ==
    ASSUME ShadowTypes, OnceInv, stack # << >>, Top.op = "expire"
    PROVE  Len(stack) = 1
BY TopFacts DEF ShadowTypes, OnceInv, Handled

\* The end of a topic,
LEMMA TopicDoneControl ==
    ASSUME ShadowTypes, ShadowTypes', ControlInv, OnceInv, stack # << >>, Top.pc \in EntryPcs,
           Top.pc # "callback", NEW status \in Status, TopicDone(status),
           UNCHANGED << pending, persistent >>
    PROVE  ControlInv'
<1>1. /\ Top \in Frames /\ Top.i \in AckSlots /\ Top.op \in { "ack", "expire" }
      /\ ackWaitList \in [AckSlots -> EntryRecords] /\ CallFits(Top, ackWaitList, persistent)
  BY EntryFacts, TypedParts, TopFits DEF ShadowTypes
<1>2. CASE status = "accepted"
  <2> DEFINE f == [Top EXCEPT !.pc = "unsubscribe_rejected"]
  <2>1. "unsubscribe_rejected" \in Pcs
    BY DEF Pcs
  <2>2. /\ f \in Frames /\ f.op = Top.op /\ f.pc = "unsubscribe_rejected"
        /\ f.token = Top.token /\ f.i = Top.i /\ f.key = Top.key
    BY <1>1, <2>1, Changed
  <2>3. Continue(f) /\ UNCHANGED ackWaitList
    BY <1>2 DEF TopicDone, Goto
  <2> HIDE DEF f
  <2>4. CallFits(f, ackWaitList, persistent)
    BY <1>1, <2>2 DEF CallFits, Owns, EntryPcs
  <2>5. CallFits(f, ackWaitList', persistent')
    BY <2>3, <2>4, CallKept
  <2> QED
    BY <2>2, <2>3, <2>5, ControlStep
<1>3. CASE status # "accepted" /\ Top.op = "ack"
  <2>1. Return /\ ackWaitList' = [ackWaitList EXCEPT ![Top.i].free = TRUE]
    BY <1>3 DEF TopicDone, EntryDone
  <2>2. /\ \A j \in AckSlots : j # Top.i => ackWaitList'[j] = ackWaitList[j]
        /\ ackWaitList'[Top.i].free
    BY <1>1, <2>1 DEF EntryRecords
  <2>3. \A j \in AckSlots : Live(j)' => ackWaitList'[j] = ackWaitList[j]
    BY <2>2 DEF Live
  <2> QED
    BY <2>1, <2>2, <2>3, ControlStep
<1>4. CASE status # "accepted" /\ Top.op = "expire"
  <2> DEFINE f == [Top EXCEPT !.pc = "scan", !.i = @ + 1]
  <2>1. f \in Frames /\ f.op = Top.op /\ f.pc = "scan" /\ f.token = Top.token
    BY <1>1, Advanced
  <2>2. Continue(f) /\ UNCHANGED ackWaitList
    BY <1>4 DEF TopicDone, EntryDone
  <2> HIDE DEF f
  <2>3. CallFits(f, ackWaitList', persistent')
    BY <1>4, <2>1 DEF CallFits, Owns
  <2> QED
    BY <1>4, <2>1, <2>2, <2>3, ControlStep, EntryAlone
<1> QED
  BY <1>1, <1>2, <1>3, <1>4

\* the callback,
LEMMA CallbackControl ==
    ASSUME ShadowTypes, ShadowTypes', ControlInv, CallbackReturn
    PROVE  ControlInv'
<1> DEFINE k == ackWaitList[Top.i].key
           f == [Top EXCEPT !.pc = "unsubscribe_accepted", !.key = k]
<1>1. stack # << >> /\ Top.pc = "callback" /\ Top.pc \in EntryPcs
  BY DEF CallbackReturn, At, EntryPcs
<1>2. /\ Top \in Frames /\ Top.i \in AckSlots /\ Top.op \in { "ack", "expire" }
      /\ ackWaitList \in [AckSlots -> EntryRecords] /\ CallFits(Top, ackWaitList, persistent)
      /\ ackWaitList[Top.i].key \in Keys \cup { None }
  BY <1>1, EntryFacts, TypedParts, TopFits DEF ShadowTypes
<1>3. Live(Top.i)
  BY <1>1, <1>2 DEF CallFits, Live
<1>4. k \in Keys /\ Kept(k, persistent)
  BY <1>2, <1>3 DEF ControlInv, EntriesFit
<1>5. "unsubscribe_accepted" \in Pcs /\ k \in Keys \cup { None }
  BY <1>4 DEF Pcs
<1>6. /\ Continue(f) /\ UNCHANGED << pending, persistent >>
      /\ Top.op = "expire" => ackWaitList' = [ackWaitList EXCEPT ![Top.i].free = TRUE]
      /\ Top.op # "expire" => ackWaitList' = ackWaitList
  BY DEF CallbackReturn, history
<1>7. /\ \A j \in AckSlots : j # Top.i => ackWaitList'[j] = ackWaitList[j]
      /\ Top.op = "expire" => ackWaitList'[Top.i].free
      /\ Top.op # "expire" => ackWaitList' = ackWaitList
  BY <1>2, <1>6 DEF EntryRecords
<1>8. \A j \in AckSlots : Live(j)' => ackWaitList'[j] = ackWaitList[j]
  BY <1>7 DEF Live
<1>9. Top.op = "ack" => Top.key = k /\ ackWaitList[Top.i].token = Top.token
  BY <1>2 DEF CallFits
<1>10. k = ackWaitList[Top.i].key
  OBVIOUS
<1> HIDE DEF k
<1>11. /\ f \in Frames /\ f.op = Top.op /\ f.pc = "unsubscribe_accepted"
       /\ f.token = Top.token /\ f.i = Top.i /\ f.key = k
  BY <1>1, <1>5, ChangedKey DEF ShadowTypes
<1> HIDE DEF f
<1>12. k \in Keys /\ Kept(k, persistent')
  BY <1>4, <1>6 DEF Kept
<1>13. CallFits(f, ackWaitList', persistent')
  <2>1. CASE Top.op = "expire"
    BY <1>7, <1>11, <1>12, <2>1 DEF CallFits, Live
  <2>2. CASE Top.op = "ack"
    BY <1>3, <1>7, <1>9, <1>10, <1>11, <1>12, <2>2 DEF CallFits, Live
  <2> QED
    BY <1>2, <2>1, <2>2
<1> QED
  BY <1>1, <1>6, <1>7, <1>8, <1>11, <1>13, ControlStep

\* and the other steps of a call about an entry.
LEMMA EntryControl ==
    ASSUME ShadowTypes, ShadowTypes', ControlInv, OnceInv,
           Scan \/ \E status \in Status : ReleaseTopic(status) \/ UnsubscribedTopic(status)
    PROVE  ControlInv'
<1> USE DEF records, history
<1>1. ASSUME NEW status \in Status, ReleaseTopic(status)
      PROVE  ControlInv'
  <2>1. /\ stack # << >> /\ Top.pc \in EntryPcs /\ Top.pc # "callback" /\ Owns(Top)
        /\ UNCHANGED << pending, persistent >>
    BY <1>1 DEF ReleaseTopic, At, EntryPcs, Owns
  <2>2. CASE TopicDone(status)
    BY <2>1, <2>2, TopicDoneControl
  <2> DEFINE n == Find(<< Top.key, status >>)
             pc == IF status = "accepted" THEN "wait_accepted" ELSE "wait_rejected"
             f == [Top EXCEPT !.pc = pc, !.acc = n]
  <2>3. CASE n # NoSlot /\ Continue(f) /\ UNCHANGED ackWaitList
    <3>1. n \in SubSlots /\ pc \in Pcs /\ pc \notin { "scan", "callback" }
      BY <2>3, FindFacts DEF Pcs, ShadowTypes
    <3>2. Continue(f)
      BY <2>3
    <3> HIDE DEF n, pc
    <3>3. /\ f \in Frames /\ f.op = Top.op /\ f.pc = pc /\ f.token = Top.token
          /\ f.i = Top.i /\ f.key = Top.key
      BY <2>1, <3>1, ChangedAcc DEF ShadowTypes
    <3>4. CallFits(Top, ackWaitList, persistent) /\ Top.op \in { "ack", "expire" }
      BY <2>1, TopFits, EntryFacts DEF ShadowTypes
    <3> HIDE DEF f
    <3>5. CallFits(f, ackWaitList, persistent)
      BY <2>1, <3>1, <3>3, <3>4 DEF CallFits, Owns
    <3>6. CallFits(f, ackWaitList', persistent')
      BY <2>1, <2>3, <3>5, CallKept
    <3> QED
      BY <2>1, <2>3, <3>2, <3>3, <3>6, ControlStep
  <2> QED
    BY <1>1, <2>2, <2>3 DEF ReleaseTopic
<1>2. ASSUME NEW status \in Status, UnsubscribedTopic(status)
      PROVE  ControlInv'
  <2>1. /\ stack # << >> /\ Top.pc \in EntryPcs /\ Top.pc # "callback"
        /\ UNCHANGED << pending, persistent >> /\ TopicDone(status)
    BY <1>2 DEF UnsubscribedTopic, At, EntryPcs
  <2> QED
    BY <2>1, TopicDoneControl
<1>3. CASE Scan
  <2>1. stack # << >> /\ Top.pc = "scan" /\ UNCHANGED << ackWaitList, pending, persistent >>
    BY <1>3 DEF Scan, At
  <2>2. /\ Top \in Frames /\ FrameFits(Top) /\ Top.op \in { "action", "ack", "expire" }
    BY <2>1, TopFacts, FrameFields DEF ShadowTypes
  <2>3. Top.op = "expire"
    BY <2>1, <2>2 DEF FrameFits, ActionPcs, EntryPcs
  <2>4. CASE Return
    BY <2>1, <2>4, ControlStep
  <2>5. CASE Top.i \in AckSlots /\ Live(Top.i) /\ Goto("callback")
    <3> DEFINE f == [Top EXCEPT !.pc = "callback"]
    <3>1. "callback" \in Pcs
      BY DEF Pcs
    <3>2. f \in Frames /\ f.op = Top.op /\ f.pc = "callback" /\ f.i = Top.i
      BY <2>2, <3>1, Changed
    <3>3. Continue(f)
      BY <2>5 DEF Goto
    <3> HIDE DEF f
    <3>4. CallFits(f, ackWaitList, persistent)
      BY <2>3, <2>5, <3>2 DEF CallFits, Owns, Live
    <3>5. CallFits(f, ackWaitList', persistent')
      BY <2>1, <3>4, CallKept
    <3> QED
      BY <2>1, <3>2, <3>3, <3>5, ControlStep
  <2>6. CASE Top.i \in AckSlots /\ Continue([Top EXCEPT !.i = @ + 1])
    <3> DEFINE f == [Top EXCEPT !.i = @ + 1]
    <3>1. f \in Frames /\ f.op = Top.op /\ f.pc = Top.pc
      BY <2>2, <2>6, Advanced
    <3>2. Continue(f)
      BY <2>6
    <3> HIDE DEF f
    <3>3. CallFits(f, ackWaitList', persistent')
      BY <2>1, <2>3, <3>1 DEF CallFits, Owns
    <3> QED
      BY <2>1, <2>3, <3>1, <3>2, <3>3, ControlStep, EntryAlone
  <2> QED
    BY <1>3, <2>4, <2>5, <2>6 DEF Scan, Live
<1> QED
  BY <1>1, <1>2, <1>3

\* An action is published: its entry is now the one of a key that is kept if it is
\* used persistently.
LEMMA PublishControl ==
    ASSUME ShadowTypes, ShadowTypes', ControlInv, OnceInv, TrackInv, Published,
           \A k \in Keys : Stickies[k] # BOOLEAN
    PROVE  ControlInv'
<1> DEFINE t == Top.token
           e == Top.i
           key == Top.key
<1>1. stack # << >> /\ Top.pc = "publish"
  BY DEF Published, At
<1>2. /\ Top = stack[Len(stack)] /\ Top \in Frames /\ FrameFits(Top)
      /\ Top.op \in { "action", "ack", "expire" } /\ Top.sticky \in BOOLEAN
      /\ Len(stack) \in 1..Len(stack)
  BY <1>1, TopFacts, FrameFields DEF ShadowTypes
<1>3. Top.op = "action" /\ t \in Tokens /\ e \in AckSlots /\ key \in Keys
  BY <1>1, <1>2 DEF FrameFits, EntryPcs
<1>4. Len(stack) = 1
  BY <1>2, <1>3 DEF TrackInv, Bottom
<1>5. Len(stack') = 0
  BY <1>1, <1>4, Returned DEF Published, ShadowTypes
<1>6. CallsFit' /\ Interrupted' /\ ApartIn(stack')
  BY <1>5 DEF CallsFit, Interrupted, ApartIn
<1>7. /\ ackWaitList' = [ackWaitList EXCEPT ![e] = [free |-> FALSE, token |-> t, key |-> key]]
      /\ pending' = pending \cup { << t, key >> }
      /\ persistent' = IF Top.sticky THEN persistent \cup { key } ELSE persistent
      /\ ackWaitList \in [AckSlots -> EntryRecords]
  BY TypedParts DEF Published, ShadowTypes
<1>8. /\ ackWaitList'[e].token = t /\ ackWaitList'[e].key = key
      /\ \A i \in AckSlots : i # e => ackWaitList'[i] = ackWaitList[i]
  BY <1>3, <1>7
<1>9. /\ \A k \in Keys : << t, k >> \notin pending
      /\ \A i \in AckSlots : Live(i) => ackWaitList[i].token # t
  BY <1>2, <1>3 DEF OnceInv, Started
<1>10. Kept(key, persistent')
  <2>1. Top.sticky \in Stickies[key]
    BY <1>1, <1>3, TopFits DEF CallFits
  <2>2. CASE TRUE \in Stickies[key]
    <3>1. Stickies[key] \subseteq BOOLEAN /\ Stickies[key] # BOOLEAN
      BY <1>3, ShadowAssumption
    <3>2. Top.sticky = TRUE
      BY <1>2, <2>1, <2>2, <3>1, Zenon
    <3> QED
      BY <1>7, <3>2 DEF Kept
  <2>3. CASE TRUE \notin Stickies[key]
    BY <2>3 DEF Kept
  <2> QED
    BY <2>2, <2>3
<1>11. persistent \subseteq persistent'
  BY <1>7
<1> HIDE DEF t, e, key
<1>12. EntriesFit'
  <2> SUFFICES ASSUME NEW i \in AckSlots, ~ackWaitList'[i].free
               PROVE  /\ ackWaitList'[i].key \in Keys /\ Kept(ackWaitList'[i].key, persistent')
                      /\ \A k \in Keys : << ackWaitList'[i].token, k >> \in pending'
                                            => k = ackWaitList'[i].key
    BY DEF EntriesFit, Live
  <2>1. CASE i = e
    BY <1>3, <1>7, <1>8, <1>9, <1>10, <2>1
  <2>2. CASE i # e
    <3>1. ackWaitList'[i] = ackWaitList[i] /\ Live(i)
      BY <1>8, <2>2 DEF Live
    <3>2. /\ ackWaitList[i].key \in Keys /\ Kept(ackWaitList[i].key, persistent)
          /\ \A k \in Keys : << ackWaitList[i].token, k >> \in pending => k = ackWaitList[i].key
          /\ ackWaitList[i].token # t
      BY <1>9, <3>1 DEF ControlInv, EntriesFit
    <3>3. Kept(ackWaitList[i].key, persistent')
      BY <1>11, <3>2 DEF Kept
    <3> QED
      BY <1>7, <3>1, <3>2, <3>3
  <2> QED
    BY <2>1, <2>2
<1> QED
  BY <1>6, <1>12 DEF ControlInv

\* A call that is pushed on calls that wait.
LEMMA PushControl ==
    ASSUME ShadowTypes, ControlInv, NEW f \in Frames, Push(f),
           CallFits(f, ackWaitList, persistent),
           stack # << >> => Top.pc \in WaitPcs,
           \A n \in 1..Len(stack) : stack[n].i # f.i,
           UNCHANGED << ackWaitList, persistent >>, pending' \subseteq pending
    PROVE  ControlInv'
<1> DEFINE d == Len(stack)
<1>1. d \in Nat /\ stack \in Seq(Frames)
  BY DEF ShadowTypes, Typed, TypeOK
<1>2. /\ Len(stack') = d + 1 /\ stack'[d + 1] = f
      /\ \A n \in 1..d : stack'[n] = stack[n]
  BY Pushed DEF ShadowTypes
<1>3. \A n \in 1..(d + 1) : n \in 1..d \/ n = d + 1
  BY <1>1
<1>4. \A n \in 1..d : stack[n].pc \in WaitPcs
  <2> SUFFICES ASSUME NEW n \in 1..d PROVE stack[n].pc \in WaitPcs
    OBVIOUS
  <2>1. stack # << >> /\ Top = stack[d]
    BY <1>1, TopFacts DEF ShadowTypes
  <2>2. CASE n = d
    BY <2>1, <2>2
  <2>3. CASE n # d
    BY <1>1, <2>3 DEF ControlInv, Interrupted
  <2> QED
    BY <2>2, <2>3
<1>5. EntriesFit'
  BY EntriesKept DEF ControlInv, Live
<1> HIDE DEF d
<1>6. CallsFit'
  BY <1>2, <1>3 DEF ControlInv, CallsFit, d
<1>7. Interrupted'
  <2> SUFFICES ASSUME NEW n \in 1..(d + 1), n < d + 1 PROVE stack'[n].pc \in WaitPcs
    BY <1>2 DEF Interrupted
  <2>1. n \in 1..d
    BY <1>1
  <2> QED
    BY <1>2, <1>4, <2>1
<1>8. ApartIn(stack')
  <2> SUFFICES ASSUME NEW m \in 1..(d + 1), NEW n \in 1..(d + 1), stack'[m].i = stack'[n].i
               PROVE  m = n
    BY <1>2 DEF ApartIn
  <2>1. CASE m \in 1..d /\ n \in 1..d
    BY <1>2, <2>1 DEF ControlInv, ApartIn, d
  <2>2. CASE m = d + 1 \/ n = d + 1
    BY <1>2, <1>3, <2>2 DEF d
  <2> QED
    BY <1>3, <2>1, <2>2
<1> QED
  BY <1>5, <1>6, <1>7, <1>8 DEF ControlInv

\* An action is started between calls.
LEMMA NewCallControl ==
    ASSUME ShadowTypes, ControlInv, stack = << >>, NEW f \in Frames, Push(f), f.op = "action",
           f.sticky \in Stickies[f.key],
           UNCHANGED << ackWaitList, persistent, pending >>
    PROVE  ControlInv'
<1>1. CallFits(f, ackWaitList, persistent)
  BY DEF CallFits
<1>2. \A n \in 1..Len(stack) : stack[n].i # f.i
  OBVIOUS
<1> QED
  BY <1>1, <1>2, PushControl

LEMMA ApplicationControl ==
    ASSUME ShadowTypes, ControlInv, BetweenCalls, Application
    PROVE  ControlInv'
<1> USE DEF records, mqtt, history
<1>1. PICK token \in Tokens :
        \/ ActionRefused(token)
        \/ \E key \in Keys : \E sticky \in Stickies[key] :
              \/ ActionShares(token, key, sticky)
              \/ ActionSubscribes(token, key, sticky)
              \/ ActionOutOfRecords(token, key, sticky)
  BY DEF Application
<1>2. CASE ActionRefused(token)
  BY <1>2 DEF ActionRefused, ControlInv, CallsFit, Interrupted, EntriesFit, Live
<1>3. ASSUME NEW key \in Keys, NEW sticky \in Stickies[key],
             \/ ActionShares(token, key, sticky)
             \/ ActionSubscribes(token, key, sticky)
             \/ ActionOutOfRecords(token, key, sticky)
      PROVE  ControlInv'
  <2>1. UNCHANGED << ackWaitList, persistent, pending >> /\ MayAct
    BY <1>3 DEF ActionShares, ActionSubscribes, ActionOutOfRecords
  <2>2. stack = << >>
    BY <2>1 DEF MayAct, BetweenCalls
  <2>3. \E f \in Frames : Push(f) /\ f.op = "action" /\ f.sticky = sticky /\ f.key = key
    BY <1>3, NewAction DEF ShadowTypes
  <2> QED
    BY <2>1, <2>2, <2>3, NewCallControl
<1> QED
  BY <1>1, <1>2, <1>3

\* A response is handled: no other call is about its entry.
LEMMA ResponseControl ==
    ASSUME ShadowTypes, ControlInv, OnceInv, TrackInv, NEW t \in Tokens, NEW key \in Keys,
           NEW status \in Status, Response(t, key, status)
    PROVE  ControlInv'
<1> USE DEF records
<1> DEFINE waiting == { i \in AckSlots : ~ackWaitList[i].free /\ ackWaitList[i].token = t }
           f(e) == Frame("ack", "callback", key, t, FALSE, e, NoSlot, NoSlot, "SUCCESS")
<1>1. /\ UNCHANGED << ackWaitList, persistent >> /\ pending' \subseteq pending
      /\ << t, key >> \in pending /\ Reading
  BY DEF Response
<1>2. waiting # {} => Min(waiting) \in waiting
  <2>1. waiting \in SUBSET Nat
    BY Slots
  <2> QED
    BY <2>1, MinIn
<1>3. \/ UNCHANGED stack
      \/ waiting # {} /\ Push(f(Min(waiting)))
  BY DEF Response
<1>4. CASE UNCHANGED stack
  <2>1. EntriesFit'
    BY <1>1, EntriesKept DEF ControlInv, Live
  <2> QED
    BY <1>1, <1>4, <2>1 DEF ControlInv, CallsFit, Interrupted
<1>5. ASSUME NEW e \in waiting, Push(f(e))
      PROVE  ControlInv'
  <2>1. e \in AckSlots /\ Live(e) /\ ackWaitList[e].token = t
    BY DEF Live
  <2>2. key = ackWaitList[e].key
    BY <1>1, <2>1 DEF ControlInv, EntriesFit
  <2>3. /\ f(e) \in Frames /\ f(e).op = "ack" /\ f(e).pc = "callback" /\ f(e).key = key
        /\ f(e).token = t /\ f(e).i = e
    <3> DEFINE no == FALSE
               g == Frame("ack", "callback", key, t, no, e, NoSlot, NoSlot, "SUCCESS")
    <3>1. "callback" \in Pcs /\ no \in BOOLEAN
      BY DEF Pcs
    <3>2. f(e) = g
      OBVIOUS
    <3> HIDE DEF no, f, waiting
    <3>3. /\ g \in Frames /\ g.op = "ack" /\ g.pc = "callback" /\ g.key = key
          /\ g.token = t /\ g.i = e
      BY <2>1, <3>1, NewFrame
    <3> QED
      BY <3>2, <3>3
  <2>4. \A n \in 1..Len(stack) : stack[n].i # e
    <3> SUFFICES ASSUME NEW n \in 1..Len(stack), stack[n].i = e PROVE FALSE
      OBVIOUS
    <3>1. stack # << >> /\ stack[n] \in Frames
      BY DEF ShadowTypes, Typed, TypeOK
    <3>2. stack[n].pc \in WaitPcs
      <4>1. Top.pc \in WaitPcs /\ Top = stack[Len(stack)]
        BY <1>1, <3>1, TopFacts DEF Reading, WaitPcs, ShadowTypes
      <4>2. CASE n = Len(stack)
        BY <4>1, <4>2
      <4>3. CASE n # Len(stack)
        BY <4>3 DEF ControlInv, Interrupted, ShadowTypes, Typed, TypeOK
      <4> QED
        BY <4>2, <4>3
    <3>3. Owns(stack[n]) /\ stack[n].op \in { "action", "ack", "expire" }
      BY <3>1, <3>2, FrameFields DEF Owns, WaitPcs
    <3>4. CASE stack[n].op = "action"
      BY <2>1, <3>4 DEF TrackInv, Bottom
    <3>5. CASE stack[n].op = "expire"
      BY <2>1, <3>3, <3>5 DEF ControlInv, CallsFit, CallFits, Live
    <3>6. CASE stack[n].op = "ack"
      <4>1. stack[n].token = t
        BY <2>1, <3>6 DEF ControlInv, CallsFit, CallFits
      <4> QED
        BY <1>1, <3>6, <4>1 DEF OnceInv, Handled
    <3> QED
      BY <3>3, <3>4, <3>5, <3>6
  <2>5. stack # << >> => Top.pc \in WaitPcs
    BY <1>1 DEF Reading, WaitPcs
  <2> HIDE DEF f
  <2>6. CallFits(f(e), ackWaitList, persistent)
    BY <2>1, <2>2, <2>3 DEF CallFits, Owns, Live
  <2> QED
    BY <1>1, <1>5, <2>3, <2>4, <2>5, <2>6, PushControl
<1> QED
  BY <1>2, <1>3, <1>4, <1>5

LEMMA ControlNext ==
    ASSUME ShadowTypes, ControlInv, OnceInv, TrackInv, [Next]_vars, BetweenCalls,
           MaxConnects = 0, \A k \in Keys : Stickies[k] # BOOLEAN
    PROVE  ControlInv'
<1> USE DEF records, history, mqtt
<1>1. ShadowTypes'
  BY TypesNext
<1>2. CASE UNCHANGED vars
  BY <1>2 DEF vars, ControlInv, CallsFit, Interrupted, EntriesFit, Live
<1>3. CASE Application
  BY <1>3, ApplicationControl
<1>4. CASE Published
  BY <1>1, <1>4, PublishControl
<1>5. CASE Library /\ ~Published
  BY <1>1, <1>5, ActionControl, EntryControl, CallbackControl DEF Library
<1>6. CASE Service
  BY <1>6, ResponseControl DEF Service
<1>7. CASE ShadowConnect
  <2>1. connects \in 0..0 /\ connects < 0
    BY <1>7 DEF ShadowConnect, ShadowTypes, Typed, TypeOK
  <2> QED
    BY <2>1
<1>8. CASE ShadowYield
  <2> DEFINE f == Frame("expire", "scan", None, None, FALSE, 0, NoSlot, NoSlot, "SUCCESS")
  <2>1. f.op = "expire" /\ f.pc = "scan"
    BY DEF Frame
  <2>2. /\ stack = << >> /\ Push(f) /\ UNCHANGED << ackWaitList, persistent, pending >>
    BY <1>8 DEF ShadowYield
  <2>3. f \in Frames
    <3>1. /\ "scan" \in Pcs /\ FALSE \in BOOLEAN /\ 0 \in AckSlots \cup { Cardinality(AckSlots) }
          /\ NoSlot \in SubSlots \cup { NoSlot } /\ None \in Keys \cup { None }
          /\ None \in Tokens \cup { None } /\ "expire" \in { "action", "ack", "expire" }
          /\ "SUCCESS" \in { "SUCCESS", "FAILURE" }
      BY ScanEnds DEF Pcs
    <3> QED
      BY <3>1, NewFrame
  <2> HIDE DEF f
  <2>4. CallFits(f, ackWaitList, persistent)
    BY <2>1 DEF CallFits, Owns
  <2>5. \A n \in 1..Len(stack) : stack[n].i # f.i
    BY <2>2
  <2> QED
    BY <2>2, <2>3, <2>4, <2>5, PushControl
<1>9. CASE \E i \in AckSlots : TimerExpires(i)
  <2>1. UNCHANGED << ackWaitList, persistent, pending, stack >>
    BY <1>9 DEF TimerExpires
  <2> QED
    BY <2>1 DEF ControlInv, CallsFit, Interrupted, EntriesFit, Live
<1> QED
  BY <1>2, <1>3, <1>4, <1>5, <1>6, <1>7, <1>8, <1>9 DEF Next, Library

LEMMA ControlInit == Init => ControlInv
<1> SUFFICES ASSUME Init
             PROVE  ControlInv
  OBVIOUS
<1>1. /\ \A i \in AckSlots : ~Live(i)
      /\ \A n \in 1..Len(stack) : FALSE
  BY DEF Init, Live
<1> QED
  BY <1>1 DEF ControlInv, CallsFit, Interrupted, ApartIn, EntriesFit

-----------------------------------------------------------------------------
(* Which entries use a topic, before and after a step *)

LEMMA OwnerUses ==
    ASSUME NEW stk, NEW list, ApartIn(stk), NEW n \in 1..Len(stk), Owns(stk[n]), NEW t
    PROVE  UsesIn(stk, list, stk[n].i, t) <=> stk[n].key = t[1] /\ Holds(stk[n], t[2])
BY DEF UsesIn, OwnerIn, ApartIn

LEMMA IdleUses ==
    ASSUME NEW stk, NEW list, NEW i, \A n \in 1..Len(stk) : ~OwnerIn(stk, n, i), NEW t
    PROVE  UsesIn(stk, list, i, t) <=> ~list[i].free /\ list[i].key = t[1]
BY DEF UsesIn

\* Calls that are not about an entry do not matter for it.
LEMMA SameUses ==
    ASSUME NEW stk \in Seq(Frames), NEW other \in Seq(Frames), NEW d \in Nat,
           d <= Len(stk), d <= Len(other), \A n \in 1..d : other[n] = stk[n],
           NEW list, NEW next, NEW i, next[i] = list[i],
           \A n \in 1..Len(stk) : n > d => ~OwnerIn(stk, n, i),
           \A n \in 1..Len(other) : n > d => ~OwnerIn(other, n, i), NEW t
    PROVE  UsesIn(other, next, i, t) <=> UsesIn(stk, list, i, t)
<1>1. \A n \in 1..Len(stk) : OwnerIn(stk, n, i) => n \in 1..d
  OBVIOUS
<1>2. \A n \in 1..Len(other) : OwnerIn(other, n, i) => n \in 1..d
  OBVIOUS
<1>3. \A n \in 1..d : /\ n \in 1..Len(stk) /\ n \in 1..Len(other)
                      /\ OwnerIn(other, n, i) <=> OwnerIn(stk, n, i)
  BY DEF OwnerIn
<1> QED
  BY <1>1, <1>2, <1>3 DEF UsesIn

\* What the innermost call is about.
UsesOf(f, list, t) ==
    IF Owns(f) THEN f.key = t[1] /\ Holds(f, t[2])
    ELSE ~list[f.i].free /\ list[f.i].key = t[1]

LEMMA TopUses ==
    ASSUME NEW stk \in Seq(Frames), Len(stk) > 0, ApartIn(stk), NEW list, NEW t,
           NEW f, f = stk[Len(stk)]
    PROVE  UsesIn(stk, list, f.i, t) <=> UsesOf(f, list, t)
<1>1. Len(stk) \in 1..Len(stk)
  OBVIOUS
<1>2. CASE Owns(f)
  <2>1. Owns(stk[Len(stk)])
    BY <1>2
  <2>2. UsesIn(stk, list, stk[Len(stk)].i, t)
          <=> stk[Len(stk)].key = t[1] /\ Holds(stk[Len(stk)], t[2])
    BY <1>1, <2>1, OwnerUses
  <2>3. UsesOf(stk[Len(stk)], list, t)
          <=> stk[Len(stk)].key = t[1] /\ Holds(stk[Len(stk)], t[2])
    BY <2>1 DEF UsesOf
  <2>4. f = stk[Len(stk)]
    OBVIOUS
  <2> QED
    BY <2>2, <2>3, <2>4, Zenon
<1>3. CASE ~Owns(f)
  <2>1. \A n \in 1..Len(stk) : ~OwnerIn(stk, n, f.i)
    BY <1>1, <1>3 DEF ApartIn, OwnerIn
  <2>2. UsesIn(stk, list, f.i, t) <=> ~list[f.i].free /\ list[f.i].key = t[1]
    BY <2>1 DEF UsesIn
  <2>3. UsesOf(f, list, t) <=> ~list[f.i].free /\ list[f.i].key = t[1]
    BY <1>3 DEF UsesOf
  <2> QED
    BY <2>2, <2>3
<1> QED
  BY <1>2, <1>3

\* How a step may change the entries that use topics.
SameUsers == \A t \in Topics : Users(t)' = Users(t)

Joins(e, u) ==
    \A t \in Topics : Users(t)' = IF t = u THEN Users(t) \cup { e } ELSE Users(t)

Leaves(e, u) ==
    \A t \in Topics : Users(t)' = IF t = u THEN Users(t) \ { e } ELSE Users(t)

\* A step that changes what one entry is used for at most.
OthersSame(e) ==
    \A j \in AckSlots, t \in Topics :
        j # e => (UsesIn(stack', ackWaitList', j, t) <=> UsesIn(stack, ackWaitList, j, t))

Before(e, t) == UsesIn(stack, ackWaitList, e, t)
After(e, t) == UsesIn(stack', ackWaitList', e, t)

LEMMA UsersSame ==
    ASSUME NEW e, OthersSame(e), \A t \in Topics : After(e, t) <=> Before(e, t)
    PROVE  SameUsers
BY DEF SameUsers, Users, UsersIn, OthersSame, Before, After

LEMMA UsersJoin ==
    ASSUME NEW e \in AckSlots, NEW u \in Topics, OthersSame(e),
           \A t \in Topics : After(e, t) <=> Before(e, t) \/ t = u
    PROVE  Joins(e, u)
BY DEF Joins, Users, UsersIn, OthersSame, Before, After

LEMMA UsersLeave ==
    ASSUME NEW e \in AckSlots, NEW u \in Topics, OthersSame(e),
           \A t \in Topics : After(e, t) <=> Before(e, t) /\ t # u
    PROVE  Leaves(e, u)
BY DEF Leaves, Users, UsersIn, OthersSame, Before, After

LEMMA TopicIs ==
    ASSUME NEW t \in Topics
    PROVE  /\ t[1] \in Keys /\ t[2] \in { "accepted", "rejected" }
           /\ \A k, s : t = << k, s >> <=> t[1] = k /\ t[2] = s
BY DEF Topics, Status

\* The innermost call goes on,
LEMMA ContinueUses ==
    ASSUME ShadowTypes, ShadowTypes', ControlInv, ControlInv', stack # << >>,
           NEW f \in Frames, Continue(f), f.i = Top.i,
           \A j \in AckSlots : j # Top.i => ackWaitList'[j] = ackWaitList[j]
    PROVE  /\ OthersSame(Top.i)
           /\ \A t \in Topics : /\ Before(Top.i, t) <=> UsesOf(Top, ackWaitList, t)
                                /\ After(Top.i, t) <=> UsesOf(f, ackWaitList', t)
<1> DEFINE d == Len(stack)
           e == Top.i
<1>1. d \in Nat /\ d > 0 /\ Top = stack[d] /\ stack \in Seq(Frames) /\ stack' \in Seq(Frames)
  BY TopFacts DEF ShadowTypes, Typed, TypeOK
<1>2. /\ Len(stack') = d /\ stack'[d] = f
      /\ \A n \in 1..(d - 1) : stack'[n] = stack[n]
  BY Continued DEF ShadowTypes
<1>3. ApartIn(stack) /\ ApartIn(stack')
  BY DEF ControlInv
<1>4. ASSUME NEW t \in Topics
      PROVE  /\ Before(e, t) <=> UsesOf(Top, ackWaitList, t)
             /\ After(e, t) <=> UsesOf(f, ackWaitList', t)
  <2>1. UsesIn(stack, ackWaitList, Top.i, t) <=> UsesOf(Top, ackWaitList, t)
    BY <1>1, <1>3, TopUses
  <2>2. UsesIn(stack', ackWaitList', f.i, t) <=> UsesOf(f, ackWaitList', t)
    BY <1>1, <1>2, <1>3, TopUses
  <2> QED
    BY <2>1, <2>2 DEF Before, After
<1>5. ASSUME NEW j \in AckSlots, NEW t \in Topics, j # e
      PROVE  UsesIn(stack', ackWaitList', j, t) <=> UsesIn(stack, ackWaitList, j, t)
  <2> DEFINE m == d - 1
  <2>1. m \in Nat /\ m <= Len(stack) /\ m <= Len(stack')
    BY <1>1, <1>2
  <2>2. \A n \in 1..d : n > m => n = d
    BY <1>1
  <2>3. ~OwnerIn(stack, d, j) /\ ~OwnerIn(stack', d, j)
    BY <1>1, <1>2, <1>5 DEF OwnerIn
  <2>4. \A n \in 1..m : stack'[n] = stack[n]
    BY <1>2
  <2>5. ackWaitList'[j] = ackWaitList[j]
    BY <1>5
  <2> HIDE DEF m
  <2>6. /\ \A n \in 1..Len(stack) : n > m => ~OwnerIn(stack, n, j)
        /\ \A n \in 1..Len(stack') : n > m => ~OwnerIn(stack', n, j)
    BY <1>2, <2>2, <2>3
  <2> QED
    BY <1>1, <2>1, <2>4, <2>5, <2>6, SameUses
<1> QED
  BY <1>4, <1>5 DEF OthersSame

\* or it ends, or looks at the next entry,
LEMMA LeaveUses ==
    ASSUME ShadowTypes, ShadowTypes', ControlInv, stack # << >>,
           Return \/ (\E f \in Frames : Continue(f) /\ ~Owns(f)),
           \A j \in AckSlots : j # Top.i => ackWaitList'[j] = ackWaitList[j]
    PROVE  /\ OthersSame(Top.i)
           /\ \A t \in Topics :
                 /\ Before(Top.i, t) <=> UsesOf(Top, ackWaitList, t)
                 /\ After(Top.i, t) <=> ~ackWaitList'[Top.i].free /\ ackWaitList'[Top.i].key = t[1]
<1> DEFINE d == Len(stack)
           e == Top.i
           m == d - 1
<1>1. d \in Nat /\ d > 0 /\ Top = stack[d] /\ stack \in Seq(Frames) /\ stack' \in Seq(Frames)
  BY TopFacts DEF ShadowTypes, Typed, TypeOK
<1>2. /\ Len(stack') = d \/ Len(stack') = m
      /\ Len(stack') = d => ~Owns(stack'[d])
      /\ \A n \in 1..m : stack'[n] = stack[n]
  <2>1. CASE Return
    BY <1>1, <2>1, Returned DEF ShadowTypes
  <2>2. CASE \E f \in Frames : Continue(f) /\ ~Owns(f)
    BY <2>2, Continued DEF ShadowTypes
  <2> QED
    BY <2>1, <2>2
<1>3. ApartIn(stack)
  BY DEF ControlInv
<1>4. m \in Nat /\ m <= Len(stack) /\ m <= Len(stack') /\ d \in 1..d
  BY <1>1, <1>2
<1>5. \A n \in 1..d : n \in 1..m \/ n = d
  BY <1>1
<1>5a. \A n \in 1..d : n > m => n = d
  BY <1>1
<1>6. \A n \in 1..m : n # d /\ n \in 1..d
  BY <1>1
<1>7. \A n \in 1..Len(stack') : (n \in 1..m \/ (n = d /\ Len(stack') = d)) /\ (n > m => n = d)
  BY <1>1, <1>2, <1>5, <1>5a
<1> HIDE DEF m, e
<1>8. ASSUME NEW t \in Topics
      PROVE  /\ Before(e, t) <=> UsesOf(Top, ackWaitList, t)
             /\ After(e, t) <=> ~ackWaitList'[e].free /\ ackWaitList'[e].key = t[1]
  <2>1. UsesIn(stack, ackWaitList, Top.i, t) <=> UsesOf(Top, ackWaitList, t)
    BY <1>1, <1>3, TopUses
  <2>2. \A n \in 1..Len(stack') : ~OwnerIn(stack', n, e)
    <3> SUFFICES ASSUME NEW n \in 1..Len(stack') PROVE ~OwnerIn(stack', n, e)
      OBVIOUS
    <3>1. CASE n \in 1..m
      BY <1>1, <1>2, <1>3, <1>4, <1>6, <3>1 DEF ApartIn, OwnerIn, e
    <3>2. CASE n = d /\ Len(stack') = d
      BY <1>2, <3>2 DEF OwnerIn
    <3> QED
      BY <1>7, <3>1, <3>2
  <2>3. After(e, t) <=> ~ackWaitList'[e].free /\ ackWaitList'[e].key = t[1]
    BY <2>2, IdleUses DEF After
  <2> QED
    BY <2>1, <2>3 DEF Before, e
<1>9. ASSUME NEW j \in AckSlots, NEW t \in Topics, j # e
      PROVE  UsesIn(stack', ackWaitList', j, t) <=> UsesIn(stack, ackWaitList, j, t)
  <2>3. ~OwnerIn(stack, d, j) /\ (Len(stack') = d => ~OwnerIn(stack', d, j))
    BY <1>1, <1>2, <1>9 DEF OwnerIn, e
  <2>5. ackWaitList'[j] = ackWaitList[j]
    BY <1>9 DEF e
  <2>6. /\ \A n \in 1..Len(stack) : n > m => ~OwnerIn(stack, n, j)
        /\ \A n \in 1..Len(stack') : n > m => ~OwnerIn(stack', n, j)
    <3>1. \A n \in 1..Len(stack) : n > m => ~OwnerIn(stack, n, j)
      BY <1>5a, <2>3
    <3>2. ASSUME NEW n \in 1..Len(stack'), n > m PROVE ~OwnerIn(stack', n, j)
      <4>1. n = d
        BY <1>7, <3>2
      <4>2. Len(stack') = d
        BY <1>1, <1>2, <1>4, <3>2, <4>1 DEF m
      <4> QED
        BY <2>3, <4>1, <4>2
    <3> QED
      BY <3>1, <3>2
  <2> QED
    BY <1>1, <1>2, <1>4, <2>5, <2>6, SameUses
<1> QED
  BY <1>8, <1>9 DEF OthersSame, e

\* or a call is pushed.
LEMMA PushUses ==
    ASSUME ShadowTypes, ShadowTypes', ControlInv', NEW f \in Frames, Push(f),
           UNCHANGED ackWaitList
    PROVE  /\ OthersSame(f.i)
           /\ \A t \in Topics :
                 /\ Before(f.i, t) <=> ~ackWaitList[f.i].free /\ ackWaitList[f.i].key = t[1]
                 /\ After(f.i, t) <=> UsesOf(f, ackWaitList, t)
<1> DEFINE d == Len(stack)
           e == f.i
<1>1. d \in Nat /\ stack \in Seq(Frames) /\ stack' \in Seq(Frames)
  BY DEF ShadowTypes, Typed, TypeOK
<1>2. /\ Len(stack') = d + 1 /\ stack'[d + 1] = f
      /\ \A n \in 1..d : stack'[n] = stack[n]
  BY Pushed DEF ShadowTypes
<1>3. ApartIn(stack')
  BY DEF ControlInv
<1>4. /\ \A n \in 1..(d + 1) : n > d => n = d + 1
      /\ \A n \in 1..d : n \in 1..(d + 1) /\ n # d + 1
      /\ \A n \in 1..d : ~(n > d)
      /\ d + 1 \in 1..(d + 1) /\ d <= d + 1 /\ d <= d /\ d + 1 > 0
  BY <1>1
<1> HIDE DEF d, e
<1>5. ASSUME NEW t \in Topics
      PROVE  /\ Before(e, t) <=> ~ackWaitList[e].free /\ ackWaitList[e].key = t[1]
             /\ After(e, t) <=> UsesOf(f, ackWaitList, t)
  <2>1. \A n \in 1..Len(stack) : ~OwnerIn(stack, n, e)
    BY <1>2, <1>3, <1>4 DEF ApartIn, OwnerIn, e, d
  <2>2. UsesIn(stack, ackWaitList, e, t) <=> ~ackWaitList[e].free /\ ackWaitList[e].key = t[1]
    BY <2>1 DEF UsesIn
  <2>3. UsesIn(stack', ackWaitList', f.i, t) <=> UsesOf(f, ackWaitList', t)
    BY <1>1, <1>2, <1>3, <1>4, TopUses
  <2> QED
    BY <2>2, <2>3 DEF Before, After, e
<1>6. ASSUME NEW j \in AckSlots, NEW t \in Topics, j # e
      PROVE  UsesIn(stack', ackWaitList', j, t) <=> UsesIn(stack, ackWaitList, j, t)
  <2>1. ~OwnerIn(stack', d + 1, j)
    BY <1>2, <1>6 DEF OwnerIn, e
  <2>2. /\ \A n \in 1..Len(stack) : n > d => ~OwnerIn(stack, n, j)
        /\ \A n \in 1..Len(stack') : n > d => ~OwnerIn(stack', n, j)
    BY <1>2, <1>4, <2>1 DEF d
  <2>3. d <= Len(stack) /\ d <= Len(stack') /\ ackWaitList'[j] = ackWaitList[j]
    BY <1>2, <1>4 DEF d
  <2> QED
    BY <1>1, <1>2, <2>2, <2>3, SameUses
<1> QED
  BY <1>5, <1>6 DEF OthersSame, e

\* The end of a topic: the entry no longer uses it.
LEMMA TopicDoneUses ==
    ASSUME ShadowTypes, ShadowTypes', ControlInv, ControlInv', stack # << >>,
           NEW s \in Status, TopicDone(s),
           s = "accepted" => Top.pc \in { "unsubscribe_accepted", "wait_accepted" },
           s = "rejected" => Top.pc \in { "unsubscribe_rejected", "wait_rejected" }
    PROVE  /\ Top.i \in AckSlots /\ << Top.key, s >> \in Topics
           /\ Top.i \in Users(<< Top.key, s >>) /\ Leaves(Top.i, << Top.key, s >>)
<1> DEFINE u == << Top.key, s >>
           e == Top.i
<1>1. Top.pc \in EntryPcs /\ Owns(Top) /\ s \in { "accepted", "rejected" }
  BY DEF EntryPcs, Owns, Status
<1>2. /\ Top \in Frames /\ e \in AckSlots /\ Top.op \in { "ack", "expire" }
      /\ ackWaitList \in [AckSlots -> EntryRecords] /\ CallFits(Top, ackWaitList, persistent)
  BY <1>1, EntryFacts, TypedParts, TopFits DEF ShadowTypes
<1>3. Top.key \in Keys /\ u \in Topics
  BY <1>1, <1>2 DEF CallFits, Topics
<1>4. ASSUME NEW t \in Topics
      PROVE  UsesOf(Top, ackWaitList, t)
               <=> t[1] = Top.key /\ (t[2] = "rejected" \/ s = "accepted")
  <2>1. t[2] \in { "accepted", "rejected" }
    BY DEF Topics, Status
  <2>2. UsesOf(Top, ackWaitList, t) <=> Top.key = t[1] /\ Holds(Top, t[2])
    BY <1>1 DEF UsesOf
  <2>3. Holds(Top, t[2]) <=> t[2] = "rejected" \/ s = "accepted"
    BY <1>1, <2>1 DEF Holds
  <2> QED
    BY <2>2, <2>3
<1>5. \A t \in Topics : /\ t[2] \in { "accepted", "rejected" }
                        /\ t = u <=> t[1] = Top.key /\ t[2] = s
  BY TopicIs DEF u
<1>6. CASE s = "accepted"
  <2> DEFINE f == [Top EXCEPT !.pc = "unsubscribe_rejected"]
  <2>1. "unsubscribe_rejected" \in Pcs
    BY DEF Pcs
  <2>2. /\ f \in Frames /\ f.pc = "unsubscribe_rejected" /\ f.i = Top.i /\ f.key = Top.key
    BY <1>2, <2>1, Changed
  <2>3. Continue(f) /\ UNCHANGED ackWaitList
    BY <1>6 DEF TopicDone, Goto
  <2> HIDE DEF f, u, e
  <2>4. /\ OthersSame(Top.i)
        /\ \A t \in Topics : /\ Before(Top.i, t) <=> UsesOf(Top, ackWaitList, t)
                             /\ After(Top.i, t) <=> UsesOf(f, ackWaitList', t)
    BY <2>2, <2>3, ContinueUses
  <2>5. \A t \in Topics : UsesOf(f, ackWaitList', t) <=> t[1] = Top.key /\ t[2] = "rejected"
    <3> SUFFICES ASSUME NEW t \in Topics
                 PROVE  UsesOf(f, ackWaitList', t) <=> t[1] = Top.key /\ t[2] = "rejected"
      OBVIOUS
    <3>1. Owns(f)
      BY <2>2 DEF Owns
    <3>2. Holds(f, t[2]) <=> t[2] = "rejected"
      BY <2>2 DEF Holds
    <3>3. UsesOf(f, ackWaitList', t) <=> f.key = t[1] /\ Holds(f, t[2])
      BY <3>1 DEF UsesOf
    <3> QED
      BY <2>2, <3>2, <3>3
  <2>6. \A t \in Topics : After(Top.i, t) <=> Before(Top.i, t) /\ t # u
    BY <1>4, <1>5, <1>6, <2>4, <2>5
  <2>7. Before(Top.i, u)
    BY <1>3, <1>4, <1>5, <1>6, <2>4
  <2>8. Leaves(Top.i, u)
    BY <1>2, <1>3, <2>4, <2>6, UsersLeave DEF e
  <2> QED
    BY <1>2, <1>3, <2>7, <2>8 DEF e, u, Before, Users, UsersIn
<1>7. CASE s = "rejected"
  <2>1. /\ Return \/ \E f \in Frames : Continue(f) /\ ~Owns(f)
        /\ \A j \in AckSlots : j # e => ackWaitList'[j] = ackWaitList[j]
        /\ ackWaitList'[e].free
    <3>1. EntryDone
      BY <1>7 DEF TopicDone
    <3>2. CASE Top.op = "ack"
      <4>1. Return /\ ackWaitList' = [ackWaitList EXCEPT ![Top.i].free = TRUE]
        BY <3>1, <3>2 DEF EntryDone
      <4> QED
        BY <1>2, <4>1 DEF EntryRecords
    <3>3. CASE Top.op = "expire"
      <4> DEFINE f == [Top EXCEPT !.pc = "scan", !.i = @ + 1]
      <4>1. Continue(f) /\ UNCHANGED ackWaitList
        BY <3>1, <3>3 DEF EntryDone
      <4>2. f \in Frames /\ f.pc = "scan"
        BY <1>2, Advanced
      <4>3. ackWaitList[e].free
        BY <1>1, <1>2, <3>3 DEF CallFits
      <4> HIDE DEF f, e
      <4> QED
        BY <4>1, <4>2, <4>3 DEF Owns
    <3> QED
      BY <1>2, <3>2, <3>3
  <2> HIDE DEF u, e
  <2>2. /\ OthersSame(Top.i)
        /\ \A t \in Topics :
              /\ Before(Top.i, t) <=> UsesOf(Top, ackWaitList, t)
              /\ After(Top.i, t) <=> ~ackWaitList'[Top.i].free /\ ackWaitList'[Top.i].key = t[1]
    BY <2>1, LeaveUses DEF e
  <2>3. \A t \in Topics : After(Top.i, t) <=> Before(Top.i, t) /\ t # u
    BY <1>4, <1>5, <1>7, <2>1, <2>2 DEF e
  <2>4. Before(Top.i, u)
    BY <1>3, <1>4, <1>5, <1>7, <2>2
  <2>5. Leaves(Top.i, u)
    BY <1>2, <1>3, <2>2, <2>3, UsersLeave DEF e
  <2> QED
    BY <1>2, <1>3, <2>4, <2>5 DEF e, u, Before, Users, UsersIn
<1> QED
  BY <1>1, <1>6, <1>7

\* A subscribe gives the entry of the action that is being started one more topic.
LEMMA SubscribeUses ==
    ASSUME ShadowTypes, ShadowTypes', ControlInv, ControlInv', stack # << >>,
           NEW s \in Status, UNCHANGED ackWaitList,
           s = "accepted" => Top.pc = "subscribe_accepted" /\ Goto("subscribe_rejected"),
           s = "rejected" => Top.pc = "subscribe_rejected" /\ Goto("publish")
    PROVE  /\ Top.i \in AckSlots /\ << Top.key, s >> \in Topics
           /\ Top.i \notin Users(<< Top.key, s >>) /\ Joins(Top.i, << Top.key, s >>)
<1> DEFINE u == << Top.key, s >>
           pc == IF s = "accepted" THEN "subscribe_rejected" ELSE "publish"
           f == [Top EXCEPT !.pc = pc]
<1>1. s \in { "accepted", "rejected" }
  BY DEF Status
<1>2. Top \in Frames /\ FrameFits(Top) /\ Top.op \in { "action", "ack", "expire" }
  BY TopFacts, FrameFields DEF ShadowTypes
<1>3. Owns(Top) /\ Top.i \in AckSlots /\ Top.key \in Keys /\ u \in Topics
  BY <1>1, <1>2 DEF FrameFits, ActionPcs, EntryPcs, Owns, Topics
<1>4. pc \in Pcs /\ pc \notin { "scan", "callback" }
  BY DEF Pcs
<1>5. Continue(f)
  BY <1>1 DEF Goto
<1>5a. /\ s = "accepted" => pc = "subscribe_rejected"
       /\ s = "rejected" => pc = "publish"
  OBVIOUS
<1> HIDE DEF pc
<1>6. f \in Frames /\ f.pc = pc /\ f.i = Top.i /\ f.key = Top.key
  BY <1>2, <1>4, Changed
<1> HIDE DEF f
<1>7. /\ OthersSame(Top.i)
      /\ \A t \in Topics : /\ Before(Top.i, t) <=> UsesOf(Top, ackWaitList, t)
                           /\ After(Top.i, t) <=> UsesOf(f, ackWaitList', t)
  BY <1>5, <1>6, ContinueUses
<1>8. ASSUME NEW t \in Topics
      PROVE  /\ UsesOf(Top, ackWaitList, t)
                  <=> t[1] = Top.key /\ s = "rejected" /\ t[2] = "accepted"
             /\ UsesOf(f, ackWaitList', t)
                  <=> t[1] = Top.key /\ (s = "rejected" \/ t[2] = "accepted")
  <2>1. Owns(f)
    BY <1>4, <1>6 DEF Owns
  <2>2. UsesOf(Top, ackWaitList, t) <=> Top.key = t[1] /\ Holds(Top, t[2])
    BY <1>3 DEF UsesOf
  <2>3. UsesOf(f, ackWaitList', t) <=> f.key = t[1] /\ Holds(f, t[2])
    BY <2>1 DEF UsesOf
  <2>4. Holds(Top, t[2]) <=> s = "rejected" /\ t[2] = "accepted"
    BY <1>1 DEF Holds
  <2>5. Holds(f, t[2]) <=> s = "rejected" \/ t[2] = "accepted"
    BY <1>1, <1>5a, <1>6 DEF Holds
  <2> QED
    BY <1>6, <2>2, <2>3, <2>4, <2>5
<1>9. \A t \in Topics : /\ t[2] \in { "accepted", "rejected" }
                        /\ t = u <=> t[1] = Top.key /\ t[2] = s
  BY TopicIs DEF u
<1> HIDE DEF u
<1>10. \A t \in Topics : After(Top.i, t) <=> Before(Top.i, t) \/ t = u
  BY <1>1, <1>7, <1>8, <1>9
<1>11. ~Before(Top.i, u)
  BY <1>1, <1>3, <1>7, <1>8, <1>9
<1>12. Joins(Top.i, u)
  BY <1>3, <1>7, <1>10, UsersJoin
<1> QED
  BY <1>3, <1>11, <1>12 DEF u, Before, Users, UsersIn

\* The callback, the look at an entry, and the begin of an unsubscribe change no use.
LEMMA CallbackUses ==
    ASSUME ShadowTypes, ShadowTypes', ControlInv, ControlInv', CallbackReturn
    PROVE  SameUsers
<1> DEFINE k == ackWaitList[Top.i].key
           f == [Top EXCEPT !.pc = "unsubscribe_accepted", !.key = k]
<1>1. stack # << >> /\ Top.pc = "callback" /\ Top.pc \in EntryPcs
  BY DEF CallbackReturn, At, EntryPcs
<1>2. /\ Top.i \in AckSlots /\ Top.op \in { "ack", "expire" }
      /\ ackWaitList \in [AckSlots -> EntryRecords] /\ CallFits(Top, ackWaitList, persistent)
      /\ k \in Keys \cup { None }
  BY <1>1, EntryFacts, TypedParts, TopFits DEF ShadowTypes
<1>3. ~ackWaitList[Top.i].free
  BY <1>1, <1>2 DEF CallFits
<1>4. /\ Continue(f)
      /\ \A j \in AckSlots : j # Top.i => ackWaitList'[j] = ackWaitList[j]
  BY <1>2 DEF CallbackReturn
<1>5. "unsubscribe_accepted" \in Pcs
  BY DEF Pcs
<1>6. k = ackWaitList[Top.i].key
  OBVIOUS
<1> HIDE DEF k
<1>7. f \in Frames /\ f.pc = "unsubscribe_accepted" /\ f.i = Top.i /\ f.key = k
  BY <1>1, <1>2, <1>5, ChangedKey DEF ShadowTypes
<1> HIDE DEF f
<1>8. /\ OthersSame(Top.i)
      /\ \A t \in Topics : /\ Before(Top.i, t) <=> UsesOf(Top, ackWaitList, t)
                           /\ After(Top.i, t) <=> UsesOf(f, ackWaitList', t)
  BY <1>1, <1>4, <1>7, ContinueUses
<1>9. ASSUME NEW t \in Topics
      PROVE  After(Top.i, t) <=> Before(Top.i, t)
  <2>1. ~Owns(Top) /\ Owns(f) /\ Holds(f, t[2])
    BY <1>1, <1>7 DEF Owns, Holds
  <2>2. UsesOf(Top, ackWaitList, t) <=> k = t[1]
    BY <1>3, <1>6, <2>1 DEF UsesOf
  <2>3. UsesOf(f, ackWaitList', t) <=> k = t[1]
    BY <1>7, <2>1 DEF UsesOf
  <2> QED
    BY <1>8, <2>2, <2>3
<1> QED
  BY <1>8, <1>9, UsersSame

LEMMA ScanUses ==
    ASSUME ShadowTypes, ShadowTypes', ControlInv, Scan
    PROVE  SameUsers
<1> USE DEF records
<1>1. stack # << >> /\ Top.pc = "scan" /\ UNCHANGED ackWaitList
  BY DEF Scan, At
<1>2. Top \in Frames
  BY <1>1, TopFacts DEF ShadowTypes
<1>3. Return \/ \E f \in Frames : Continue(f) /\ ~Owns(f)
  <2>1. CASE Goto("callback")
    <3>1. "callback" \in Pcs
      BY DEF Pcs
    <3>2. [Top EXCEPT !.pc = "callback"] \in Frames /\ [Top EXCEPT !.pc = "callback"].pc = "callback"
      BY <1>2, <3>1, Changed
    <3> QED
      BY <2>1, <3>2 DEF Goto, Owns
  <2>2. CASE Top.i \in AckSlots /\ Continue([Top EXCEPT !.i = @ + 1])
    <3>1. [Top EXCEPT !.i = @ + 1] \in Frames /\ [Top EXCEPT !.i = @ + 1].pc = "scan"
      BY <1>1, <1>2, <2>2, Advanced
    <3> QED
      BY <2>2, <3>1 DEF Owns
  <2> QED
    BY <2>1, <2>2 DEF Scan
<1>4. /\ OthersSame(Top.i)
      /\ \A t \in Topics :
            /\ Before(Top.i, t) <=> UsesOf(Top, ackWaitList, t)
            /\ After(Top.i, t) <=> ~ackWaitList'[Top.i].free /\ ackWaitList'[Top.i].key = t[1]
  BY <1>1, <1>3, LeaveUses
<1>5. ASSUME NEW t \in Topics
      PROVE  After(Top.i, t) <=> Before(Top.i, t)
  <2>1. ~Owns(Top)
    BY <1>1 DEF Owns
  <2>2. UsesOf(Top, ackWaitList, t) <=> ~ackWaitList[Top.i].free /\ ackWaitList[Top.i].key = t[1]
    BY <2>1 DEF UsesOf
  <2> QED
    BY <1>1, <1>4, <2>2
<1> QED
  BY <1>4, <1>5, UsersSame

LEMMA WaitUses ==
    ASSUME ShadowTypes, ShadowTypes', ControlInv, ControlInv', stack # << >>,
           NEW s \in Status, UNCHANGED ackWaitList, NEW f \in Frames, Continue(f),
           f.pc = WaitPc(s), f.i = Top.i, f.key = Top.key,
           s = "accepted" => Top.pc = "unsubscribe_accepted",
           s = "rejected" => Top.pc = "unsubscribe_rejected"
    PROVE  SameUsers
<1>1. s \in { "accepted", "rejected" }
  BY DEF Status
<1>2. /\ OthersSame(Top.i)
      /\ \A t \in Topics : /\ Before(Top.i, t) <=> UsesOf(Top, ackWaitList, t)
                           /\ After(Top.i, t) <=> UsesOf(f, ackWaitList', t)
  BY ContinueUses
<1>3. ASSUME NEW t \in Topics
      PROVE  After(Top.i, t) <=> Before(Top.i, t)
  <2>1. Owns(Top) /\ Owns(f)
    BY <1>1 DEF Owns, WaitPc
  <2>2. Holds(f, t[2]) <=> Holds(Top, t[2])
    BY <1>1 DEF Holds, WaitPc
  <2>3. UsesOf(Top, ackWaitList, t) <=> Top.key = t[1] /\ Holds(Top, t[2])
    BY <2>1 DEF UsesOf
  <2>4. UsesOf(f, ackWaitList', t) <=> Top.key = t[1] /\ Holds(f, t[2])
    BY <2>1 DEF UsesOf
  <2> QED
    BY <1>2, <2>2, <2>3, <2>4
<1> QED
  BY <1>2, <1>3, UsersSame

\* A published action waits for its response: its entry takes over from the call.
LEMMA PublishUses ==
    ASSUME ShadowTypes, ShadowTypes', ControlInv, Published
    PROVE  /\ SameUsers /\ Top.i \in AckSlots /\ Top.key \in Keys
           /\ \A t \in Topics : t[1] = Top.key => Top.i \in Users(t)
<1>1. stack # << >> /\ Top.pc = "publish" /\ Return
  BY DEF Published, At
<1>2. Top \in Frames /\ FrameFits(Top) /\ Top.op \in { "action", "ack", "expire" }
  BY <1>1, TopFacts, FrameFields DEF ShadowTypes
<1>3. Owns(Top) /\ Top.i \in AckSlots /\ Top.key \in Keys
  BY <1>1, <1>2 DEF FrameFits, EntryPcs, Owns
<1>4. /\ \A j \in AckSlots : j # Top.i => ackWaitList'[j] = ackWaitList[j]
      /\ ~ackWaitList'[Top.i].free /\ ackWaitList'[Top.i].key = Top.key
  BY <1>3, TypedParts DEF Published, ShadowTypes
<1>5. /\ OthersSame(Top.i)
      /\ \A t \in Topics :
            /\ Before(Top.i, t) <=> UsesOf(Top, ackWaitList, t)
            /\ After(Top.i, t) <=> ~ackWaitList'[Top.i].free /\ ackWaitList'[Top.i].key = t[1]
  BY <1>1, <1>4, LeaveUses
<1>6. ASSUME NEW t \in Topics
      PROVE  Before(Top.i, t) <=> Top.key = t[1]
  <2>1. Holds(Top, t[2])
    BY <1>1 DEF Holds
  <2>2. UsesOf(Top, ackWaitList, t) <=> Top.key = t[1]
    BY <1>3, <2>1 DEF UsesOf
  <2> QED
    BY <1>5, <2>2
<1>7. \A t \in Topics : After(Top.i, t) <=> Before(Top.i, t)
  BY <1>4, <1>5, <1>6
<1>8. SameUsers
  BY <1>5, <1>7, UsersSame
<1> QED
  BY <1>3, <1>6, <1>8 DEF Before, Users, UsersIn

\* A call about an entry begins by looking at it.
LEMMA CallUses ==
    ASSUME ShadowTypes, ShadowTypes', ControlInv', NEW f \in Frames, Push(f), ~Owns(f),
           UNCHANGED ackWaitList
    PROVE  SameUsers
<1>1. /\ OthersSame(f.i)
      /\ \A t \in Topics :
            /\ Before(f.i, t) <=> ~ackWaitList[f.i].free /\ ackWaitList[f.i].key = t[1]
            /\ After(f.i, t) <=> UsesOf(f, ackWaitList, t)
  BY PushUses
<1>2. \A t \in Topics : UsesOf(f, ackWaitList, t)
                          <=> ~ackWaitList[f.i].free /\ ackWaitList[f.i].key = t[1]
  BY DEF UsesOf
<1> QED
  BY <1>1, <1>2, UsersSame

\* An action that is started uses no topic, or both if they are subscribed.
LEMMA StartUses ==
    ASSUME ShadowTypes, ShadowTypes', ControlInv', NEW f \in Frames, Push(f),
           f.i \in AckSlots, ackWaitList[f.i].free, UNCHANGED ackWaitList,
           f.pc \in { "subscribe_accepted", "publish" }
    PROVE  /\ \A t \in Topics : f.i \notin Users(t)
           /\ f.pc = "subscribe_accepted" => SameUsers
           /\ f.pc = "publish" =>
                 \A t \in Topics : Users(t)' = IF t[1] = f.key THEN Users(t) \cup { f.i }
                                               ELSE Users(t)
<1>1. /\ OthersSame(f.i)
      /\ \A t \in Topics :
            /\ Before(f.i, t) <=> ~ackWaitList[f.i].free /\ ackWaitList[f.i].key = t[1]
            /\ After(f.i, t) <=> UsesOf(f, ackWaitList, t)
  BY PushUses
<1>2. ASSUME NEW t \in Topics
      PROVE  /\ ~Before(f.i, t)
             /\ f.pc = "subscribe_accepted" => ~After(f.i, t)
             /\ f.pc = "publish" => (After(f.i, t) <=> t[1] = f.key)
  <2>1. Owns(f)
    BY DEF Owns
  <2>2. UsesOf(f, ackWaitList, t) <=> f.key = t[1] /\ Holds(f, t[2])
    BY <2>1 DEF UsesOf
  <2>3. /\ f.pc = "subscribe_accepted" => ~Holds(f, t[2])
        /\ f.pc = "publish" => Holds(f, t[2])
    BY DEF Holds
  <2> QED
    BY <1>1, <2>2, <2>3
<1>3. \A t \in Topics : f.i \notin Users(t)
  BY <1>2 DEF Before, Users, UsersIn
<1>4. f.pc = "subscribe_accepted" => SameUsers
  BY <1>1, <1>2, UsersSame
<1>5. ASSUME f.pc = "publish", NEW t \in Topics
      PROVE  Users(t)' = IF t[1] = f.key THEN Users(t) \cup { f.i } ELSE Users(t)
  <2>1. \A j \in AckSlots : j # f.i =>
           (UsesIn(stack', ackWaitList', j, t) <=> UsesIn(stack, ackWaitList, j, t))
    BY <1>1 DEF OthersSame
  <2>2. /\ ~UsesIn(stack, ackWaitList, f.i, t)
        /\ UsesIn(stack', ackWaitList', f.i, t) <=> t[1] = f.key
    BY <1>2, <1>5 DEF Before, After
  <2>3. \A j \in AckSlots : /\ j \in Users(t) <=> UsesIn(stack, ackWaitList, j, t)
                            /\ j \in Users(t)' <=> UsesIn(stack', ackWaitList', j, t)
    BY DEF Users, UsersIn
  <2>4. Users(t) \subseteq AckSlots /\ Users(t)' \subseteq AckSlots
    BY DEF Users, UsersIn
  <2> QED
    BY <2>1, <2>2, <2>3, <2>4
<1> QED
  BY <1>3, <1>4, <1>5

-----------------------------------------------------------------------------
(* What a change of the lists does to them *)

LEMMA MinLeast ==
    ASSUME NEW S \in SUBSET Nat, S # {}
    PROVE  Min(S) \in S /\ \A y \in S : Min(S) <= y
<1>1. \E x \in S : \A y \in S : ~(<< y, x >> \in OpToRel(<, Nat))
  BY WFMin, NatLessThanWellFounded
<1>2. \A x, y \in Nat : y < x => << y, x >> \in OpToRel(<, Nat)
  BY DEF OpToRel
<1>3. \E x \in S : \A y \in S : ~(y < x)
  BY <1>1, <1>2
<1>4. \E x \in S : \A y \in S : x <= y
  BY <1>3
<1> QED
  BY <1>4 DEF Min

\* No two records have the same topic.
LEMMA OneRecord ==
    ASSUME NEW subs, NEW settled \in SUBSET SubSlots, NEW listed,
           RecordedIn(subs, settled, listed), NEW m \in settled, NEW n \in settled,
           subs[m].topic = subs[n].topic
    PROVE  m = n
<1>1. m \in Nat /\ n \in Nat /\ m \in SubSlots /\ n \in SubSlots
  BY Slots
<1>2. Claims(subs, m, subs[m].topic) /\ Claims(subs, n, subs[n].topic)
  BY DEF RecordedIn
<1> QED
  BY <1>1, <1>2 DEF Claims

LEMMA AckFinite ==
    /\ IsFiniteSet(AckSlots)
    /\ \A S \in SUBSET AckSlots : /\ IsFiniteSet(S) /\ Cardinality(S) \in Nat
                                  /\ Cardinality(S) <= Cardinality(AckSlots)
<1>1. PICK n \in 0..NoSlot : AckSlots = 0..(n - 1)
  BY ShadowAssumption
<1>2. n \in Int /\ 0 \in Int /\ n - 1 \in Int
  BY DEF NoSlot
<1>3. IsFiniteSet(AckSlots)
  BY <1>1, <1>2, FS_Interval
<1>4. ASSUME NEW S \in SUBSET AckSlots
      PROVE  /\ IsFiniteSet(S) /\ Cardinality(S) \in Nat
             /\ Cardinality(S) <= Cardinality(AckSlots)
  <2>1. IsFiniteSet(S) /\ Cardinality(S) <= Cardinality(AckSlots)
    BY <1>3, FS_Subset
  <2> QED
    BY <2>1, FS_CardinalityType
<1> QED
  BY <1>3, <1>4

LEMMA UserCounts ==
    ASSUME NEW S \in SUBSET AckSlots, NEW e \in AckSlots
    PROVE  /\ e \notin S => Cardinality(S \cup { e }) = Cardinality(S) + 1
           /\ e \in S => /\ Cardinality(S \ { e }) = Cardinality(S) - 1
                         /\ Cardinality(S) > 0
                         /\ Cardinality(S) = 1 => S = { e }
<1>1. IsFiniteSet(S) /\ Cardinality(S) \in Nat
  BY AckFinite
<1>2. e \notin S => Cardinality(S \cup { e }) = Cardinality(S) + 1
  BY <1>1, FS_AddElement
<1>3. ASSUME e \in S
      PROVE  /\ Cardinality(S \ { e }) = Cardinality(S) - 1 /\ Cardinality(S) > 0
             /\ Cardinality(S) = 1 => S = { e }
  <2>1. Cardinality(S \ { e }) = Cardinality(S) - 1
    BY <1>1, <1>3, FS_RemoveElement
  <2>2. S \ { e } \in SUBSET AckSlots /\ IsFiniteSet(S \ { e }) /\ Cardinality(S \ { e }) \in Nat
    BY AckFinite
  <2>3. Cardinality(S \ { e }) = 0 => S \ { e } = {}
    BY <2>2, FS_EmptySet
  <2> QED
    BY <1>1, <1>3, <2>1, <2>2, <2>3
<1> QED
  BY <1>2, <1>3

UseTypes == [Topics -> SUBSET AckSlots]
ListTypes == [SubSlots -> TopicRecords]
HandlerTypes == [HandlerSlots -> SubSlots \cup { NoSlot }]

\* An action shares the topics of its key.
SharedIn(subs, next, key, sticky) ==
    \A i \in SubSlots :
        /\ next[i].free = subs[i].free /\ next[i].topic = subs[i].topic
        /\ IF ~subs[i].free /\ subs[i].topic \in { << key, s >> : s \in Status }
           THEN next[i].count = (subs[i].count + 1) % 256 /\ next[i].sticky = sticky
           ELSE next[i] = subs[i]

GainsKey(use, gain, key, e) ==
    \A t \in Topics : /\ e \notin use[t]
                      /\ gain[t] = IF t[1] = key THEN use[t] \cup { e } ELSE use[t]

LEMMA ShareList ==
    ASSUME Cardinality(AckSlots) <= 255,
           NEW subs \in ListTypes, NEW hand, NEW broker, NEW use \in UseTypes, NEW keys,
           ListIn(subs, hand, broker, {}, use, keys),
           NEW key \in Keys, NEW sticky \in BOOLEAN, sticky <=> Sticks(key), NEW e \in AckSlots,
           << key, "accepted" >> \in ListedIn(use, keys),
           << key, "rejected" >> \in ListedIn(use, keys),
           NEW next, SharedIn(subs, next, key, sticky),
           NEW gain \in UseTypes, GainsKey(use, gain, key, e)
    PROVE  ListIn(next, hand, broker, {}, gain, keys)
<1> DEFINE settled == SettledIn(subs, {})
           listed == ListedIn(use, keys)
<1>1. settled \in SUBSET SubSlots
  BY DEF SettledIn
<1>2. \A i \in SubSlots : next[i].free = subs[i].free /\ next[i].topic = subs[i].topic
  BY DEF SharedIn
<1>3. SettledIn(next, {}) = settled
  BY <1>2 DEF SettledIn
<1>4. ListedIn(gain, keys) = listed
  <2>1. ASSUME NEW t \in Topics, t[1] = key
        PROVE  t \in listed
    <3>1. t = << key, "accepted" >> \/ t = << key, "rejected" >>
      BY <2>1 DEF Topics, Status
    <3> QED
      BY <3>1
  <2>2. ASSUME NEW t \in Topics
        PROVE  t \in ListedIn(gain, keys) <=> t \in listed
    <3>1. CASE t[1] = key
      <4>1. t \in listed
        BY <2>1, <3>1
      <4>2. gain[t] # {}
        BY <3>1 DEF GainsKey
      <4> QED
        BY <4>1, <4>2 DEF ListedIn
    <3>2. CASE t[1] # key
      BY <3>2 DEF GainsKey, ListedIn
    <3> QED
      BY <3>1, <3>2
  <2>3. ListedIn(gain, keys) \subseteq Topics /\ listed \subseteq Topics
    BY DEF ListedIn
  <2> QED
    BY <2>2, <2>3
<1>5. RecordedIn(subs, settled, listed) /\ CountedIn(subs, settled, use)
  BY DEF ListIn
<1>6. RecordedIn(next, settled, listed)
  BY <1>1, <1>2, <1>5 DEF RecordedIn, Claims
<1>7. CountedIn(next, settled, gain)
  <2> SUFFICES ASSUME NEW n \in settled
               PROVE  /\ next[n].sticky <=> Sticks(next[n].topic[1])
                      /\ ~Sticks(next[n].topic[1]) =>
                            next[n].count = Cardinality(gain[next[n].topic])
    BY DEF CountedIn
  <2> DEFINE t == subs[n].topic
  <2>1. n \in SubSlots /\ ~subs[n].free /\ t \in Topics /\ next[n].topic = t
    BY <1>1, <1>2, <1>5 DEF RecordedIn, ListedIn, SettledIn
  <2>2. /\ subs[n].sticky <=> Sticks(t[1])
        /\ ~Sticks(t[1]) => subs[n].count = Cardinality(use[t])
    BY <1>5 DEF CountedIn
  <2>3. t = subs[n].topic
    OBVIOUS
  <2> HIDE DEF t, settled, listed
  <2>4. CASE t[1] = key
    <3>1. t \in { << key, s >> : s \in Status }
      BY <2>1, <2>4 DEF Topics
    <3>2. next[n].sticky = sticky /\ next[n].count = (subs[n].count + 1) % 256
      BY <2>1, <2>3, <3>1 DEF SharedIn
    <3>3. /\ Cardinality(gain[t]) = Cardinality(use[t]) + 1 /\ Cardinality(gain[t]) <= 255
          /\ Cardinality(use[t]) \in Nat
      <4>1. gain[t] = use[t] \cup { e } /\ e \notin use[t]
        BY <2>1, <2>4 DEF GainsKey
      <4>2. use[t] \in SUBSET AckSlots /\ gain[t] \in SUBSET AckSlots
        BY <2>1 DEF UseTypes
      <4>3. /\ Cardinality(gain[t]) \in Nat /\ Cardinality(gain[t]) <= Cardinality(AckSlots)
            /\ Cardinality(use[t]) \in Nat /\ Cardinality(AckSlots) \in Nat
        BY <4>2, AckFinite
      <4>4. Cardinality(gain[t]) = Cardinality(use[t]) + 1
        BY <4>1, <4>2, UserCounts
      <4> QED
        BY <4>3, <4>4
    <3>4. ~Sticks(t[1]) => next[n].count = Cardinality(gain[t])
      BY <2>2, <3>2, <3>3
    <3>5. next[n].sticky <=> Sticks(t[1])
      BY <2>4, <3>2
    <3> QED
      BY <2>1, <3>4, <3>5
  <2>5. CASE t[1] # key
    <3>1. t \notin { << key, s >> : s \in Status }
      BY <2>5
    <3>2. next[n] = subs[n]
      BY <2>1, <2>3, <3>1 DEF SharedIn
    <3>3. gain[t] = use[t]
      BY <2>1, <2>5 DEF GainsKey
    <3> QED
      BY <2>1, <2>2, <3>2, <3>3
  <2> QED
    BY <2>4, <2>5
<1> QED
  BY <1>3, <1>4, <1>6, <1>7 DEF ListIn

\* Two free records are taken for an action, the first ones there are.
TookIn(subs, next, acc, rej, topic) ==
    /\ ~next[acc].free /\ ~next[rej].free /\ next[acc].topic = topic
    /\ \A i \in SubSlots : i \notin { acc, rej } => next[i] = subs[i]
    /\ \A i \in SubSlots : i # acc => next[i].topic = subs[i].topic

FirstFree(subs, acc, rej) ==
    /\ acc # rej /\ subs[acc].free /\ subs[rej].free
    /\ \A i \in SubSlots : subs[i].free => acc <= i
    /\ \A i \in SubSlots : subs[i].free /\ i # acc => rej <= i

LEMMA TakeList ==
    ASSUME NEW subs, NEW hand, NEW broker, NEW use, NEW keys,
           ListIn(subs, hand, broker, {}, use, keys),
           NEW key \in Keys, << key, "accepted" >> \notin ListedIn(use, keys),
           << key, "rejected" >> \notin ListedIn(use, keys),
           NEW acc \in SubSlots, NEW rej \in SubSlots, FirstFree(subs, acc, rej),
           NEW next, TookIn(subs, next, acc, rej, << key, "accepted" >>)
    PROVE  /\ ListIn(next, hand, broker, { acc, rej }, use, keys)
           /\ Claims(next, acc, << key, "accepted" >>)
           /\ Claims(next, rej, << key, "rejected" >>)
<1> DEFINE settled == SettledIn(subs, {})
           listed == ListedIn(use, keys)
<1>1. settled \in SUBSET SubSlots /\ acc \in Nat /\ rej \in Nat /\ SubSlots \subseteq Nat
  BY Slots DEF SettledIn
<1>2. \A n \in SubSlots : n \in settled <=> ~subs[n].free
  BY DEF SettledIn
<1>3. ASSUME NEW n \in settled
      PROVE  n \in SubSlots /\ n # acc /\ n # rej /\ next[n] = subs[n]
  <2> HIDE DEF settled
  <2>1. n \in SubSlots /\ ~subs[n].free
    BY <1>1, <1>2
  <2>2. n # acc /\ n # rej
    BY <2>1 DEF FirstFree
  <2> QED
    BY <2>1, <2>2 DEF TookIn
<1>4. SettledIn(next, { acc, rej }) = settled
  <2>1. ASSUME NEW n \in SubSlots
        PROVE  n \in SettledIn(next, { acc, rej }) <=> n \in settled
    <3>1. CASE n \in { acc, rej }
      BY <1>3, <3>1 DEF SettledIn
    <3>2. CASE n \notin { acc, rej }
      <4>1. next[n] = subs[n]
        BY <3>2 DEF TookIn
      <4> QED
        BY <3>2, <4>1 DEF SettledIn
    <3> QED
      BY <3>1, <3>2
  <2>2. SettledIn(next, { acc, rej }) \subseteq SubSlots
    BY DEF SettledIn
  <2> HIDE DEF settled
  <2> QED
    BY <1>1, <2>1, <2>2
<1>5. RecordedIn(subs, settled, listed) /\ CountedIn(subs, settled, use)
  BY DEF ListIn
<1>6. /\ << key, "accepted" >> \notin listed /\ << key, "rejected" >> \notin listed
      /\ << key, "accepted" >> # << key, "rejected" >>
  OBVIOUS
<1> HIDE DEF settled, listed
<1>7. \A n \in settled : subs[n].topic \in listed /\ Claims(subs, n, subs[n].topic)
  BY <1>5 DEF RecordedIn
<1>8. \A n \in settled : Claims(next, n, next[n].topic)
  <2> SUFFICES ASSUME NEW n \in settled, NEW i \in SubSlots, i # n,
                      next[i].topic = next[n].topic
               PROVE  n < i
    BY DEF Claims
  <2>1. next[n].topic = subs[n].topic /\ subs[n].topic \in listed
    BY <1>3, <1>7
  <2>2. i # acc
    BY <1>6, <2>1 DEF TookIn
  <2>3. subs[i].topic = subs[n].topic
    BY <2>1, <2>2 DEF TookIn
  <2> QED
    BY <1>7, <2>3 DEF Claims
<1>9. RecordedIn(next, settled, listed)
  BY <1>3, <1>5, <1>8 DEF RecordedIn
<1>10. CountedIn(next, settled, use)
  BY <1>3, <1>5 DEF CountedIn
<1>11. ASSUME NEW i \in SubSlots, i # acc, next[i].topic = << key, "accepted" >>
       PROVE  acc < i
  <2>1. subs[i].topic = << key, "accepted" >>
    BY <1>11 DEF TookIn
  <2>2. subs[i].free
    BY <1>2, <1>6, <1>7, <2>1
  <2> QED
    BY <1>1, <1>11, <2>2 DEF FirstFree
<1>12. ASSUME NEW i \in SubSlots, i # rej, next[i].topic = << key, "rejected" >>
       PROVE  rej < i
  <2>1. i # acc
    BY <1>6, <1>12 DEF TookIn
  <2>2. subs[i].topic = << key, "rejected" >>
    BY <1>12, <2>1 DEF TookIn
  <2>3. subs[i].free
    BY <1>2, <1>6, <1>7, <2>2
  <2> QED
    BY <1>1, <1>12, <2>1, <2>3 DEF FirstFree
<1> QED
  BY <1>4, <1>9, <1>10, <1>11, <1>12 DEF ListIn, Claims, settled, listed

\* A record is subscribed.
HeardIn(subs, next, n, unheard, v, sticky) ==
    /\ \A i \in SubSlots : next[i].free = subs[i].free
    /\ next[n].topic = subs[n].topic /\ next[n].count = 1 /\ next[n].sticky = sticky
    /\ \A i \in SubSlots : i # n => next[i] = subs[i] \/ (i \in unheard /\ next[i].topic = v)

Gains(use, gain, u, e) ==
    \A t \in Topics : gain[t] = IF t = u THEN use[t] \cup { e } ELSE use[t]

LEMMA JoinList ==
    ASSUME NEW subs, NEW hand \in HandlerTypes, NEW broker, NEW unheard, NEW use, NEW keys,
           ListIn(subs, hand, broker, unheard, use, keys),
           NEW n \in SubSlots, n \in unheard, ~subs[n].free,
           NEW u \in Topics, subs[n].topic = u, u \notin ListedIn(use, keys), Claims(subs, n, u),
           NEW v, v # u, v \notin ListedIn(use, keys),
           NEW next, NEW sticky, HeardIn(subs, next, n, unheard, v, sticky),
           sticky <=> Sticks(u[1]),
           NEW gain, NEW e, Gains(use, gain, u, e),
           NEW h0 \in HandlerSlots, hand[h0] = NoSlot
    PROVE  ListIn(next, [hand EXCEPT ![h0] = n], broker \cup { u }, unheard \ { n }, gain, keys)
<1> DEFINE settled == SettledIn(subs, unheard)
           both == SettledIn(next, unheard \ { n })
           listed == ListedIn(use, keys)
           more == ListedIn(gain, keys)
           handlers == [hand EXCEPT ![h0] = n]
<1>1. /\ settled \in SUBSET SubSlots /\ n \notin settled /\ NoSlot \notin SubSlots
      /\ \A m \in settled : m \notin unheard
  BY Slots DEF SettledIn
<1>2. /\ RecordedIn(subs, settled, listed) /\ CountedIn(subs, settled, use)
      /\ HandledIn(hand, settled) /\ broker = listed /\ \A k \in keys : Sticks(k)
  BY DEF ListIn
<1>3. both = settled \cup { n }
  <2>1. ASSUME NEW m \in SubSlots
        PROVE  m \in both <=> m \in settled \/ m = n
    <3>1. next[m].free = subs[m].free
      BY DEF HeardIn
    <3> QED
      BY <3>1 DEF SettledIn
  <2>2. both \subseteq SubSlots
    BY DEF SettledIn
  <2> HIDE DEF both, settled
  <2> QED
    BY <1>1, <2>1, <2>2
<1>4. more = listed \cup { u }
  <2>1. ASSUME NEW t \in Topics
        PROVE  t \in more <=> t \in listed \/ t = u
    BY DEF ListedIn, Gains
  <2>2. more \subseteq Topics /\ listed \subseteq Topics
    BY DEF ListedIn
  <2> HIDE DEF more, listed
  <2> QED
    BY <2>1, <2>2
<1>5. use[u] = {} /\ u \notin listed /\ v \notin listed /\ listed \subseteq Topics
  BY DEF ListedIn
<1> HIDE DEF settled, both, listed, more
<1>6. \A m \in settled : next[m] = subs[m]
  BY <1>1 DEF HeardIn
<1>7. \A m \in settled : subs[m].topic \in listed /\ Claims(subs, m, subs[m].topic)
  BY <1>2 DEF RecordedIn
<1>8. next[n].topic = u
  BY DEF HeardIn
<1>9. RecordedIn(next, both, more)
  <2>1. ASSUME NEW m \in settled, NEW i \in SubSlots, i # m, next[i].topic = next[m].topic
        PROVE  m < i
    <3>1. next[m].topic = subs[m].topic /\ subs[m].topic \in listed
      BY <1>6, <1>7
    <3>2. i # n
      BY <1>5, <1>8, <2>1, <3>1
    <3>3. next[i] = subs[i]
      BY <1>5, <2>1, <3>1, <3>2 DEF HeardIn
    <3> QED
      BY <1>7, <2>1, <3>1, <3>3 DEF Claims
  <2>2. ASSUME NEW i \in SubSlots, i # n, next[i].topic = u
        PROVE  n < i
    <3>1. next[i] = subs[i]
      BY <2>2 DEF HeardIn
    <3> QED
      BY <2>2, <3>1 DEF Claims
  <2>3. \A m \in both : next[m].topic \in more /\ Claims(next, m, next[m].topic)
    <3>1. ASSUME NEW m \in settled
          PROVE  next[m].topic \in more /\ Claims(next, m, next[m].topic)
      BY <1>4, <1>6, <1>7, <2>1 DEF Claims
    <3>2. next[n].topic \in more /\ Claims(next, n, next[n].topic)
      BY <1>4, <1>8, <2>2 DEF Claims
    <3> QED
      BY <1>3, <3>1, <3>2
  <2>4. \A t \in more : \E m \in both : next[m].topic = t
    <3>1. \A t \in listed : \E m \in settled : subs[m].topic = t
      BY <1>2 DEF RecordedIn
    <3> QED
      BY <1>3, <1>4, <1>6, <1>8, <3>1
  <2> QED
    BY <2>3, <2>4 DEF RecordedIn
<1>10. HandledIn(handlers, both)
  <2>1. /\ handlers[h0] = n /\ \A h \in HandlerSlots : h # h0 => handlers[h] = hand[h]
        /\ n # NoSlot
    BY <1>1 DEF HandlerTypes
  <2> HIDE DEF handlers
  <2>2. /\ \A h \in HandlerSlots : hand[h] # NoSlot => hand[h] \in settled
        /\ \A g, h \in HandlerSlots : hand[g] # NoSlot /\ hand[g] = hand[h] => g = h
        /\ \A m \in settled : \E h \in HandlerSlots : hand[h] = m
    BY <1>2 DEF HandledIn
  <2>3. \A h \in HandlerSlots : handlers[h] # NoSlot => handlers[h] \in both
    BY <1>3, <2>1, <2>2
  <2>4. \A h \in HandlerSlots : hand[h] # n
    BY <1>1, <2>1, <2>2
  <2>5. \A g, h \in HandlerSlots : handlers[g] # NoSlot /\ handlers[g] = handlers[h] => g = h
    BY <2>1, <2>2, <2>4
  <2>6. \A m \in both : \E h \in HandlerSlots : handlers[h] = m
    <3>1. ASSUME NEW m \in settled
          PROVE  \E h \in HandlerSlots : handlers[h] = m
      <4>1. PICK h \in HandlerSlots : hand[h] = m
        BY <2>2
      <4>2. m # NoSlot
        BY <1>1
      <4> QED
        BY <2>1, <4>1, <4>2
    <3> QED
      BY <1>3, <2>1, <3>1
  <2> QED
    BY <2>3, <2>5, <2>6 DEF HandledIn
<1>11. CountedIn(next, both, gain)
  <2>1. ASSUME NEW m \in settled
        PROVE  /\ next[m].sticky <=> Sticks(next[m].topic[1])
               /\ ~Sticks(next[m].topic[1]) => next[m].count = Cardinality(gain[next[m].topic])
    <3>1. next[m] = subs[m] /\ subs[m].topic \in Topics /\ subs[m].topic # u
      BY <1>5, <1>6, <1>7
    <3>2. gain[subs[m].topic] = use[subs[m].topic]
      BY <3>1 DEF Gains
    <3>3. /\ subs[m].sticky <=> Sticks(subs[m].topic[1])
          /\ ~Sticks(subs[m].topic[1]) => subs[m].count = Cardinality(use[subs[m].topic])
      BY <1>2 DEF CountedIn
    <3> QED
      BY <3>1, <3>2, <3>3
  <2>2. /\ next[n].sticky <=> Sticks(next[n].topic[1])
        /\ ~Sticks(next[n].topic[1]) => next[n].count = Cardinality(gain[next[n].topic])
    <3>1. gain[u] = { e }
      BY <1>5 DEF Gains
    <3>2. Cardinality({ e }) = 1
      BY FS_Singleton
    <3>3. next[n].count = 1 /\ next[n].sticky = sticky
      BY DEF HeardIn
    <3> QED
      BY <1>8, <3>1, <3>2, <3>3
  <2> QED
    BY <1>3, <2>1, <2>2 DEF CountedIn
<1>12. broker \cup { u } = more
  BY <1>2, <1>4
<1> QED
  BY <1>2, <1>9, <1>10, <1>11, <1>12 DEF ListIn, both, more

\* An action no longer uses a topic that others use, or that is kept.
Loses(use, loss, u, e) ==
    \A t \in Topics : loss[t] = IF t = u THEN use[t] \ { e } ELSE use[t]

LoweredIn(subs, next, n) ==
    /\ \A i \in SubSlots : i # n => next[i] = subs[i]
    /\ next[n].free = subs[n].free /\ next[n].topic = subs[n].topic
    /\ next[n].sticky = subs[n].sticky

LEMMA ReleaseList ==
    ASSUME NEW subs \in ListTypes, NEW hand, NEW broker, NEW unheard, NEW use \in UseTypes,
           NEW keys, ListIn(subs, hand, broker, unheard, use, keys),
           NEW n \in SettledIn(subs, unheard), NEW u, subs[n].topic = u,
           NEW e \in AckSlots, e \in use[u], NEW loss, Loses(use, loss, u, e),
           NEW next, LoweredIn(subs, next, n),
           Sticks(u[1]) => u[1] \in keys,
           ~Sticks(u[1]) => subs[n].count > 1 /\ next[n].count = subs[n].count - 1
    PROVE  /\ ListIn(next, hand, broker, unheard, loss, keys)
           /\ ListedIn(loss, keys) = ListedIn(use, keys)
           /\ SettledIn(next, unheard) = SettledIn(subs, unheard)
<1> DEFINE settled == SettledIn(subs, unheard)
           listed == ListedIn(use, keys)
<1>1. settled \in SUBSET SubSlots /\ n \in settled
  BY DEF SettledIn
<1>2. /\ RecordedIn(subs, settled, listed) /\ CountedIn(subs, settled, use)
  BY DEF ListIn
<1>3. \A i \in SubSlots : next[i].free = subs[i].free /\ next[i].topic = subs[i].topic
                          /\ next[i].sticky = subs[i].sticky
  BY DEF LoweredIn
<1>4. SettledIn(next, unheard) = settled
  BY <1>3 DEF SettledIn
<1>5. listed \subseteq Topics /\ u \in listed /\ u \in Topics
  BY <1>1, <1>2 DEF RecordedIn, ListedIn
<1>6. use[u] \in SUBSET AckSlots
  BY <1>5 DEF UseTypes
<1>7. ~Sticks(u[1]) => /\ subs[n].count = Cardinality(use[u])
                       /\ next[n].count = Cardinality(use[u] \ { e })
                       /\ use[u] \ { e } # {}
  <2> SUFFICES ASSUME ~Sticks(u[1])
               PROVE  /\ subs[n].count = Cardinality(use[u])
                      /\ next[n].count = Cardinality(use[u] \ { e })
                      /\ use[u] \ { e } # {}
    OBVIOUS
  <2>1. subs[n].count = Cardinality(use[u])
    BY <1>1, <1>2 DEF CountedIn
  <2>2. Cardinality(use[u] \ { e }) = Cardinality(use[u]) - 1 /\ Cardinality(use[u]) \in Nat
    BY <1>6, UserCounts, AckFinite
  <2>3. use[u] # { e }
    BY <2>1, FS_Singleton
  <2> QED
    BY <2>1, <2>2, <2>3
<1>8. ListedIn(loss, keys) = listed
  <2>1. ASSUME NEW t \in Topics
        PROVE  t \in ListedIn(loss, keys) <=> t \in listed
    <3>1. CASE t = u
      <4>1. loss[u] = use[u] \ { e }
        BY <1>5 DEF Loses
      <4>2. u[1] \in keys \/ loss[u] # {}
        BY <1>7, <4>1
      <4>3. u \in ListedIn(loss, keys)
        BY <1>5, <4>2 DEF ListedIn
      <4> QED
        BY <1>5, <3>1, <4>3
    <3>2. CASE t # u
      BY <3>2 DEF ListedIn, Loses
    <3> QED
      BY <3>1, <3>2
  <2>2. ListedIn(loss, keys) \subseteq Topics
    BY DEF ListedIn
  <2> HIDE DEF listed
  <2> QED
    BY <1>5, <2>1, <2>2
<1>9. RecordedIn(next, settled, listed)
  BY <1>1, <1>2, <1>3 DEF RecordedIn, Claims
<1>10. CountedIn(next, settled, loss)
  <2> SUFFICES ASSUME NEW m \in settled
               PROVE  /\ next[m].sticky <=> Sticks(next[m].topic[1])
                      /\ ~Sticks(next[m].topic[1]) =>
                            next[m].count = Cardinality(loss[next[m].topic])
    BY DEF CountedIn
  <2>1. /\ subs[m].sticky <=> Sticks(subs[m].topic[1])
        /\ ~Sticks(subs[m].topic[1]) => subs[m].count = Cardinality(use[subs[m].topic])
        /\ subs[m].topic \in Topics
    BY <1>2, <1>5 DEF CountedIn, RecordedIn
  <2> HIDE DEF settled
  <2>2. m \in SubSlots
    BY <1>1
  <2>3. CASE m = n
    <3>1. loss[u] = use[u] \ { e }
      BY <1>5 DEF Loses
    <3> QED
      BY <1>3, <1>7, <2>1, <2>2, <2>3, <3>1
  <2>4. CASE m # n
    <3>1. next[m] = subs[m]
      BY <2>2, <2>4 DEF LoweredIn
    <3>2. subs[m].topic # u
      BY <1>1, <1>2, <2>4, OneRecord
    <3>3. loss[subs[m].topic] = use[subs[m].topic]
      BY <2>1, <3>2 DEF Loses
    <3> QED
      BY <2>1, <3>1, <3>3
  <2> QED
    BY <2>3, <2>4
<1> QED
  BY <1>4, <1>8, <1>9, <1>10 DEF ListIn

\* The last user of a topic is gone and it is unsubscribed.
DroppedIn(subs, next, a) ==
    /\ next[a].free /\ next[a].topic = subs[a].topic
    /\ \A i \in SubSlots : i # a => next[i] = subs[i]

UnheededIn(hand, handlers, a) ==
    \A h \in HandlerSlots : handlers[h] = IF hand[h] = a THEN NoSlot ELSE hand[h]

LastIn(use, u, e) == use[u] = { e }

LEMMA DropList ==
    ASSUME NEW subs, NEW hand, NEW broker, NEW unheard, NEW use,
           NEW keys, ListIn(subs, hand, broker, unheard, use, keys),
           NEW a \in SettledIn(subs, unheard), NEW u, subs[a].topic = u, ~Sticks(u[1]),
           NEW e, LastIn(use, u, e), NEW loss, Loses(use, loss, u, e),
           NEW next, DroppedIn(subs, next, a), NEW handlers, UnheededIn(hand, handlers, a)
    PROVE  /\ ListIn(next, handlers, broker \ { u }, unheard, loss, keys)
           /\ ListedIn(loss, keys) = ListedIn(use, keys) \ { u }
           /\ SettledIn(next, unheard) = SettledIn(subs, unheard) \ { a }
<1> USE DEF DroppedIn, UnheededIn, LastIn
<1> DEFINE settled == SettledIn(subs, unheard)
           listed == ListedIn(use, keys)
           fewer == SettledIn(next, unheard)
           less == ListedIn(loss, keys)
<1>1. settled \in SUBSET SubSlots /\ a \in settled /\ a \in SubSlots /\ NoSlot \notin SubSlots
  BY Slots DEF SettledIn
<1>2. /\ RecordedIn(subs, settled, listed) /\ CountedIn(subs, settled, use)
      /\ HandledIn(hand, settled) /\ broker = listed /\ \A k \in keys : Sticks(k)
  BY DEF ListIn
<1>3. fewer = settled \ { a }
  <2>1. ASSUME NEW m \in SubSlots
        PROVE  m \in fewer <=> m \in settled /\ m # a
    <3>1. CASE m = a
      BY <3>1 DEF SettledIn
    <3>2. CASE m # a
      BY <3>2 DEF SettledIn
    <3> QED
      BY <3>1, <3>2
  <2>2. fewer \subseteq SubSlots
    BY DEF SettledIn
  <2> HIDE DEF fewer, settled
  <2> QED
    BY <1>1, <2>1, <2>2
<1>4. listed \subseteq Topics /\ u \in listed /\ u \in Topics /\ u[1] \notin keys
  BY <1>1, <1>2 DEF RecordedIn, ListedIn
<1>5. less = listed \ { u }
  <2>1. loss[u] = {}
    BY <1>4 DEF Loses
  <2>2. ASSUME NEW t \in Topics
        PROVE  t \in less <=> t \in listed /\ t # u
    <3>1. CASE t = u
      BY <1>4, <2>1, <3>1 DEF ListedIn
    <3>2. CASE t # u
      BY <3>2 DEF ListedIn, Loses
    <3> QED
      BY <3>1, <3>2
  <2>3. less \subseteq Topics
    BY DEF ListedIn
  <2> HIDE DEF less, listed
  <2> QED
    BY <1>4, <2>2, <2>3
<1> HIDE DEF settled, listed, fewer, less
<1>6. \A m \in fewer : m \in settled /\ m \in SubSlots /\ m # a /\ next[m] = subs[m]
  BY <1>1, <1>3
<1>7. ASSUME NEW m \in fewer
      PROVE  subs[m].topic # u /\ subs[m].topic \in less /\ subs[m].topic \in Topics
  <2>1. subs[m].topic \in listed
    BY <1>2, <1>6 DEF RecordedIn
  <2>2. subs[m].topic # subs[a].topic
    BY <1>1, <1>2, <1>6, OneRecord
  <2> QED
    BY <1>4, <1>5, <2>1, <2>2
<1>8. RecordedIn(next, fewer, less)
  <2>1. ASSUME NEW m \in fewer, NEW i \in SubSlots, i # m, next[i].topic = next[m].topic
        PROVE  m < i
    <3>1. subs[i].topic = subs[m].topic
      <4>1. CASE i = a
        BY <1>6, <2>1, <4>1
      <4>2. CASE i # a
        BY <1>6, <2>1, <4>2
      <4> QED
        BY <4>1, <4>2
    <3>2. Claims(subs, m, subs[m].topic)
      BY <1>2, <1>6 DEF RecordedIn
    <3> QED
      BY <2>1, <3>1, <3>2 DEF Claims
  <2>2. \A m \in fewer : next[m].topic \in less /\ Claims(next, m, next[m].topic)
    BY <1>6, <1>7, <2>1 DEF Claims
  <2>3. ASSUME NEW t \in less
        PROVE  \E m \in fewer : next[m].topic = t
    <3>1. PICK m \in settled : subs[m].topic = t
      BY <1>2, <1>5 DEF RecordedIn
    <3>2. m # a
      BY <1>5, <3>1
    <3> QED
      BY <1>3, <1>6, <3>1, <3>2
  <2> QED
    BY <2>2, <2>3 DEF RecordedIn
<1>9. HandledIn(handlers, fewer)
  <2>1. /\ \A h \in HandlerSlots : hand[h] # NoSlot => hand[h] \in settled
        /\ \A g, h \in HandlerSlots : hand[g] # NoSlot /\ hand[g] = hand[h] => g = h
        /\ \A m \in settled : \E h \in HandlerSlots : hand[h] = m
    BY <1>2 DEF HandledIn
  <2>2. \A h \in HandlerSlots : handlers[h] # NoSlot => hand[h] # a /\ handlers[h] = hand[h]
    OBVIOUS
  <2>3. \A h \in HandlerSlots : hand[h] # a => handlers[h] = hand[h]
    OBVIOUS
  <2>4. \A h \in HandlerSlots : handlers[h] # NoSlot => handlers[h] \in fewer
    BY <1>3, <2>1, <2>2
  <2>5. \A g, h \in HandlerSlots : handlers[g] # NoSlot /\ handlers[g] = handlers[h] => g = h
    BY <2>1, <2>2
  <2>6. \A m \in fewer : \E h \in HandlerSlots : handlers[h] = m
    BY <1>6, <2>1, <2>3
  <2> QED
    BY <2>4, <2>5, <2>6 DEF HandledIn
<1>10. CountedIn(next, fewer, loss)
  <2>1. ASSUME NEW m \in fewer
        PROVE  /\ next[m].sticky <=> Sticks(next[m].topic[1])
               /\ ~Sticks(next[m].topic[1]) => next[m].count = Cardinality(loss[next[m].topic])
    <3>1. loss[subs[m].topic] = use[subs[m].topic]
      BY <1>7 DEF Loses
    <3>2. /\ subs[m].sticky <=> Sticks(subs[m].topic[1])
          /\ ~Sticks(subs[m].topic[1]) => subs[m].count = Cardinality(use[subs[m].topic])
      BY <1>2, <1>6 DEF CountedIn
    <3> QED
      BY <1>6, <3>1, <3>2
  <2> QED
    BY <2>1 DEF CountedIn
<1>11. broker \ { u } = less
  BY <1>2, <1>5
<1> QED
  BY <1>2, <1>3, <1>5, <1>8, <1>9, <1>10, <1>11 DEF ListIn, settled, listed, fewer, less

-----------------------------------------------------------------------------
(* Steps that change neither list *)

LEMMA UseFacts ==
    ASSUME NEW stk, NEW list
    PROVE  /\ Use(stk, list) \in UseTypes
           /\ \A t \in Topics : Use(stk, list)[t] = UsersIn(stk, list, t)
BY DEF Use, UseTypes, UsersIn

LEMMA UseSteps ==
    /\ SameUsers => Use(stack', ackWaitList') = Use(stack, ackWaitList)
    /\ \A e, u : Leaves(e, u) => Loses(Use(stack, ackWaitList), Use(stack', ackWaitList'), u, e)
    /\ \A e, u : Joins(e, u) => Gains(Use(stack, ackWaitList), Use(stack', ackWaitList'), u, e)
<1>1. ASSUME SameUsers
      PROVE  Use(stack', ackWaitList') = Use(stack, ackWaitList)
  <2>1. \A t \in Topics : UsersIn(stack', ackWaitList', t) = UsersIn(stack, ackWaitList, t)
    BY <1>1 DEF SameUsers, Users
  <2> QED
    BY <2>1 DEF Use
<1>2. ASSUME NEW e, NEW u, Leaves(e, u)
      PROVE  Loses(Use(stack, ackWaitList), Use(stack', ackWaitList'), u, e)
  <2>1. \A t \in Topics : UsersIn(stack', ackWaitList', t)
           = IF t = u THEN UsersIn(stack, ackWaitList, t) \ { e } ELSE UsersIn(stack, ackWaitList, t)
    BY <1>2 DEF Leaves, Users
  <2> QED
    BY <2>1, UseFacts DEF Loses
<1>3. ASSUME NEW e, NEW u, Joins(e, u)
      PROVE  Gains(Use(stack, ackWaitList), Use(stack', ackWaitList'), u, e)
  <2>1. \A t \in Topics : UsersIn(stack', ackWaitList', t)
           = IF t = u THEN UsersIn(stack, ackWaitList, t) \cup { e }
             ELSE UsersIn(stack, ackWaitList, t)
    BY <1>3 DEF Joins, Users
  <2> QED
    BY <2>1, UseFacts DEF Gains
<1> QED
  BY <1>1, <1>2, <1>3

Subscribing == { "subscribe_accepted", "subscribe_rejected" }

\* A call that is not waiting knows nothing of the list.
LEMMA PlainCall ==
    ASSUME NEW f, f.pc \notin WaitPcs, NEW subs, NEW unheard, NEW use, NEW keys
    PROVE  CallListed(f, subs, unheard, use, keys)
BY DEF CallListed, BegunIn, ReleasingIn, WaitPc, WaitPcs

\* The action that is being started, if any, is the outermost call and not touched.
LEMMA UnheardKept ==
    ASSUME ShadowTypes, ShadowTypes',
           \/ stack # << >> /\ Top.pc \notin Subscribing /\ Return
           \/ /\ stack # << >> /\ Top.pc \notin Subscribing
              /\ \E f \in Frames : Continue(f) /\ f.pc \notin Subscribing
           \/ \E f \in Frames : Push(f) /\ f.pc \notin Subscribing
    PROVE  UnheardIn(stack') = UnheardIn(stack)
<1> DEFINE d == Len(stack)
           Quiet(stk) == Len(stk) > 0 => stk[1].pc \notin Subscribing
<1>1. d \in Nat /\ (stack # << >> => d > 0 /\ Top = stack[d]) /\ (d > 0 => stack # << >>)
  BY TopFacts DEF ShadowTypes, Typed, TypeOK
<1>2. \/ Quiet(stack) /\ Quiet(stack')
      \/ Len(stack) > 0 /\ Len(stack') > 0 /\ stack'[1] = stack[1]
  <2>1. CASE stack # << >> /\ Top.pc \notin Subscribing /\ Return
    <3>1. Len(stack') = d - 1 /\ \A n \in 1..(d - 1) : stack'[n] = stack[n]
      BY <2>1, Returned DEF ShadowTypes
    <3>2. CASE d = 1
      BY <1>1, <2>1, <3>1, <3>2
    <3>3. CASE d # 1
      BY <1>1, <2>1, <3>1, <3>3
    <3> QED
      BY <3>2, <3>3
  <2>2. ASSUME stack # << >>, Top.pc \notin Subscribing,
               NEW f \in Frames, Continue(f), f.pc \notin Subscribing
        PROVE  \/ Quiet(stack) /\ Quiet(stack')
               \/ Len(stack) > 0 /\ Len(stack') > 0 /\ stack'[1] = stack[1]
    <3>1. /\ Len(stack') = d /\ stack'[d] = f
          /\ \A n \in 1..(d - 1) : stack'[n] = stack[n]
      BY <2>2, Continued DEF ShadowTypes
    <3>2. CASE d = 1
      BY <1>1, <2>2, <3>1, <3>2
    <3>3. CASE d # 1
      BY <1>1, <2>2, <3>1, <3>3
    <3> QED
      BY <3>2, <3>3
  <2>3. ASSUME NEW f \in Frames, Push(f), f.pc \notin Subscribing
        PROVE  \/ Quiet(stack) /\ Quiet(stack')
               \/ Len(stack) > 0 /\ Len(stack') > 0 /\ stack'[1] = stack[1]
    <3>1. /\ Len(stack') = d + 1 /\ stack'[d + 1] = f
          /\ \A n \in 1..d : stack'[n] = stack[n]
      BY <2>3, Pushed DEF ShadowTypes
    <3>2. CASE d = 0
      BY <2>3, <3>1, <3>2
    <3>3. CASE d # 0
      BY <1>1, <3>1, <3>3
    <3> QED
      BY <3>2, <3>3
  <2> QED
    BY <2>1, <2>2, <2>3
<1>3. CASE Quiet(stack) /\ Quiet(stack')
  <2>1. \A stk : Quiet(stk) => UnheardIn(stk) = {}
    BY DEF UnheardIn, Subscribing
  <2> QED
    BY <1>3, <2>1
<1>4. CASE Len(stack) > 0 /\ Len(stack') > 0 /\ stack'[1] = stack[1]
  BY <1>4 DEF UnheardIn
<1> QED
  BY <1>2, <1>3, <1>4

\* The calls below the innermost one stay.
LEMMA CallsStay ==
    ASSUME ShadowTypes, ShadowTypes',
           \/ stack # << >> /\ Return
           \/ stack # << >> /\ \E f \in Frames : Continue(f) /\ f.pc \notin WaitPcs
           \/ \E f \in Frames : Push(f) /\ f.pc \notin WaitPcs,
           NEW n \in 1..Len(stack')
    PROVE  \/ n \in 1..Len(stack) /\ stack'[n] = stack[n]
           \/ stack'[n].pc \notin WaitPcs
<1> DEFINE d == Len(stack)
<1>1. d \in Nat /\ (stack # << >> => d > 0)
  BY TopFacts DEF ShadowTypes, Typed, TypeOK
<1>2. CASE stack # << >> /\ Return
  <2>1. Len(stack') = d - 1 /\ \A m \in 1..(d - 1) : stack'[m] = stack[m]
    BY <1>2, Returned DEF ShadowTypes
  <2> QED
    BY <1>1, <1>2, <2>1
<1>3. ASSUME stack # << >>, NEW f \in Frames, Continue(f), f.pc \notin WaitPcs
      PROVE  \/ n \in 1..Len(stack) /\ stack'[n] = stack[n]
             \/ stack'[n].pc \notin WaitPcs
  <2>1. /\ Len(stack') = d /\ stack'[d] = f
        /\ \A m \in 1..(d - 1) : stack'[m] = stack[m]
    BY <1>3, Continued DEF ShadowTypes
  <2>2. n = d \/ n \in 1..(d - 1)
    BY <1>1, <2>1
  <2>3. n \in 1..(d - 1) => n \in 1..d
    BY <1>1
  <2> QED
    BY <1>3, <2>1, <2>2, <2>3
<1>4. ASSUME NEW f \in Frames, Push(f), f.pc \notin WaitPcs
      PROVE  \/ n \in 1..Len(stack) /\ stack'[n] = stack[n]
             \/ stack'[n].pc \notin WaitPcs
  <2>1. /\ Len(stack') = d + 1 /\ stack'[d + 1] = f
        /\ \A m \in 1..d : stack'[m] = stack[m]
    BY <1>4, Pushed DEF ShadowTypes
  <2>2. n = d + 1 \/ n \in 1..d
    BY <1>1, <2>1
  <2> QED
    BY <1>4, <2>1, <2>2
<1> QED
  BY <1>2, <1>3, <1>4

LEMMA QuietList ==
    ASSUME ListInv, UNCHANGED << subscriptionList, messageHandlers, brokerSubs, persistent >>,
           SameUsers, UnheardIn(stack') = UnheardIn(stack),
           \A n \in 1..Len(stack') :
              \/ n \in 1..Len(stack) /\ stack'[n] = stack[n]
              \/ CallListed(stack'[n], subscriptionList, UnheardIn(stack),
                            Use(stack, ackWaitList), persistent)
    PROVE  ListInv'
<1>1. Use(stack', ackWaitList') = Use(stack, ackWaitList)
  BY UseSteps
<1>2. ListIn(subscriptionList', messageHandlers', brokerSubs', UnheardIn(stack'),
             Use(stack', ackWaitList'), persistent')
  BY <1>1 DEF ListInv
<1>3. ASSUME NEW n \in 1..Len(stack')
      PROVE  CallListed(stack'[n], subscriptionList', UnheardIn(stack'),
                        Use(stack', ackWaitList'), persistent')
  BY <1>1 DEF ListInv
<1> QED
  BY <1>2, <1>3 DEF ListInv

LEMMA LookList ==
    ASSUME ShadowTypes, ShadowTypes', ControlInv, ControlInv', ListInv, Scan \/ CallbackReturn
    PROVE  ListInv'
<1> USE DEF records, mqtt, history
<1>1. /\ stack # << >> /\ Top.pc \in { "scan", "callback" }
      /\ UNCHANGED << subscriptionList, messageHandlers, brokerSubs, persistent >>
  BY DEF Scan, CallbackReturn, At
<1>2. SameUsers
  BY ScanUses, CallbackUses
<1>3. Top.pc \notin Subscribing
  BY <1>1 DEF Subscribing
<1>4. Return \/ \E f \in Frames : Continue(f) /\ f.pc \notin WaitPcs /\ f.pc \notin Subscribing
  <2>1. Top \in Frames
    BY <1>1, TopFacts DEF ShadowTypes
  <2>2. CASE CallbackReturn
    <3> DEFINE k == ackWaitList[Top.i].key
               f == [Top EXCEPT !.pc = "unsubscribe_accepted", !.key = k]
    <3>1. Continue(f)
      BY <2>2 DEF CallbackReturn
    <3>2. Top.pc \in EntryPcs
      BY <2>2 DEF CallbackReturn, At, EntryPcs
    <3>3. k \in Keys \cup { None } /\ "unsubscribe_accepted" \in Pcs
      BY <1>1, <3>2, EntryFacts DEF ShadowTypes, Pcs
    <3> HIDE DEF k
    <3>4. f \in Frames /\ f.pc = "unsubscribe_accepted"
      BY <1>1, <3>3, ChangedKey DEF ShadowTypes
    <3> QED
      BY <3>1, <3>4 DEF WaitPcs, Subscribing
  <2>3. CASE Goto("callback")
    <3>1. "callback" \in Pcs
      BY DEF Pcs
    <3>2. [Top EXCEPT !.pc = "callback"] \in Frames /\ [Top EXCEPT !.pc = "callback"].pc = "callback"
      BY <2>1, <3>1, Changed
    <3> QED
      BY <2>3, <3>2 DEF Goto, WaitPcs, Subscribing
  <2>4. CASE Top.pc = "scan" /\ Top.i \in AckSlots /\ Continue([Top EXCEPT !.i = @ + 1])
    <3>1. [Top EXCEPT !.i = @ + 1] \in Frames /\ [Top EXCEPT !.i = @ + 1].pc = "scan"
      BY <2>1, <2>4, Advanced
    <3> QED
      BY <2>4, <3>1 DEF WaitPcs, Subscribing
  <2> QED
    BY <2>2, <2>3, <2>4 DEF Scan, At
<1>5. UnheardIn(stack') = UnheardIn(stack)
  BY <1>1, <1>3, <1>4, UnheardKept
<1>6. \A n \in 1..Len(stack') : \/ n \in 1..Len(stack) /\ stack'[n] = stack[n]
                                \/ stack'[n].pc \notin WaitPcs
  BY <1>1, <1>4, CallsStay
<1> QED
  BY <1>1, <1>2, <1>5, <1>6, PlainCall, QuietList

\* A call that is pushed and looks at an entry first.
LEMMA PushList ==
    ASSUME ShadowTypes, ShadowTypes', ControlInv', ListInv, NEW f \in Frames, Push(f),
           f.pc \in { "scan", "callback" },
           UNCHANGED << subscriptionList, messageHandlers, brokerSubs, persistent, ackWaitList >>
    PROVE  ListInv'
<1>1. ~Owns(f) /\ f.pc \notin WaitPcs /\ f.pc \notin Subscribing
  BY DEF Owns, WaitPcs, Subscribing
<1>2. SameUsers
  BY <1>1, CallUses
<1>3. UnheardIn(stack') = UnheardIn(stack)
  BY <1>1, UnheardKept
<1>4. \A n \in 1..Len(stack') : \/ n \in 1..Len(stack) /\ stack'[n] = stack[n]
                                \/ stack'[n].pc \notin WaitPcs
  BY <1>1, CallsStay
<1> QED
  BY <1>2, <1>3, <1>4, PlainCall, QuietList

LEMMA StutterList ==
    ASSUME ListInv, UNCHANGED << subscriptionList, messageHandlers, brokerSubs, persistent,
                                 ackWaitList, stack >>
    PROVE  ListInv'
BY DEF ListInv

LEMMA ResponseList ==
    ASSUME ShadowTypes, ShadowTypes', ControlInv', ListInv,
           ShadowYield \/ \E t \in Tokens, key \in Keys, s \in Status : Response(t, key, s)
    PROVE  ListInv'
<1> USE DEF records, mqtt, history
<1>1. UNCHANGED << subscriptionList, messageHandlers, brokerSubs, persistent, ackWaitList >>
  BY DEF ShadowYield, Response
<1>2. CASE UNCHANGED stack
  BY <1>1, <1>2, StutterList
<1>3. UNCHANGED stack \/ \E f \in Frames : Push(f) /\ f.pc \in { "scan", "callback" }
  <2>1. UNCHANGED stack \/ \E op, pc, key, t, no, i, acc, rej, ret :
           Push(Frame(op, pc, key, t, no, i, acc, rej, ret)) /\ pc \in { "scan", "callback" }
    <3>1. CASE ShadowYield
      BY <3>1, Zenon DEF ShadowYield
    <3>2. ASSUME NEW t \in Tokens, NEW key \in Keys, NEW s \in Status, Response(t, key, s),
                 ~UNCHANGED stack
          PROVE  \E i : Push(Frame("ack", "callback", key, t, FALSE, i, NoSlot, NoSlot, "SUCCESS"))
      BY <3>2 DEF Response
    <3> QED
      BY <3>1, <3>2, Zenon
  <2>2. ASSUME NEW op, NEW pc, NEW key, NEW t, NEW no, NEW i, NEW acc, NEW rej, NEW ret,
               Push(Frame(op, pc, key, t, no, i, acc, rej, ret)), pc \in { "scan", "callback" }
        PROVE  \E f \in Frames : Push(f) /\ f.pc \in { "scan", "callback" }
    <3> DEFINE f == Frame(op, pc, key, t, no, i, acc, rej, ret)
    <3>1. f.pc = pc
      BY DEF Frame
    <3>2. stack \in Seq(Frames) /\ stack' \in Seq(Frames)
      BY DEF ShadowTypes, Typed, TypeOK
    <3> HIDE DEF f
    <3>3. stack' = Append(stack, f)
      BY <2>2 DEF Push, f
    <3>4. f \in Frames
      <4>1. Len(stack) + 1 \in 1..Len(stack') /\ stack'[Len(stack) + 1] = f
        BY <3>2, <3>3
      <4> QED
        BY <3>2, <4>1
    <3> QED
      BY <2>2, <3>1, <3>3, <3>4 DEF Push
  <2> QED
    BY <2>1, <2>2
<1> QED
  BY <1>1, <1>2, <1>3, PushList

\* An action is published: the topics it uses were listed already.
LEMMA PublishList ==
    ASSUME ShadowTypes, ShadowTypes', ControlInv, TrackInv, ListInv, Published
    PROVE  ListInv'
<1> DEFINE use == Use(stack, ackWaitList)
<1>1. stack # << >> /\ Top.pc = "publish" /\ Return
  BY DEF Published, At
<1>2. /\ UNCHANGED << subscriptionList, messageHandlers, brokerSubs >>
      /\ persistent' = IF Top.sticky THEN persistent \cup { Top.key } ELSE persistent
  BY DEF Published, mqtt
<1>3. /\ Top = stack[Len(stack)] /\ Top \in Frames /\ FrameFits(Top)
      /\ Top.op \in { "action", "ack", "expire" } /\ Top.sticky \in BOOLEAN
      /\ Len(stack) \in 1..Len(stack)
  BY <1>1, TopFacts, FrameFields DEF ShadowTypes
<1>4. Top.op = "action"
  BY <1>1, <1>3 DEF FrameFits, EntryPcs
<1>5. Len(stack) = 1
  BY <1>3, <1>4 DEF TrackInv, Bottom
<1>6. Len(stack') = 0
  BY <1>1, <1>5, Returned DEF ShadowTypes
<1>7. /\ SameUsers /\ Top.i \in AckSlots /\ Top.key \in Keys
      /\ \A t \in Topics : t[1] = Top.key => Top.i \in Users(t)
  BY PublishUses
<1>8. Use(stack', ackWaitList') = use
  BY <1>7, UseSteps
<1>9. Top.pc \notin Subscribing
  BY <1>1 DEF Subscribing
<1>10. UnheardIn(stack') = UnheardIn(stack)
  BY <1>1, <1>9, UnheardKept
<1>11. ListedIn(use, persistent') = ListedIn(use, persistent)
  <2>1. \A t \in Topics : t[1] = Top.key => use[t] # {}
    <3>1. \A t \in Topics : use[t] = Users(t)
      BY UseFacts DEF Users
    <3> HIDE DEF use
    <3> QED
      BY <1>7, <3>1
  <2> HIDE DEF use
  <2> QED
    BY <1>2, <2>1 DEF ListedIn
<1>12. \A k \in persistent' : Sticks(k)
  <2>1. Top.sticky \in Stickies[Top.key]
    BY <1>1, <1>4, TopFits DEF CallFits
  <2>2. Top.sticky = TRUE => Sticks(Top.key)
    BY <2>1 DEF Sticks
  <2>3. \A k \in persistent : Sticks(k)
    BY DEF ListInv, ListIn
  <2>4. CASE Top.sticky = TRUE
    BY <1>2, <2>2, <2>3, <2>4
  <2>5. CASE Top.sticky = FALSE
    BY <1>2, <2>3, <2>5
  <2> QED
    BY <1>3, <2>4, <2>5
<1> HIDE DEF use
<1>13. ListIn(subscriptionList, messageHandlers, brokerSubs, UnheardIn(stack), use, persistent)
  BY DEF ListInv, use
<1>14. ListIn(subscriptionList, messageHandlers, brokerSubs, UnheardIn(stack), use, persistent')
  BY <1>11, <1>12, <1>13 DEF ListIn
<1> QED
  BY <1>2, <1>6, <1>8, <1>10, <1>14 DEF ListInv

-----------------------------------------------------------------------------
(* Where a topic is found *)

Heeded == ListedIn(Use(stack, ackWaitList), persistent)

LEMMA ListParts ==
    ASSUME ListInv
    PROVE  LET settled == SettledIn(subscriptionList, UnheardIn(stack))
           IN  /\ RecordedIn(subscriptionList, settled, Heeded)
               /\ HandledIn(messageHandlers, settled)
               /\ CountedIn(subscriptionList, settled, Use(stack, ackWaitList))
               /\ brokerSubs = Heeded /\ Heeded \subseteq Topics
               /\ \A k \in persistent : Sticks(k)
               /\ settled \in SUBSET SubSlots /\ \A n \in settled : ~subscriptionList[n].free
BY DEF ListInv, ListIn, Heeded, SettledIn, ListedIn

LEMMA FindListed ==
    ASSUME ShadowTypes, ListInv, NEW t \in Heeded
    PROVE  /\ Find(t) # NoSlot /\ Find(t) \in SettledIn(subscriptionList, UnheardIn(stack))
           /\ subscriptionList[Find(t)].topic = t
<1> DEFINE settled == SettledIn(subscriptionList, UnheardIn(stack))
           found == { i \in SubSlots : ~subscriptionList[i].free
                                        /\ subscriptionList[i].topic = t }
<1>1. /\ RecordedIn(subscriptionList, settled, Heeded) /\ settled \in SUBSET SubSlots
      /\ \A n \in settled : ~subscriptionList[n].free
  BY ListParts
<1> HIDE DEF settled
<1>2. PICK n \in settled : subscriptionList[n].topic = t
  BY <1>1 DEF RecordedIn
<1>3. Claims(subscriptionList, n, t) /\ n \in found
  BY <1>1, <1>2 DEF RecordedIn
<1>4. found \in SUBSET Nat
  BY Slots
<1>5. Find(t) = Min(found)
  BY <1>3 DEF Find
<1>6. Find(t) \in found /\ Find(t) <= n
  BY <1>3, <1>4, <1>5, MinLeast
<1>7. Find(t) = n
  <2>1. Find(t) # n => n < Find(t)
    BY <1>3, <1>6 DEF Claims
  <2>2. n \in Nat /\ Find(t) \in Nat
    BY <1>3, <1>4, <1>6
  <2> HIDE DEF found
  <2> QED
    BY <1>6, <2>1, <2>2
<1>8. n \in SubSlots /\ NoSlot \notin SubSlots
  BY <1>1, Slots
<1> QED
  BY <1>2, <1>7, <1>8 DEF settled

\* Between calls all records that are taken are subscribed, and both topics of a
\* key are, or none.
LEMMA IdleList ==
    ASSUME ShadowTypes, ListInv, stack = << >>
    PROVE  /\ UnheardIn(stack) = {}
           /\ \A n \in SubSlots : n \in SettledIn(subscriptionList, UnheardIn(stack))
                                    <=> ~subscriptionList[n].free
           /\ \A t \in Topics : Use(stack, ackWaitList)[t]
                 = { i \in AckSlots : ~ackWaitList[i].free /\ ackWaitList[i].key = t[1] }
           /\ \A t, u \in Topics : t[1] = u[1] => (t \in Heeded <=> u \in Heeded)
           /\ \A t \in Topics : t \notin Heeded => Find(t) = NoSlot
<1>1. Len(stack) = 0
  OBVIOUS
<1>2. UnheardIn(stack) = {}
  BY <1>1 DEF UnheardIn
<1>3. \A n \in SubSlots : n \in SettledIn(subscriptionList, UnheardIn(stack))
                            <=> ~subscriptionList[n].free
  BY <1>2 DEF SettledIn
<1>4. ASSUME NEW t \in Topics
      PROVE  Use(stack, ackWaitList)[t]
               = { i \in AckSlots : ~ackWaitList[i].free /\ ackWaitList[i].key = t[1] }
  <2>1. Use(stack, ackWaitList)[t] = UsersIn(stack, ackWaitList, t)
    BY UseFacts
  <2>2. \A i : UsesIn(stack, ackWaitList, i, t)
                 <=> ~ackWaitList[i].free /\ ackWaitList[i].key = t[1]
    <3>1. \A n \in 1..Len(stack) : FALSE
      BY <1>1
    <3> QED
      BY <3>1 DEF UsesIn
  <2> QED
    BY <2>1, <2>2 DEF UsersIn
<1>5. \A t, u \in Topics : t[1] = u[1] => (t \in Heeded <=> u \in Heeded)
  <2> SUFFICES ASSUME NEW t \in Topics, NEW u \in Topics, t[1] = u[1]
               PROVE  t \in Heeded <=> u \in Heeded
    OBVIOUS
  <2> DEFINE Waiting(k) == { i \in AckSlots : ~ackWaitList[i].free /\ ackWaitList[i].key = k }
  <2>1. Use(stack, ackWaitList)[t] = Waiting(t[1])
    BY <1>4
  <2>2. Use(stack, ackWaitList)[u] = Waiting(u[1])
    BY <1>4
  <2> HIDE DEF Waiting
  <2>3. Use(stack, ackWaitList)[t] = Use(stack, ackWaitList)[u]
    BY <2>1, <2>2
  <2> QED
    BY <2>3 DEF Heeded, ListedIn
<1>6. ASSUME NEW t \in Topics, t \notin Heeded
      PROVE  Find(t) = NoSlot
  <2>1. RecordedIn(subscriptionList, SettledIn(subscriptionList, UnheardIn(stack)), Heeded)
    BY ListParts
  <2>2. \/ Find(t) = NoSlot
        \/ /\ Find(t) \in SubSlots /\ ~subscriptionList[Find(t)].free
           /\ subscriptionList[Find(t)].topic = t
    BY FindFacts DEF ShadowTypes
  <2> QED
    BY <1>3, <1>6, <2>1, <2>2 DEF RecordedIn
<1> QED
  BY <1>2, <1>3, <1>4, <1>5, <1>6

LEMMA PresentIff ==
    ASSUME ShadowTypes, ListInv, stack = << >>, NEW key \in Keys
    PROVE  /\ IsSubscriptionPresent(key) =>
                 << key, "accepted" >> \in Heeded /\ << key, "rejected" >> \in Heeded
           /\ ~IsSubscriptionPresent(key) =>
                 << key, "accepted" >> \notin Heeded /\ << key, "rejected" >> \notin Heeded
<1>1. /\ << key, "accepted" >> \in Topics /\ << key, "rejected" >> \in Topics
      /\ << key, "accepted" >>[1] = << key, "rejected" >>[1]
  BY DEF Topics, Status
<1>2. << key, "accepted" >> \in Heeded <=> << key, "rejected" >> \in Heeded
  BY <1>1, IdleList
<1>3. CASE << key, "accepted" >> \in Heeded
  <2>1. Find(<< key, "accepted" >>) # NoSlot /\ Find(<< key, "rejected" >>) # NoSlot
    BY <1>2, <1>3, FindListed
  <2>2. IsSubscriptionPresent(key)
    BY <2>1 DEF IsSubscriptionPresent, Status
  <2> QED
    BY <1>2, <1>3, <2>2
<1>4. CASE << key, "accepted" >> \notin Heeded
  <2>1. Find(<< key, "accepted" >>) = NoSlot
    BY <1>1, <1>4, IdleList
  <2>2. ~IsSubscriptionPresent(key)
    BY <2>1 DEF IsSubscriptionPresent, Status
  <2> QED
    BY <1>2, <1>4, <2>2
<1> QED
  BY <1>3, <1>4

-----------------------------------------------------------------------------
(* There is always a record and a handler if the application uses no more  *)
(* topics than there are of each                                           *)

Room ==
    /\ IsFiniteSet(Keys)
    /\ Cardinality(Topics) <= Cardinality(SubSlots)
    /\ Cardinality(Topics) <= Cardinality(HandlerSlots)
    /\ Cardinality(AckSlots) <= 255

LEMMA FiniteSlots ==
    ASSUME Room
    PROVE  /\ IsFiniteSet(Topics) /\ IsFiniteSet(SubSlots) /\ IsFiniteSet(HandlerSlots)
           /\ Cardinality(Topics) \in Nat /\ Cardinality(SubSlots) \in Nat
           /\ Cardinality(HandlerSlots) \in Nat
<1>1. IsFiniteSet(Status)
  <2>1. IsFiniteSet({ "accepted" })
    BY FS_Singleton
  <2>2. Status = { "accepted" } \cup { "rejected" }
    BY DEF Status
  <2> QED
    BY <2>1, <2>2, FS_AddElement
<1>2. IsFiniteSet(Topics)
  BY <1>1, FS_Product DEF Room, Topics
<1>3. IsFiniteSet(SubSlots) /\ IsFiniteSet(HandlerSlots)
  <2> DEFINE box == 0..(NoSlot - 1)
  <2>1. 0 \in Int /\ NoSlot - 1 \in Int
    BY DEF NoSlot
  <2>2. IsFiniteSet(box)
    BY <2>1, FS_Interval
  <2>3. SubSlots \cup HandlerSlots \subseteq box
    BY ShadowAssumption
  <2> HIDE DEF box
  <2>4. SubSlots \in SUBSET box /\ HandlerSlots \in SUBSET box
    BY <2>3
  <2> QED
    BY <2>2, <2>4, FS_Subset
<1> QED
  BY <1>2, <1>3, FS_CardinalityType

LEMMA HandlerFree ==
    ASSUME ShadowTypes, ListInv, Room, NEW u \in Topics, u \notin Heeded
    PROVE  FreeHandlers # {}
<1> SUFFICES ASSUME FreeHandlers = {}
             PROVE  FALSE
  OBVIOUS
<1> DEFINE settled == SettledIn(subscriptionList, UnheardIn(stack))
           rest == Topics \ { u }
           f == [h \in HandlerSlots |-> subscriptionList[messageHandlers[h]].topic]
<1>1. /\ RecordedIn(subscriptionList, settled, Heeded) /\ HandledIn(messageHandlers, settled)
      /\ Heeded \subseteq Topics /\ settled \in SUBSET SubSlots
  BY ListParts
<1> HIDE DEF settled
<1>2. \A h \in HandlerSlots : messageHandlers[h] # NoSlot
  BY DEF FreeHandlers
<1>3. \A h \in HandlerSlots : messageHandlers[h] \in settled
  BY <1>1, <1>2 DEF HandledIn
<1>4. f \in [HandlerSlots -> rest]
  BY <1>1, <1>3 DEF RecordedIn
<1>5. IsFiniteSet(rest) /\ Cardinality(rest) = Cardinality(Topics) - 1
  BY FiniteSlots, FS_RemoveElement
<1>6. Cardinality(rest) < Cardinality(HandlerSlots)
  BY <1>5, FiniteSlots DEF Room
<1> HIDE DEF rest
<1>7. PICK g, h \in HandlerSlots : g # h /\ f[g] = f[h]
  <2> HIDE DEF f
  <2> QED
    BY <1>4, <1>5, <1>6, FiniteSlots, FS_PigeonHole
<1>8. messageHandlers[g] = messageHandlers[h]
  BY <1>1, <1>3, <1>7, OneRecord
<1> QED
  BY <1>1, <1>2, <1>7, <1>8 DEF HandledIn

LEMMA RecordsFree ==
    ASSUME ShadowTypes, ListInv, Room, stack = << >>, NEW key \in Keys,
           << key, "accepted" >> \notin Heeded, << key, "rejected" >> \notin Heeded
    PROVE  Cardinality(FreeSubs) >= 2
<1> DEFINE settled == SettledIn(subscriptionList, UnheardIn(stack))
           a == << key, "accepted" >>
           r == << key, "rejected" >>
           most == Topics \ { a }
           rest == most \ { r }
           f == [n \in settled |-> subscriptionList[n].topic]
<1>1. /\ RecordedIn(subscriptionList, settled, Heeded)
      /\ Heeded \subseteq Topics /\ settled \in SUBSET SubSlots
  BY ListParts
<1>2. \A n \in SubSlots : n \in settled <=> ~subscriptionList[n].free
  BY IdleList
<1>3. a \in Topics /\ r \in Topics /\ a # r /\ a \notin Heeded /\ r \notin Heeded
  BY DEF Topics, Status
<1> HIDE DEF settled, a, r
<1>4. f \in [settled -> rest]
  BY <1>1, <1>3 DEF RecordedIn
<1>5. /\ IsFiniteSet(rest) /\ Cardinality(rest) = Cardinality(Topics) - 2
      /\ Cardinality(rest) \in Nat
  <2>1. IsFiniteSet(most) /\ Cardinality(most) = Cardinality(Topics) - 1 /\ r \in most
    BY <1>3, FiniteSlots, FS_RemoveElement
  <2> HIDE DEF most
  <2>2. IsFiniteSet(rest) /\ Cardinality(rest) = Cardinality(most) - 1
    BY <2>1, FS_RemoveElement
  <2>3. Cardinality(rest) \in Nat
    BY <2>2, FS_CardinalityType
  <2> HIDE DEF rest
  <2> QED
    BY <2>1, <2>2, <2>3, FiniteSlots
<1>6. IsFiniteSet(settled) /\ Cardinality(settled) \in Nat
  BY <1>1, FiniteSlots, FS_Subset, FS_CardinalityType
<1> HIDE DEF rest
<1>7. Cardinality(settled) <= Cardinality(rest)
  <2> SUFFICES ASSUME Cardinality(rest) < Cardinality(settled) PROVE FALSE
    BY <1>5, <1>6
  <2>1. PICK m, n \in settled : m # n /\ f[m] = f[n]
    <3> HIDE DEF f
    <3> QED
      BY <1>4, <1>5, <1>6, FS_PigeonHole
  <2> QED
    BY <1>1, <2>1, OneRecord
<1>8. Cardinality(FreeSubs) = Cardinality(SubSlots) - Cardinality(settled)
  <2>1. FreeSubs = SubSlots \ settled
    BY <1>1, <1>2 DEF FreeSubs
  <2>2. SubSlots \cap settled = settled
    BY <1>1
  <2>3. Cardinality(SubSlots \ settled)
          = Cardinality(SubSlots) - Cardinality(SubSlots \cap settled)
    BY FiniteSlots, FS_Difference
  <2> QED
    BY <2>1, <2>2, <2>3
<1> QED
  BY <1>5, <1>6, <1>7, <1>8, FiniteSlots DEF Room

-----------------------------------------------------------------------------
(* Steps that change the lists *)

SteadyKeys == \A k \in Keys : Stickies[k] # BOOLEAN

LEMMA StickyIs ==
    ASSUME SteadyKeys, NEW key \in Keys, NEW sticky \in Stickies[key]
    PROVE  sticky \in BOOLEAN /\ (sticky <=> Sticks(key))
<1>1. Stickies[key] \subseteq BOOLEAN /\ Stickies[key] # BOOLEAN
  BY ShadowAssumption DEF SteadyKeys
<1>2. sticky \in BOOLEAN
  BY <1>1
<1>3. sticky <=> TRUE \in Stickies[key]
  BY <1>1, <1>2, Zenon
<1> QED
  BY <1>2, <1>3 DEF Sticks

LEMMA FramePushed ==
    ASSUME ShadowTypes, ShadowTypes', NEW op, NEW pc, NEW key, NEW token, NEW sticky, NEW i,
           NEW acc, NEW rej, NEW ret, stack = << >>,
           Push(Frame(op, pc, key, token, sticky, i, acc, rej, ret))
    PROVE  \E f \in Frames :
              /\ Push(f) /\ f.op = op /\ f.pc = pc /\ f.key = key /\ f.sticky = sticky /\ f.i = i
              /\ f.acc = acc /\ f.rej = rej /\ Len(stack') = 1 /\ stack'[1] = f
<1> DEFINE f == Frame(op, pc, key, token, sticky, i, acc, rej, ret)
<1>1. /\ f.op = op /\ f.pc = pc /\ f.key = key /\ f.sticky = sticky /\ f.i = i
      /\ f.acc = acc /\ f.rej = rej
  BY DEF Frame
<1>2. stack' \in Seq(Frames)
  BY DEF ShadowTypes, Typed, TypeOK
<1> HIDE DEF f
<1>3. stack' = Append(<< >>, f)
  BY DEF Push, f
<1>4. Len(stack') = 1 /\ stack'[1] = f
  BY <1>3
<1>5. f \in Frames
  BY <1>2, <1>4
<1> QED
  BY <1>1, <1>4, <1>5 DEF f

LEMMA ShareStep ==
    ASSUME ShadowTypes, ShadowTypes', ControlInv', BetweenCalls, Room, SteadyKeys, ListInv,
           NEW token \in Tokens, NEW key \in Keys, NEW sticky \in Stickies[key],
           ActionShares(token, key, sticky)
    PROVE  ListInv'
<1> DEFINE use == Use(stack, ackWaitList)
           gain == Use(stack', ackWaitList')
           e == Min(FreeAcks)
<1>1. /\ stack = << >> /\ FreeAcks # {} /\ IsSubscriptionPresent(key)
      /\ UNCHANGED << ackWaitList, messageHandlers, brokerSubs, persistent >>
      /\ Push(Frame("action", "publish", key, token, sticky, e, NoSlot, NoSlot, "SUCCESS"))
  BY DEF ActionShares, MayAct, BetweenCalls, mqtt, history
<1>2. e \in AckSlots /\ ackWaitList[e].free
  BY <1>1, FreeFacts DEF FreeAcks
<1> HIDE DEF e
<1>3. PICK f \in Frames : /\ Push(f) /\ f.pc = "publish" /\ f.key = key /\ f.i = e
                          /\ Len(stack') = 1 /\ stack'[1] = f
  BY <1>1, FramePushed
<1>4. \A t \in Topics : /\ e \notin Users(t)
                        /\ Users(t)' = IF t[1] = key THEN Users(t) \cup { e } ELSE Users(t)
  BY <1>1, <1>2, <1>3, StartUses
<1>5. GainsKey(use, gain, key, e)
  <2>1. \A t \in Topics : use[t] = Users(t) /\ gain[t] = Users(t)'
    BY UseFacts DEF Users
  <2> HIDE DEF use, gain
  <2> QED
    BY <1>4, <2>1 DEF GainsKey
<1>6. subscriptionList \in ListTypes
  BY TypedParts DEF ShadowTypes, ListTypes
<1>7. SharedIn(subscriptionList, subscriptionList', key, sticky)
  <2> DEFINE S == { << key, s >> : s \in Status }
  <2>1. IncrementSubscriptionCnt(key, sticky)
    BY DEF ActionShares
  <2> SUFFICES ASSUME NEW i \in SubSlots
               PROVE  LET r == subscriptionList[i]
                          q == subscriptionList'[i]
                      IN  /\ q.free = r.free /\ q.topic = r.topic
                          /\ IF ~r.free /\ r.topic \in S
                             THEN q.count = (r.count + 1) % 256 /\ q.sticky = sticky
                             ELSE q = r
    BY DEF SharedIn
  <2> DEFINE r == subscriptionList[i]
             q == subscriptionList'[i]
  <2>2. q = IF ~r.free /\ r.topic \in S
            THEN [r EXCEPT !.count = (@ + 1) % 256, !.sticky = sticky] ELSE r
    BY <2>1 DEF IncrementSubscriptionCnt
  <2>3. r \in TopicRecords
    BY <1>6 DEF ListTypes
  <2> HIDE DEF r, q, S
  <2>4. CASE ~r.free /\ r.topic \in S
    <3>1. q = [r EXCEPT !.count = (@ + 1) % 256, !.sticky = sticky]
      BY <2>2, <2>4
    <3> QED
      BY <2>3, <2>4, <3>1 DEF TopicRecords, r, q
  <2>5. CASE ~(~r.free /\ r.topic \in S)
    BY <2>2, <2>5 DEF r, q
  <2> QED
    BY <2>4, <2>5
<1>8. << key, "accepted" >> \in ListedIn(use, persistent)
      /\ << key, "rejected" >> \in ListedIn(use, persistent)
  BY <1>1, PresentIff DEF Heeded
<1>9. UnheardIn(stack) = {} /\ UnheardIn(stack') = {}
  <2>1. Len(stack) = 0
    BY <1>1
  <2> QED
    BY <1>3, <2>1 DEF UnheardIn
<1>10. ListIn(subscriptionList, messageHandlers, brokerSubs, {}, use, persistent)
  BY <1>9 DEF ListInv
<1>11. use \in UseTypes /\ gain \in UseTypes
  BY UseFacts
<1>12. sticky \in BOOLEAN /\ (sticky <=> Sticks(key))
  BY StickyIs
<1> HIDE DEF use, gain
<1>13. ListIn(subscriptionList', messageHandlers, brokerSubs, {}, gain, persistent)
  BY <1>2, <1>5, <1>6, <1>7, <1>8, <1>10, <1>11, <1>12, ShareList DEF Room
<1>14. ListIn(subscriptionList', messageHandlers', brokerSubs', UnheardIn(stack'), gain,
              persistent')
  BY <1>1, <1>9, <1>13
<1>15. f.pc \notin WaitPcs
  BY <1>3 DEF WaitPcs
<1>16. \A n \in 1..Len(stack') : stack'[n].pc \notin WaitPcs
  BY <1>3, <1>15
<1> QED
  BY <1>14, <1>16, PlainCall DEF ListInv, gain

\* One field of a record is written.
LEMMA FreeWritten ==
    ASSUME NEW g \in [SubSlots -> TopicRecords], NEW n \in SubSlots, NEW b \in BOOLEAN
    PROVE  LET h == [g EXCEPT ![n].free = b]
           IN  /\ h \in [SubSlots -> TopicRecords] /\ h[n].free = b
               /\ h[n].topic = g[n].topic /\ h[n].sticky = g[n].sticky /\ h[n].count = g[n].count
               /\ \A i \in SubSlots : i # n => h[i] = g[i]
<1> DEFINE r == [g[n] EXCEPT !.free = b]
           h == [g EXCEPT ![n].free = b]
<1>1. h = [g EXCEPT ![n] = r]
  OBVIOUS
<1>2. g[n] \in TopicRecords
  OBVIOUS
<1>3. /\ r \in TopicRecords /\ r.free = b
      /\ r.topic = g[n].topic /\ r.sticky = g[n].sticky /\ r.count = g[n].count
  BY <1>2 DEF TopicRecords
<1> HIDE DEF r
<1>4. /\ [g EXCEPT ![n] = r] \in [SubSlots -> TopicRecords] /\ [g EXCEPT ![n] = r][n] = r
      /\ \A i \in SubSlots : i # n => [g EXCEPT ![n] = r][i] = g[i]
  BY <1>3
<1> HIDE DEF h
<1> QED
  BY <1>1, <1>3, <1>4 DEF h

LEMMA TopicWritten ==
    ASSUME NEW g \in [SubSlots -> TopicRecords], NEW n \in SubSlots, NEW b \in Topics
    PROVE  LET h == [g EXCEPT ![n].topic = b]
           IN  /\ h \in [SubSlots -> TopicRecords] /\ h[n].topic = b
               /\ h[n].free = g[n].free /\ h[n].sticky = g[n].sticky /\ h[n].count = g[n].count
               /\ \A i \in SubSlots : i # n => h[i] = g[i]
<1> DEFINE r == [g[n] EXCEPT !.topic = b]
           h == [g EXCEPT ![n].topic = b]
<1>1. h = [g EXCEPT ![n] = r]
  OBVIOUS
<1>2. g[n] \in TopicRecords
  OBVIOUS
<1>3. /\ r \in TopicRecords /\ r.topic = b
      /\ r.free = g[n].free /\ r.sticky = g[n].sticky /\ r.count = g[n].count
  BY <1>2 DEF TopicRecords
<1> HIDE DEF r
<1>4. /\ [g EXCEPT ![n] = r] \in [SubSlots -> TopicRecords] /\ [g EXCEPT ![n] = r][n] = r
      /\ \A i \in SubSlots : i # n => [g EXCEPT ![n] = r][i] = g[i]
  BY <1>3
<1> HIDE DEF h
<1> QED
  BY <1>1, <1>3, <1>4 DEF h

LEMMA StickyWritten ==
    ASSUME NEW g \in [SubSlots -> TopicRecords], NEW n \in SubSlots, NEW b \in BOOLEAN
    PROVE  LET h == [g EXCEPT ![n].sticky = b]
           IN  /\ h \in [SubSlots -> TopicRecords] /\ h[n].sticky = b
               /\ h[n].free = g[n].free /\ h[n].topic = g[n].topic /\ h[n].count = g[n].count
               /\ \A i \in SubSlots : i # n => h[i] = g[i]
<1> DEFINE r == [g[n] EXCEPT !.sticky = b]
           h == [g EXCEPT ![n].sticky = b]
<1>1. h = [g EXCEPT ![n] = r]
  OBVIOUS
<1>2. g[n] \in TopicRecords
  OBVIOUS
<1>3. /\ r \in TopicRecords /\ r.sticky = b
      /\ r.free = g[n].free /\ r.topic = g[n].topic /\ r.count = g[n].count
  BY <1>2 DEF TopicRecords
<1> HIDE DEF r
<1>4. /\ [g EXCEPT ![n] = r] \in [SubSlots -> TopicRecords] /\ [g EXCEPT ![n] = r][n] = r
      /\ \A i \in SubSlots : i # n => [g EXCEPT ![n] = r][i] = g[i]
  BY <1>3
<1> HIDE DEF h
<1> QED
  BY <1>1, <1>3, <1>4 DEF h

Bytes == 0..255

LEMMA CountWritten ==
    ASSUME NEW g \in [SubSlots -> TopicRecords], NEW n \in SubSlots, NEW b \in Bytes
    PROVE  LET h == [g EXCEPT ![n].count = b]
           IN  /\ h \in [SubSlots -> TopicRecords] /\ h[n].count = b
               /\ h[n].free = g[n].free /\ h[n].topic = g[n].topic /\ h[n].sticky = g[n].sticky
               /\ \A i \in SubSlots : i # n => h[i] = g[i]
<1> DEFINE r == [g[n] EXCEPT !.count = b]
           h == [g EXCEPT ![n].count = b]
<1>1. h = [g EXCEPT ![n] = r]
  OBVIOUS
<1>2. g[n] \in TopicRecords
  OBVIOUS
<1>3. /\ r \in TopicRecords /\ r.count = b
      /\ r.free = g[n].free /\ r.topic = g[n].topic /\ r.sticky = g[n].sticky
  BY <1>2 DEF TopicRecords, Bytes
<1> HIDE DEF r
<1>4. /\ [g EXCEPT ![n] = r] \in [SubSlots -> TopicRecords] /\ [g EXCEPT ![n] = r][n] = r
      /\ \A i \in SubSlots : i # n => [g EXCEPT ![n] = r][i] = g[i]
  BY <1>3
<1> HIDE DEF h
<1> QED
  BY <1>1, <1>3, <1>4 DEF h

LEMMA TakeStep ==
    ASSUME ShadowTypes, ShadowTypes', ControlInv', BetweenCalls, ListInv,
           NEW token \in Tokens, NEW key \in Keys, NEW sticky \in Stickies[key],
           ActionSubscribes(token, key, sticky), Room
    PROVE  ListInv'
<1> DEFINE use == Use(stack, ackWaitList)
           e == Min(FreeAcks)
           acc == Min(FreeSubs)
           rej == Min(FreeSubs \ { acc })
<1>1. /\ stack = << >> /\ FreeAcks # {} /\ ~IsSubscriptionPresent(key)
      /\ Cardinality(FreeSubs) >= 2
      /\ UNCHANGED << ackWaitList, messageHandlers, brokerSubs, persistent >>
      /\ Push(Frame("action", "subscribe_accepted", key, token, sticky, e, acc, rej, "SUCCESS"))
      /\ subscriptionList' =
            [subscriptionList EXCEPT ![acc].free = FALSE, ![rej].free = FALSE,
                                     ![acc].topic = << key, "accepted" >>]
  BY DEF ActionSubscribes, MayAct, BetweenCalls, mqtt, history
<1>2. e \in AckSlots /\ ackWaitList[e].free
  BY <1>1, FreeFacts DEF FreeAcks
<1>3. acc \in SubSlots /\ rej \in SubSlots /\ FirstFree(subscriptionList, acc, rej)
  <2>1. FreeSubs \in SUBSET Nat /\ FreeSubs \in SUBSET SubSlots
    BY Slots DEF FreeSubs
  <2>2. IsFiniteSet(FreeSubs) /\ Cardinality(FreeSubs) \in Nat
    BY <2>1, FiniteSlots, FS_Subset, FS_CardinalityType
  <2>3. FreeSubs # {}
    BY <1>1, <2>2, FS_EmptySet
  <2>4. acc \in FreeSubs /\ \A y \in FreeSubs : acc <= y
    BY <2>1, <2>3, MinLeast
  <2> DEFINE rest == FreeSubs \ { acc }
  <2> HIDE DEF acc
  <2>5. rest # {}
    <3>1. IsFiniteSet(rest) /\ Cardinality(rest) = Cardinality(FreeSubs) - 1
      BY <2>2, <2>4, FS_RemoveElement
    <3> HIDE DEF rest
    <3>2. Cardinality(rest) # 0
      BY <1>1, <2>2, <3>1
    <3> QED
      BY <3>1, <3>2, FS_EmptySet
  <2>6. rest \in SUBSET Nat
    BY <2>1
  <2>7. rej \in rest /\ \A y \in rest : rej <= y
    BY <2>5, <2>6, MinLeast
  <2> HIDE DEF rej
  <2> QED
    BY <2>1, <2>4, <2>7 DEF FreeSubs, FirstFree
<1> HIDE DEF e, acc, rej
<1>4. PICK f \in Frames : /\ Push(f) /\ f.pc = "subscribe_accepted" /\ f.key = key /\ f.i = e
                          /\ f.acc = acc /\ f.rej = rej /\ Len(stack') = 1 /\ stack'[1] = f
  BY <1>1, FramePushed
<1>5. SameUsers
  BY <1>1, <1>2, <1>4, StartUses
<1>6. Use(stack', ackWaitList') = use
  BY <1>5, UseSteps
<1>7. TookIn(subscriptionList, subscriptionList', acc, rej, << key, "accepted" >>)
  <2>1. subscriptionList \in [SubSlots -> TopicRecords] /\ acc # rej
    BY <1>3, TypedParts DEF ShadowTypes, FirstFree
  <2> DEFINE one == [subscriptionList EXCEPT ![acc].free = FALSE]
             two == [one EXCEPT ![rej].free = FALSE]
             three == [two EXCEPT ![acc].topic = << key, "accepted" >>]
  <2>2. subscriptionList' = three
    BY <1>1
  <2> DEFINE no == FALSE
  <2>3a. no \in BOOLEAN /\ ~no
    OBVIOUS
  <2>3b. one = [subscriptionList EXCEPT ![acc].free = no] /\ two = [one EXCEPT ![rej].free = no]
    OBVIOUS
  <2> HIDE DEF no, one, two
  <2>3. /\ one \in [SubSlots -> TopicRecords] /\ one[acc].free = no
        /\ one[acc].topic = subscriptionList[acc].topic
        /\ \A i \in SubSlots : i # acc => one[i] = subscriptionList[i]
    BY <1>3, <2>1, <2>3a, <2>3b, FreeWritten
  <2>4. /\ two \in [SubSlots -> TopicRecords] /\ two[rej].free = no
        /\ two[rej].topic = one[rej].topic
        /\ \A i \in SubSlots : i # rej => two[i] = one[i]
    <3>1. one \in [SubSlots -> TopicRecords] /\ rej \in SubSlots /\ no \in BOOLEAN
      BY <1>3, <2>3, <2>3a
    <3>2. two = [one EXCEPT ![rej].free = no]
      BY <2>3b
    <3> QED
      BY <3>1, <3>2, FreeWritten
  <2>5. /\ three[acc].free = two[acc].free /\ three[acc].topic = << key, "accepted" >>
        /\ \A i \in SubSlots : i # acc => three[i] = two[i]
    BY <1>3, <2>4 DEF TopicRecords
  <2> HIDE DEF three
  <2> QED
    BY <1>3, <2>1, <2>2, <2>3, <2>3a, <2>4, <2>5 DEF TookIn
<1>8. << key, "accepted" >> \notin ListedIn(use, persistent)
      /\ << key, "rejected" >> \notin ListedIn(use, persistent)
  BY <1>1, PresentIff DEF Heeded
<1>9. UnheardIn(stack) = {} /\ UnheardIn(stack') = { acc, rej }
  <2>1. Len(stack) = 0
    BY <1>1
  <2> QED
    BY <1>3, <1>4, <2>1 DEF UnheardIn
<1>10. ListIn(subscriptionList, messageHandlers, brokerSubs, {}, use, persistent)
  BY <1>9 DEF ListInv
<1> HIDE DEF use
<1>11. /\ ListIn(subscriptionList', messageHandlers, brokerSubs, { acc, rej }, use, persistent)
       /\ Claims(subscriptionList', acc, << key, "accepted" >>)
       /\ Claims(subscriptionList', rej, << key, "rejected" >>)
  BY <1>3, <1>7, <1>8, <1>10, TakeList
<1>12. CallListed(f, subscriptionList', { acc, rej }, use, persistent)
  <2>1. BegunIn(f, subscriptionList', ListedIn(use, persistent))
    BY <1>3, <1>4, <1>7, <1>8, <1>11 DEF BegunIn, TookIn, FirstFree, Status
  <2>2. ReleasingIn(f, subscriptionList', { acc, rej }, use)
    BY <1>4 DEF ReleasingIn, WaitPc
  <2> QED
    BY <1>4, <2>1, <2>2 DEF CallListed
<1>13. ListIn(subscriptionList', messageHandlers', brokerSubs', UnheardIn(stack'),
              Use(stack', ackWaitList'), persistent')
  BY <1>1, <1>6, <1>9, <1>11
<1>14. \A n \in 1..Len(stack') :
          CallListed(stack'[n], subscriptionList', UnheardIn(stack'),
                     Use(stack', ackWaitList'), persistent')
  BY <1>1, <1>4, <1>6, <1>9, <1>12
<1> QED
  BY <1>13, <1>14 DEF ListInv

\* The action that is being started is the only call.
LEMMA OnlyCall ==
    ASSUME ShadowTypes, ControlInv, TrackInv, ListInv, SteadyKeys,
           stack # << >>, Top.pc \in Subscribing
    PROVE  /\ Len(stack) = 1 /\ stack[1] = Top /\ Top \in Frames /\ Top.key \in Keys
           /\ Top.acc \in SubSlots /\ Top.rej \in SubSlots
           /\ Top.sticky \in BOOLEAN /\ (Top.sticky <=> Sticks(Top.key))
           /\ BegunIn(Top, subscriptionList, Heeded)
<1>1. /\ Top = stack[Len(stack)] /\ Top \in Frames /\ FrameFits(Top)
      /\ Top.op \in { "action", "ack", "expire" } /\ Len(stack) \in 1..Len(stack)
  BY TopFacts, FrameFields DEF ShadowTypes
<1>2. Top.op = "action" /\ Top.key \in Keys /\ Top.acc \in SubSlots /\ Top.rej \in SubSlots
  BY <1>1 DEF FrameFits, EntryPcs, Subscribing
<1>3. Len(stack) = 1
  BY <1>1, <1>2 DEF TrackInv, Bottom
<1>4. Top.sticky \in Stickies[Top.key]
  BY <1>2, TopFits DEF CallFits
<1>5. Top.sticky \in BOOLEAN /\ (Top.sticky <=> Sticks(Top.key))
  BY <1>2, <1>4, StickyIs
<1>6. BegunIn(Top, subscriptionList, Heeded)
  BY <1>1 DEF ListInv, CallListed, Heeded
<1> QED
  BY <1>1, <1>2, <1>3, <1>5, <1>6

LEMMA AcceptedList ==
    ASSUME ShadowTypes, ShadowTypes', ControlInv, ControlInv', TrackInv, ListInv, SteadyKeys,
           SubscribedAccepted
    PROVE  ListInv'
<1> DEFINE use == Use(stack, ackWaitList)
           gain == Use(stack', ackWaitList')
           key == Top.key
           acc == Top.acc
           rej == Top.rej
           u == << key, "accepted" >>
           v == << key, "rejected" >>
           f == [Top EXCEPT !.pc = "subscribe_rejected"]
           h0 == Min(FreeHandlers)
<1>1. /\ stack # << >> /\ Top.pc = "subscribe_accepted" /\ Goto("subscribe_rejected")
      /\ UNCHANGED << ackWaitList, persistent >> /\ FreeHandlers # {}
      /\ messageHandlers' = [messageHandlers EXCEPT ![h0] = acc]
      /\ brokerSubs' = brokerSubs \cup { subscriptionList[acc].topic }
      /\ subscriptionList' =
            [subscriptionList EXCEPT ![acc].count = 1, ![acc].sticky = Top.sticky,
                                     ![rej].topic = v]
  BY DEF SubscribedAccepted, At, MqttSubscribe, history
<1>2. Top.pc \in Subscribing /\ "subscribe_rejected" \in Pcs
  BY <1>1 DEF Subscribing, Pcs
<1>3. /\ Len(stack) = 1 /\ stack[1] = Top /\ Top \in Frames /\ key \in Keys
      /\ acc \in SubSlots /\ rej \in SubSlots
      /\ Top.sticky \in BOOLEAN /\ (Top.sticky <=> Sticks(key))
      /\ BegunIn(Top, subscriptionList, Heeded)
  BY <1>1, <1>2, OnlyCall
<1>4. /\ acc # rej /\ ~subscriptionList[acc].free /\ ~subscriptionList[rej].free
      /\ subscriptionList[acc].topic = u /\ Claims(subscriptionList, acc, u)
      /\ Claims(subscriptionList, rej, v) /\ u \notin Heeded /\ v \notin Heeded
  BY <1>1, <1>3 DEF BegunIn, Status
<1>5. Top.i \in AckSlots /\ u \in Topics /\ Joins(Top.i, u)
  <2>1. "accepted" \in Status /\ "accepted" # "rejected"
    BY DEF Status
  <2> QED
    BY <1>1, <2>1, SubscribeUses
<1>6. Gains(use, gain, u, Top.i)
  BY <1>5, UseSteps
<1>7. v \in Topics /\ u # v /\ u[1] = key
  BY <1>3 DEF Topics, Status
<1>8. /\ f \in Frames /\ f.pc = "subscribe_rejected" /\ f.key = key /\ f.rej = rej
      /\ Continue(f)
  BY <1>1, <1>2, <1>3, Changed DEF Goto
<1>9. h0 \in HandlerSlots /\ messageHandlers[h0] = NoSlot /\ messageHandlers \in HandlerTypes
  BY <1>1, FreeFacts, TypedParts DEF FreeHandlers, ShadowTypes, MqttTyped, HandlerTypes
<1> HIDE DEF f, h0, key, acc, rej, u, v, use, gain
<1>10. Len(stack') = 1 /\ stack'[1] = f
  BY <1>1, <1>3, <1>8, Continued DEF ShadowTypes
<1>11. UnheardIn(stack) = { acc, rej } /\ UnheardIn(stack') = { acc, rej } \ { acc }
  <2>1. UnheardIn(stack) = { acc, rej }
    BY <1>1, <1>3 DEF UnheardIn, acc, rej
  <2>2. UnheardIn(stack') = { rej }
    BY <1>3, <1>8, <1>10 DEF UnheardIn
  <2> QED
    BY <1>4, <2>1, <2>2
<1>12. /\ HeardIn(subscriptionList, subscriptionList', acc, { acc, rej }, v, Top.sticky)
       /\ subscriptionList'[rej].topic = v
       /\ \A i \in SubSlots : i # rej => subscriptionList'[i].topic = subscriptionList[i].topic
  <2> DEFINE b == Top.sticky
             c == 1
             one == [subscriptionList EXCEPT ![acc].count = c]
             two == [one EXCEPT ![acc].sticky = b]
             three == [two EXCEPT ![rej].topic = v]
  <2>1. subscriptionList' = three
    BY <1>1
  <2>2. subscriptionList \in [SubSlots -> TopicRecords] /\ c \in Bytes /\ b \in BOOLEAN
    BY <1>3, TypedParts DEF ShadowTypes, Bytes
  <2> HIDE DEF b, c
  <2>3. /\ one \in [SubSlots -> TopicRecords] /\ one[acc].count = c
        /\ one[acc].free = subscriptionList[acc].free
        /\ one[acc].topic = subscriptionList[acc].topic
        /\ \A i \in SubSlots : i # acc => one[i] = subscriptionList[i]
    <3>1. subscriptionList \in [SubSlots -> TopicRecords] /\ c \in Bytes /\ acc \in SubSlots
      BY <1>3, <2>2
    <3> QED
      BY <3>1, CountWritten
  <2> HIDE DEF one
  <2>4. /\ two \in [SubSlots -> TopicRecords] /\ two[acc].sticky = b
        /\ two[acc].free = one[acc].free /\ two[acc].topic = one[acc].topic
        /\ two[acc].count = one[acc].count
        /\ \A i \in SubSlots : i # acc => two[i] = one[i]
    <3>1. one \in [SubSlots -> TopicRecords] /\ b \in BOOLEAN /\ acc \in SubSlots
      BY <1>3, <2>2, <2>3
    <3> QED
      BY <3>1, StickyWritten
  <2> HIDE DEF two
  <2>5. /\ three[rej].topic = v /\ three[rej].free = two[rej].free
        /\ \A i \in SubSlots : i # rej => three[i] = two[i]
    <3>1. two \in [SubSlots -> TopicRecords] /\ v \in Topics /\ rej \in SubSlots
      BY <1>3, <1>7, <2>4
    <3> QED
      BY <3>1, TopicWritten
  <2> HIDE DEF three
  <2>6. /\ three[acc] = two[acc] /\ two[rej] = subscriptionList[rej]
        /\ \A i \in SubSlots : i # acc /\ i # rej => three[i] = subscriptionList[i]
    BY <1>3, <1>4, <2>3, <2>4, <2>5
  <2>7. \A i \in SubSlots : three[i].free = subscriptionList[i].free
    BY <2>3, <2>4, <2>5, <2>6
  <2>8. \A i \in SubSlots : i # rej => three[i].topic = subscriptionList[i].topic
    BY <2>3, <2>4, <2>6
  <2> QED
    BY <1>3, <2>1, <2>3, <2>4, <2>5, <2>6, <2>7, <2>8 DEF HeardIn, b, c
<1>13. ListIn(subscriptionList, messageHandlers, brokerSubs, { acc, rej }, use, persistent)
  BY <1>11 DEF ListInv, use
<1>14. u \notin ListedIn(use, persistent) /\ v \notin ListedIn(use, persistent)
  BY <1>4 DEF Heeded, use
<1>15. ListIn(subscriptionList', messageHandlers', brokerSubs', UnheardIn(stack'), gain,
              persistent')
  <2>1. acc \in { acc, rej } /\ (Top.sticky <=> Sticks(u[1]))
    BY <1>3, <1>7
  <2>2. ListIn(subscriptionList', [messageHandlers EXCEPT ![h0] = acc], brokerSubs \cup { u },
               { acc, rej } \ { acc }, gain, persistent)
    BY <1>3, <1>4, <1>5, <1>6, <1>7, <1>9, <1>12, <1>13, <1>14, <2>1, JoinList
  <2> QED
    BY <1>1, <1>4, <1>11, <2>2
<1>16. BegunIn(f, subscriptionList', ListedIn(gain, persistent))
  <2>1. ~subscriptionList'[rej].free
    BY <1>3, <1>4, <1>12 DEF HeardIn
  <2>2. Claims(subscriptionList', rej, v)
    BY <1>4, <1>12 DEF Claims
  <2>3. v \notin ListedIn(gain, persistent)
    BY <1>6, <1>7, <1>14 DEF ListedIn, Gains
  <2> QED
    BY <1>8, <1>12, <2>1, <2>2, <2>3 DEF BegunIn, v
<1>17. CallListed(f, subscriptionList', UnheardIn(stack'), gain, persistent)
  BY <1>8, <1>16 DEF CallListed, ReleasingIn, WaitPc
<1>18. \A n \in 1..Len(stack') :
          CallListed(stack'[n], subscriptionList', UnheardIn(stack'), gain, persistent')
  BY <1>1, <1>10, <1>17
<1> QED
  BY <1>15, <1>18 DEF ListInv, gain

LEMMA RejectedList ==
    ASSUME ShadowTypes, ShadowTypes', ControlInv, ControlInv', TrackInv, ListInv, SteadyKeys,
           SubscribedRejected
    PROVE  ListInv'
<1> DEFINE use == Use(stack, ackWaitList)
           gain == Use(stack', ackWaitList')
           key == Top.key
           rej == Top.rej
           u == << key, "rejected" >>
           f == [Top EXCEPT !.pc = "publish"]
           h0 == Min(FreeHandlers)
<1>1. /\ stack # << >> /\ Top.pc = "subscribe_rejected" /\ Goto("publish")
      /\ UNCHANGED << ackWaitList, persistent >> /\ FreeHandlers # {}
      /\ messageHandlers' = [messageHandlers EXCEPT ![h0] = rej]
      /\ brokerSubs' = brokerSubs \cup { subscriptionList[rej].topic }
      /\ subscriptionList' =
            [subscriptionList EXCEPT ![rej].count = 1, ![rej].sticky = Top.sticky]
  BY DEF SubscribedRejected, At, MqttSubscribe, history
<1>2. Top.pc \in Subscribing /\ "publish" \in Pcs
  BY <1>1 DEF Subscribing, Pcs
<1>3. /\ Len(stack) = 1 /\ stack[1] = Top /\ Top \in Frames /\ key \in Keys
      /\ rej \in SubSlots
      /\ Top.sticky \in BOOLEAN /\ (Top.sticky <=> Sticks(key))
      /\ BegunIn(Top, subscriptionList, Heeded)
  BY <1>1, <1>2, OnlyCall
<1>4. /\ ~subscriptionList[rej].free /\ subscriptionList[rej].topic = u
      /\ Claims(subscriptionList, rej, u) /\ u \notin Heeded
  BY <1>1, <1>3 DEF BegunIn
<1>5. Top.i \in AckSlots /\ u \in Topics /\ Joins(Top.i, u)
  <2>1. "rejected" \in Status /\ "accepted" # "rejected"
    BY DEF Status
  <2> QED
    BY <1>1, <2>1, SubscribeUses
<1>6. Gains(use, gain, u, Top.i)
  BY <1>5, UseSteps
<1>7. NoTopic \notin Topics /\ NoTopic # u /\ u[1] = key
  BY <1>5, ShadowAssumption DEF Topics, NoTopic
<1>8. f \in Frames /\ f.pc = "publish" /\ Continue(f)
  BY <1>1, <1>2, <1>3, Changed DEF Goto
<1>9. h0 \in HandlerSlots /\ messageHandlers[h0] = NoSlot /\ messageHandlers \in HandlerTypes
  BY <1>1, FreeFacts, TypedParts DEF FreeHandlers, ShadowTypes, MqttTyped, HandlerTypes
<1> HIDE DEF f, h0, key, rej, u, use, gain
<1>10. Len(stack') = 1 /\ stack'[1] = f
  BY <1>1, <1>3, <1>8, Continued DEF ShadowTypes
<1>11. UnheardIn(stack) = { rej } /\ UnheardIn(stack') = { rej } \ { rej }
  <2>1. UnheardIn(stack) = { rej }
    BY <1>1, <1>3 DEF UnheardIn, rej
  <2>2. UnheardIn(stack') = {}
    BY <1>8, <1>10 DEF UnheardIn
  <2> QED
    BY <2>1, <2>2
<1>12. HeardIn(subscriptionList, subscriptionList', rej, { rej }, NoTopic, Top.sticky)
  <2> DEFINE b == Top.sticky
             c == 1
             one == [subscriptionList EXCEPT ![rej].count = c]
             two == [one EXCEPT ![rej].sticky = b]
  <2>1. subscriptionList' = two
    BY <1>1
  <2>2. subscriptionList \in [SubSlots -> TopicRecords] /\ c \in Bytes /\ b \in BOOLEAN
    BY <1>3, TypedParts DEF ShadowTypes, Bytes
  <2> HIDE DEF b, c
  <2>3. /\ one \in [SubSlots -> TopicRecords] /\ one[rej].count = c
        /\ one[rej].free = subscriptionList[rej].free
        /\ one[rej].topic = subscriptionList[rej].topic
        /\ \A i \in SubSlots : i # rej => one[i] = subscriptionList[i]
    <3>1. subscriptionList \in [SubSlots -> TopicRecords] /\ c \in Bytes /\ rej \in SubSlots
      BY <1>3, <2>2
    <3> QED
      BY <3>1, CountWritten
  <2> HIDE DEF one
  <2>4. /\ two \in [SubSlots -> TopicRecords] /\ two[rej].sticky = b
        /\ two[rej].free = one[rej].free /\ two[rej].topic = one[rej].topic
        /\ two[rej].count = one[rej].count
        /\ \A i \in SubSlots : i # rej => two[i] = one[i]
    <3>1. one \in [SubSlots -> TopicRecords] /\ b \in BOOLEAN /\ rej \in SubSlots
      BY <1>3, <2>2, <2>3
    <3> QED
      BY <3>1, StickyWritten
  <2> HIDE DEF two
  <2>5. \A i \in SubSlots : i # rej => two[i] = subscriptionList[i]
    BY <2>3, <2>4
  <2>6. \A i \in SubSlots : two[i].free = subscriptionList[i].free
    BY <2>3, <2>4, <2>5
  <2> QED
    BY <1>3, <2>1, <2>3, <2>4, <2>5, <2>6 DEF HeardIn, b, c
<1>13. ListIn(subscriptionList, messageHandlers, brokerSubs, { rej }, use, persistent)
  BY <1>11 DEF ListInv, use
<1>14. u \notin ListedIn(use, persistent) /\ NoTopic \notin ListedIn(use, persistent)
  BY <1>4, <1>7 DEF Heeded, ListedIn, use
<1>15. ListIn(subscriptionList', messageHandlers', brokerSubs', UnheardIn(stack'), gain,
              persistent')
  <2>1. rej \in { rej } /\ (Top.sticky <=> Sticks(u[1]))
    BY <1>3, <1>7
  <2>2. ListIn(subscriptionList', [messageHandlers EXCEPT ![h0] = rej], brokerSubs \cup { u },
               { rej } \ { rej }, gain, persistent)
    BY <1>3, <1>4, <1>5, <1>6, <1>7, <1>9, <1>12, <1>13, <1>14, <2>1, JoinList
  <2> QED
    BY <1>1, <1>4, <1>11, <2>2
<1>16. \A n \in 1..Len(stack') : stack'[n].pc \notin WaitPcs
  BY <1>8, <1>10 DEF WaitPcs
<1> QED
  BY <1>15, <1>16, PlainCall DEF ListInv, gain

-----------------------------------------------------------------------------
(* A topic is released *)

Releasing == { "unsubscribe_accepted", "unsubscribe_rejected", "wait_accepted", "wait_rejected" }

\* The calls below the one that is done with a topic stay.
LEMMA DoneStack ==
    ASSUME ShadowTypes, ShadowTypes', stack # << >>, Top.pc \in Releasing,
           NEW s \in Status, TopicDone(s)
    PROVE  /\ UnheardIn(stack') = UnheardIn(stack)
           /\ \A n \in 1..Len(stack') : \/ n \in 1..(Len(stack) - 1) /\ stack'[n] = stack[n]
                                        \/ stack'[n].pc \notin WaitPcs
<1>1. Top.pc \in EntryPcs /\ Top.pc \notin Subscribing
  BY DEF Releasing, EntryPcs, Subscribing
<1>2. Top \in Frames /\ Top.i \in AckSlots
  BY <1>1, EntryFacts DEF ShadowTypes
<1>3. Return \/ \E f \in Frames : Continue(f) /\ f.pc \in { "unsubscribe_rejected", "scan" }
  <2>1. CASE s = "accepted"
    <3>1. "unsubscribe_rejected" \in Pcs
      BY DEF Pcs
    <3>2. /\ [Top EXCEPT !.pc = "unsubscribe_rejected"] \in Frames
          /\ [Top EXCEPT !.pc = "unsubscribe_rejected"].pc = "unsubscribe_rejected"
      BY <1>2, <3>1, Changed
    <3> QED
      BY <2>1, <3>2 DEF TopicDone, Goto
  <2>2. CASE s # "accepted"
    <3>1. EntryDone
      BY <2>2 DEF TopicDone
    <3>2. /\ [Top EXCEPT !.pc = "scan", !.i = @ + 1] \in Frames
          /\ [Top EXCEPT !.pc = "scan", !.i = @ + 1].pc = "scan"
      BY <1>2, Advanced
    <3> QED
      BY <3>1, <3>2 DEF EntryDone
  <2> QED
    BY <2>1, <2>2
<1>4. UnheardIn(stack') = UnheardIn(stack)
  <2>1. Return \/ \E f \in Frames : Continue(f) /\ f.pc \notin Subscribing
    BY <1>3 DEF Subscribing
  <2> QED
    BY <1>1, <2>1, UnheardKept
<1>5. ASSUME NEW n \in 1..Len(stack')
      PROVE  \/ n \in 1..(Len(stack) - 1) /\ stack'[n] = stack[n]
             \/ stack'[n].pc \notin WaitPcs
  <2>1. Len(stack) \in Nat /\ Len(stack) > 0
    BY TopFacts DEF ShadowTypes
  <2>2. CASE Return
    <3>1. /\ Len(stack') = Len(stack) - 1
          /\ \A m \in 1..(Len(stack) - 1) : stack'[m] = stack[m]
      BY <2>2, Returned DEF ShadowTypes
    <3> QED
      BY <1>5, <3>1
  <2>3. ASSUME NEW f \in Frames, Continue(f), f.pc \in { "unsubscribe_rejected", "scan" }
        PROVE  \/ n \in 1..(Len(stack) - 1) /\ stack'[n] = stack[n]
               \/ stack'[n].pc \notin WaitPcs
    <3>1. /\ Len(stack') = Len(stack) /\ stack'[Len(stack)] = f
          /\ \A m \in 1..(Len(stack) - 1) : stack'[m] = stack[m]
      BY <2>3, Continued DEF ShadowTypes
    <3>2. n = Len(stack) \/ n \in 1..(Len(stack) - 1)
      BY <2>1, <3>1
    <3>3. f.pc \notin WaitPcs
      BY <2>3 DEF WaitPcs
    <3> QED
      BY <3>1, <3>2, <3>3
  <2> QED
    BY <1>3, <2>2, <2>3
<1> QED
  BY <1>4, <1>5

\* What a call knows of the list stays true when another one is done with a topic.
LEMMA OtherCall ==
    ASSUME NEW f, NEW subs, NEW next, NEW unheard, NEW use, NEW loss, NEW keys, NEW u, NEW e,
           CallListed(f, subs, unheard, use, keys), f.i # e, e \in use[u],
           Loses(use, loss, u, e), ListedIn(loss, keys) \subseteq ListedIn(use, keys),
           NEW a \in SettledIn(subs, unheard), subs[a].topic = u,
           \A i \in SubSlots : next[i].topic = subs[i].topic,
           \A i \in SubSlots : i # a => next[i].free = subs[i].free,
           f.pc = "subscribe_accepted" => f.acc \in unheard \cap SubSlots,
           f.pc \in Subscribing => f.rej \in unheard \cap SubSlots,
           f.pc \in { "wait_accepted", "wait_rejected" } => f.key \in Keys
    PROVE  CallListed(f, next, unheard, loss, keys)
<1> DEFINE listed == ListedIn(use, keys)
           less == ListedIn(loss, keys)
<1>1. a \notin unheard /\ a \in SubSlots
  BY DEF SettledIn
<1>2. \A n, t : Claims(subs, n, t) => Claims(next, n, t)
  BY DEF Claims
<1>3. BegunIn(f, subs, listed) /\ less \subseteq listed
  BY DEF CallListed
<1> HIDE DEF listed, less
<1>4. BegunIn(f, next, less)
  <2>1. CASE f.pc = "subscribe_accepted"
    <3>1. f.acc \in SubSlots /\ f.rej \in SubSlots /\ f.acc # a /\ f.rej # a
      BY <1>1, <2>1 DEF Subscribing
    <3> QED
      BY <1>2, <1>3, <2>1, <3>1 DEF BegunIn
  <2>2. CASE f.pc = "subscribe_rejected"
    <3>1. f.rej \in SubSlots /\ f.rej # a
      BY <1>1, <2>2 DEF Subscribing
    <3> QED
      BY <1>2, <1>3, <2>2, <3>1 DEF BegunIn
  <2> QED
    BY <2>1, <2>2 DEF BegunIn
<1>5. ReleasingIn(f, next, unheard, loss)
  <2> SUFFICES ASSUME NEW s \in Status, f.pc = WaitPc(s)
               PROVE  /\ f.acc \in SettledIn(next, unheard)
                      /\ next[f.acc].topic = << f.key, s >>
                      /\ ~Sticks(f.key) /\ loss[<< f.key, s >>] = { f.i }
    BY DEF ReleasingIn
  <2>1. /\ f.acc \in SettledIn(subs, unheard) /\ subs[f.acc].topic = << f.key, s >>
        /\ ~Sticks(f.key) /\ use[<< f.key, s >>] = { f.i }
    BY DEF CallListed, ReleasingIn
  <2>2. << f.key, s >> # u
    BY <2>1
  <2>3. << f.key, s >> \in Topics
    BY DEF Topics, WaitPc
  <2>4. loss[<< f.key, s >>] = { f.i }
    BY <2>1, <2>2, <2>3 DEF Loses
  <2>5. f.acc # a /\ f.acc \in SubSlots /\ ~subs[f.acc].free /\ f.acc \notin unheard
    BY <2>1, <2>2 DEF SettledIn
  <2>6. f.acc \in SettledIn(next, unheard) /\ next[f.acc].topic = << f.key, s >>
    BY <2>1, <2>5 DEF SettledIn
  <2> QED
    BY <2>1, <2>4, <2>6
<1> QED
  BY <1>4, <1>5 DEF CallListed, less

LEMMA DoneCalls ==
    ASSUME ShadowTypes, ShadowTypes', ControlInv, TrackInv, ListInv,
           stack # << >>, Top.pc \in Releasing, NEW s \in Status, TopicDone(s),
           NEW loss, NEW u, Top.i \in Use(stack, ackWaitList)[u],
           Loses(Use(stack, ackWaitList), loss, u, Top.i),
           ListedIn(loss, persistent) \subseteq Heeded,
           NEW a \in SettledIn(subscriptionList, UnheardIn(stack)), subscriptionList[a].topic = u,
           NEW next, \A i \in SubSlots : next[i].topic = subscriptionList[i].topic,
           \A i \in SubSlots : i # a => next[i].free = subscriptionList[i].free
    PROVE  \A n \in 1..Len(stack') : CallListed(stack'[n], next, UnheardIn(stack'), loss, persistent)
<1> DEFINE use == Use(stack, ackWaitList)
           unheard == UnheardIn(stack)
<1>1. unheard = UnheardIn(stack')
  BY DoneStack
<1>2. ListedIn(loss, persistent) \subseteq ListedIn(use, persistent)
  BY DEF Heeded
<1>3. Len(stack) \in 1..Len(stack) /\ Top = stack[Len(stack)] /\ Len(stack) \in Nat
  BY TopFacts DEF ShadowTypes
<1> SUFFICES ASSUME NEW n \in 1..Len(stack')
             PROVE  CallListed(stack'[n], next, unheard, loss, persistent)
  BY <1>1
<1>4. CASE stack'[n].pc \notin WaitPcs
  BY <1>4, PlainCall
<1>5. CASE n \in 1..(Len(stack) - 1) /\ stack'[n] = stack[n]
  <2> DEFINE f == stack[n]
  <2>1. /\ n \in 1..Len(stack) /\ n < Len(stack) /\ f \in Frames /\ FrameFits(f)
        /\ f.pc \in WaitPcs /\ Owns(f)
    BY <1>5, BelowFacts
  <2>2. f.i # Top.i
    BY <1>3, <2>1 DEF ControlInv, ApartIn
  <2>3. CallListed(f, subscriptionList, unheard, use, persistent)
    BY <2>1 DEF ListInv
  <2>4. f.op \in { "action", "ack", "expire" }
    BY <2>1, FrameFields
  <2>5. CASE f.pc \in Subscribing
    <3>1. f.op = "action" /\ f.acc \in SubSlots /\ f.rej \in SubSlots
      BY <2>1, <2>4, <2>5 DEF FrameFits, EntryPcs, Subscribing
    <3>2. n = 1 /\ Len(stack) > 0
      BY <1>3, <2>1, <3>1 DEF TrackInv, Bottom
    <3>3. f.rej \in unheard \cap SubSlots
      BY <2>5, <3>1, <3>2 DEF UnheardIn, Subscribing
    <3>4. f.pc = "subscribe_accepted" => f.acc \in unheard \cap SubSlots
      BY <3>1, <3>2 DEF UnheardIn
    <3>5. f.pc \notin { "wait_accepted", "wait_rejected" }
      BY <2>5 DEF Subscribing
    <3> HIDE DEF f, use, unheard
    <3>6. CallListed(f, next, unheard, loss, persistent)
      BY <1>2, <2>2, <2>3, <3>3, <3>4, <3>5, OtherCall DEF use, unheard
    <3> QED
      BY <1>5, <3>6 DEF f
  <2>6. CASE f.pc \notin Subscribing
    <3>1. f.pc # "subscribe_accepted"
      BY <2>6 DEF Subscribing
    <3>2. f.pc \in { "wait_accepted", "wait_rejected" } => f.key \in Keys
      <4>1. f.pc \in { "wait_accepted", "wait_rejected" } => f.op # "action"
        BY <2>1 DEF FrameFits, ActionPcs
      <4> QED
        BY <2>1, <4>1 DEF ControlInv, CallsFit, CallFits
    <3> HIDE DEF f, use, unheard
    <3>3. CallListed(f, next, unheard, loss, persistent)
      BY <1>2, <2>2, <2>3, <2>6, <3>1, <3>2, OtherCall DEF use, unheard
    <3> QED
      BY <1>5, <3>3 DEF f
  <2> QED
    BY <2>5, <2>6
<1> QED
  BY <1>4, <1>5, DoneStack

\* The record of a topic that an action is about to release.
LEMMA HeldTopic ==
    ASSUME ShadowTypes, ControlInv, ListInv, stack # << >>, NEW s \in Status,
           s = "accepted" => Top.pc = "unsubscribe_accepted",
           s = "rejected" => Top.pc = "unsubscribe_rejected"
    PROVE  LET u == << Top.key, s >>
               use == Use(stack, ackWaitList)
               n == Find(u)
           IN  /\ Top.i \in AckSlots /\ Top.key \in Keys /\ u \in Topics /\ Top.i \in use[u]
               /\ Kept(Top.key, persistent)
               /\ n # NoSlot /\ n \in SettledIn(subscriptionList, UnheardIn(stack))
               /\ n \in SubSlots /\ subscriptionList[n].topic = u
               /\ subscriptionList[n].sticky <=> Sticks(Top.key)
               /\ ~Sticks(Top.key) => subscriptionList[n].count = Cardinality(use[u])
<1> DEFINE u == << Top.key, s >>
           use == Use(stack, ackWaitList)
           n == Find(u)
           settled == SettledIn(subscriptionList, UnheardIn(stack))
<1>1. s \in { "accepted", "rejected" }
  BY DEF Status
<1>2. Top.pc \in EntryPcs /\ Owns(Top) /\ Holds(Top, s)
  BY <1>1 DEF EntryPcs, Owns, Holds
<1>3. Top.i \in AckSlots /\ Top.op \in { "ack", "expire" }
  BY <1>2, EntryFacts DEF ShadowTypes
<1>4. Top.key \in Keys /\ Kept(Top.key, persistent)
  BY <1>2, <1>3, TopFits DEF CallFits
<1>5. u \in Topics /\ u[1] = Top.key /\ u[2] = s
  BY <1>4 DEF Topics
<1>6. stack \in Seq(Frames) /\ Len(stack) > 0 /\ ApartIn(stack) /\ Top = stack[Len(stack)]
  BY TopFacts DEF ShadowTypes, ControlInv
<1> HIDE DEF u
<1>7. UsesIn(stack, ackWaitList, Top.i, u) <=> UsesOf(Top, ackWaitList, u)
  BY <1>6, TopUses
<1>8. UsesOf(Top, ackWaitList, u)
  BY <1>2, <1>5 DEF UsesOf
<1>9. Top.i \in use[u]
  BY <1>3, <1>5, <1>7, <1>8, UseFacts DEF UsersIn
<1>10. u \in Heeded
  BY <1>5, <1>9 DEF Heeded, ListedIn
<1>11. n # NoSlot /\ n \in settled /\ subscriptionList[n].topic = u
  BY <1>10, FindListed
<1>12. CountedIn(subscriptionList, settled, use) /\ n \in SubSlots
  BY <1>11, ListParts DEF SettledIn
<1> HIDE DEF settled, use, n
<1>13. /\ subscriptionList[n].sticky <=> Sticks(Top.key)
       /\ ~Sticks(Top.key) => subscriptionList[n].count = Cardinality(use[u])
  BY <1>5, <1>11, <1>12 DEF CountedIn
<1> QED
  BY <1>3, <1>4, <1>5, <1>9, <1>11, <1>12, <1>13 DEF settled, use, n, u

\* The last user of a topic begins to unsubscribe it.
LEMMA WaitList ==
    ASSUME ShadowTypes, ShadowTypes', ControlInv, ControlInv', ListInv, stack # << >>,
           NEW s \in Status,
           s = "accepted" => Top.pc = "unsubscribe_accepted",
           s = "rejected" => Top.pc = "unsubscribe_rejected",
           ~subscriptionList[Find(<< Top.key, s >>)].sticky,
           subscriptionList[Find(<< Top.key, s >>)].count = 1,
           Continue([Top EXCEPT !.pc = WaitPc(s), !.acc = Find(<< Top.key, s >>)]),
           UNCHANGED << ackWaitList, subscriptionList, messageHandlers, brokerSubs, persistent >>
    PROVE  ListInv'
<1> DEFINE u == << Top.key, s >>
           use == Use(stack, ackWaitList)
           n == Find(u)
           f == [Top EXCEPT !.pc = WaitPc(s), !.acc = n]
<1>1. /\ Top.i \in AckSlots /\ Top.key \in Keys /\ u \in Topics /\ Top.i \in use[u]
      /\ n \in SettledIn(subscriptionList, UnheardIn(stack))
      /\ n \in SubSlots /\ subscriptionList[n].topic = u
      /\ subscriptionList[n].sticky <=> Sticks(Top.key)
      /\ ~Sticks(Top.key) => subscriptionList[n].count = Cardinality(use[u])
  BY HeldTopic
<1>2. WaitPc(s) \in { "wait_accepted", "wait_rejected" } /\ WaitPc(s) \in Pcs
  BY DEF WaitPc, Pcs
<1>3. /\ f \in Frames /\ f.pc = WaitPc(s) /\ f.i = Top.i /\ f.key = Top.key /\ f.acc = n
  BY <1>1, <1>2, ChangedAcc DEF ShadowTypes
<1>4. Continue(f)
  OBVIOUS
<1>5. use \in UseTypes
  BY UseFacts
<1> HIDE DEF f, use, n
<1>6. ~Sticks(Top.key) /\ use[u] = { Top.i }
  <2>1. ~Sticks(Top.key) /\ Cardinality(use[u]) = 1
    BY <1>1 DEF n
  <2>2. use[u] \in SUBSET AckSlots
    BY <1>1, <1>5 DEF UseTypes
  <2> QED
    BY <1>1, <2>1, <2>2, UserCounts
<1>7. SameUsers
  BY <1>3, <1>4, WaitUses
<1>8. UnheardIn(stack') = UnheardIn(stack)
  <2>1. Top.pc \notin Subscribing
    BY DEF Subscribing, Status
  <2>2. f.pc \notin Subscribing
    BY <1>2, <1>3 DEF Subscribing
  <2> QED
    BY <1>3, <1>4, <2>1, <2>2, UnheardKept
<1>9. CallListed(f, subscriptionList, UnheardIn(stack), use, persistent)
  <2>1. ReleasingIn(f, subscriptionList, UnheardIn(stack), use)
    <3>1. \A w \in Status : WaitPc(w) = WaitPc(s) => w = s
      BY DEF WaitPc, Status
    <3> QED
      BY <1>1, <1>3, <1>6, <3>1 DEF ReleasingIn
  <2>2. f.pc \notin { "cleanup", "subscribe_accepted", "subscribe_rejected" }
    BY <1>2, <1>3
  <2> QED
    BY <2>1, <2>2 DEF CallListed, BegunIn
<1>10. ASSUME NEW m \in 1..Len(stack')
       PROVE  \/ m \in 1..Len(stack) /\ stack'[m] = stack[m]
              \/ stack'[m] = f
  <2>1. /\ Len(stack') = Len(stack) /\ stack'[Len(stack)] = f
        /\ \A i \in 1..(Len(stack) - 1) : stack'[i] = stack[i]
    BY <1>3, <1>4, Continued DEF ShadowTypes
  <2>2. Len(stack) \in Nat
    BY TopFacts DEF ShadowTypes
  <2>3. m = Len(stack) \/ (m \in 1..(Len(stack) - 1) /\ m \in 1..Len(stack))
    BY <2>1, <2>2
  <2> QED
    BY <2>1, <2>3
<1> QED
  BY <1>7, <1>8, <1>9, <1>10, QuietList DEF use

\* A topic that others use, or that is kept, is released.
LEMMA DoneList ==
    ASSUME ShadowTypes, ShadowTypes', ControlInv, ControlInv', TrackInv, ListInv, stack # << >>,
           NEW s \in Status, TopicDone(s),
           s = "accepted" => Top.pc = "unsubscribe_accepted",
           s = "rejected" => Top.pc = "unsubscribe_rejected",
           LET n == Find(<< Top.key, s >>)
               r == subscriptionList[n]
           IN  \/ /\ r.count > 1
                  /\ subscriptionList' = [subscriptionList EXCEPT ![n].count = @ - 1]
               \/ /\ r.count = 0 \/ (r.count = 1 /\ r.sticky)
                  /\ UNCHANGED subscriptionList,
           UNCHANGED << messageHandlers, brokerSubs, persistent >>
    PROVE  ListInv'
<1> DEFINE u == << Top.key, s >>
           use == Use(stack, ackWaitList)
           loss == Use(stack', ackWaitList')
           n == Find(u)
           r == subscriptionList[n]
           unheard == UnheardIn(stack)
           next == subscriptionList'
<1>1. /\ Top.i \in AckSlots /\ Top.key \in Keys /\ u \in Topics /\ Top.i \in use[u]
      /\ Kept(Top.key, persistent)
      /\ n \in SettledIn(subscriptionList, unheard)
      /\ n \in SubSlots /\ subscriptionList[n].topic = u
      /\ r.sticky <=> Sticks(Top.key)
      /\ ~Sticks(Top.key) => r.count = Cardinality(use[u])
  BY HeldTopic
<1>2. Leaves(Top.i, u)
  BY TopicDoneUses
<1>3. Loses(use, loss, u, Top.i)
  BY <1>2, UseSteps
<1>4. use \in UseTypes /\ use[u] \in SUBSET AckSlots
  BY <1>1, UseFacts DEF UseTypes
<1>5. subscriptionList \in ListTypes /\ r \in TopicRecords /\ u[1] = Top.key
  BY <1>1, TypedParts DEF ShadowTypes, ListTypes
<1>6. Top.pc \in Releasing
  BY DEF Releasing, Status
<1>7. \/ r.count > 1 /\ next = [subscriptionList EXCEPT ![n].count = r.count - 1]
      \/ (r.count = 0 \/ (r.count = 1 /\ r.sticky)) /\ next = subscriptionList
  OBVIOUS
<1> HIDE DEF use, loss, u, n, unheard, next
<1>8. /\ LoweredIn(subscriptionList, next, n)
      /\ ~Sticks(u[1]) => r.count > 1 /\ next[n].count = r.count - 1
  <2>1. CASE r.count > 1 /\ next = [subscriptionList EXCEPT ![n].count = r.count - 1]
    <3> DEFINE c == r.count - 1
    <3>1. c \in Bytes /\ subscriptionList \in [SubSlots -> TopicRecords] /\ n \in SubSlots
      BY <1>1, <1>5, <2>1 DEF TopicRecords, Bytes, ListTypes
    <3>2. next = [subscriptionList EXCEPT ![n].count = c]
      BY <2>1
    <3> HIDE DEF c, r
    <3>3. LET h == [subscriptionList EXCEPT ![n].count = c]
          IN  /\ h[n].count = c
              /\ h[n].free = subscriptionList[n].free /\ h[n].topic = subscriptionList[n].topic
              /\ h[n].sticky = subscriptionList[n].sticky
              /\ \A i \in SubSlots : i # n => h[i] = subscriptionList[i]
      BY <3>1, CountWritten
    <3>4. /\ next[n].count = c
          /\ next[n].free = subscriptionList[n].free /\ next[n].topic = subscriptionList[n].topic
          /\ next[n].sticky = subscriptionList[n].sticky
          /\ \A i \in SubSlots : i # n => next[i] = subscriptionList[i]
      BY <3>2, <3>3
    <3> QED
      BY <2>1, <3>4 DEF LoweredIn, c
  <2>2. CASE (r.count = 0 \/ (r.count = 1 /\ r.sticky)) /\ next = subscriptionList
    <3>1. Cardinality(use[u]) > 0
      BY <1>1, <1>4, UserCounts
    <3>2. Sticks(Top.key)
      BY <1>1, <2>2, <3>1
    <3> QED
      BY <1>5, <2>2, <3>2 DEF LoweredIn
  <2> QED
    BY <1>7, <2>1, <2>2
<1>9. Sticks(u[1]) => u[1] \in persistent
  BY <1>1, <1>5 DEF Kept, Sticks
<1>10. ListIn(subscriptionList, messageHandlers, brokerSubs, unheard, use, persistent)
  BY DEF ListInv, use, unheard
<1>11. /\ ListIn(next, messageHandlers, brokerSubs, unheard, loss, persistent)
       /\ ListedIn(loss, persistent) = ListedIn(use, persistent)
  <2>1. /\ Top.i \in AckSlots /\ Top.i \in use[u] /\ use \in UseTypes
        /\ subscriptionList \in ListTypes
        /\ n \in SettledIn(subscriptionList, unheard) /\ subscriptionList[n].topic = u
        /\ LoweredIn(subscriptionList, next, n)
        /\ ~Sticks(u[1]) => /\ subscriptionList[n].count > 1
                            /\ next[n].count = subscriptionList[n].count - 1
    BY <1>1, <1>4, <1>5, <1>8
  <2> HIDE DEF r
  <2> QED
    BY <1>3, <1>9, <1>10, <2>1, ReleaseList
<1>12. \A i \in SubSlots : next[i].topic = subscriptionList[i].topic
                           /\ next[i].free = subscriptionList[i].free
  BY <1>8 DEF LoweredIn
<1>13. \A m \in 1..Len(stack') : CallListed(stack'[m], next, UnheardIn(stack'), loss, persistent)
  <2>1. ListedIn(loss, persistent) \subseteq Heeded
    BY <1>11 DEF Heeded, use
  <2> QED
    BY <1>1, <1>3, <1>6, <1>12, <2>1, DoneCalls DEF use, unheard
<1>14. UnheardIn(stack') = unheard
  BY <1>6, DoneStack DEF unheard
<1> QED
  BY <1>11, <1>13, <1>14 DEF ListInv, next, loss

LEMMA ReleaseStep ==
    ASSUME ShadowTypes, ShadowTypes', ControlInv, ControlInv', TrackInv, ListInv,
           NEW s \in Status, ReleaseTopic(s)
    PROVE  ListInv'
<1> DEFINE n == Find(<< Top.key, s >>)
           r == subscriptionList[n]
<1>1. /\ stack # << >>
      /\ s = "accepted" => Top.pc = "unsubscribe_accepted"
      /\ s = "rejected" => Top.pc = "unsubscribe_rejected"
      /\ UNCHANGED << messageHandlers, brokerSubs, persistent >>
  BY DEF ReleaseTopic, At, mqtt, history
<1>2. n # NoSlot
  BY <1>1, HeldTopic
<1>3. CASE /\ ~r.sticky /\ r.count = 1
           /\ Continue([Top EXCEPT !.pc = WaitPc(s), !.acc = n])
           /\ UNCHANGED records
  BY <1>1, <1>3, WaitList DEF records
<1>4. CASE /\ r.count > 1
           /\ subscriptionList' = [subscriptionList EXCEPT ![n].count = @ - 1]
           /\ TopicDone(s)
  BY <1>1, <1>4, DoneList
<1>5. CASE /\ r.count = 0 \/ (r.count = 1 /\ r.sticky)
           /\ TopicDone(s)
           /\ UNCHANGED subscriptionList
  BY <1>1, <1>5, DoneList
<1> QED
  BY <1>2, <1>3, <1>4, <1>5 DEF ReleaseTopic, WaitPc

\* The last user of a topic has unsubscribed it.
LEMMA UnsubscribeList ==
    ASSUME ShadowTypes, ShadowTypes', ControlInv, ControlInv', TrackInv, ListInv, stack # << >>,
           NEW s \in Status, TopicDone(s), Top.pc = WaitPc(s),
           MqttUnsubscribe(<< Top.key, s >>),
           subscriptionList' = [subscriptionList EXCEPT ![Top.acc].free = TRUE],
           UNCHANGED persistent
    PROVE  ListInv'
<1> DEFINE u == << Top.key, s >>
           use == Use(stack, ackWaitList)
           loss == Use(stack', ackWaitList')
           a == Top.acc
           unheard == UnheardIn(stack)
           settled == SettledIn(subscriptionList, unheard)
           next == subscriptionList'
<1>1. /\ Len(stack) \in 1..Len(stack) /\ Top = stack[Len(stack)]
  BY TopFacts DEF ShadowTypes
<1>2. /\ a \in settled /\ subscriptionList[a].topic = u
      /\ ~Sticks(Top.key) /\ use[u] = { Top.i }
  BY <1>1 DEF ListInv, CallListed, ReleasingIn
<1>3. Top.pc \in Releasing /\ (s = "accepted" => Top.pc = "wait_accepted")
      /\ (s = "rejected" => Top.pc = "wait_rejected")
  BY DEF Releasing, WaitPc, Status
<1>4. Top.i \in AckSlots /\ u \in Topics /\ Leaves(Top.i, u)
  BY <1>3, TopicDoneUses
<1>5. Loses(use, loss, u, Top.i) /\ Top.i \in use[u] /\ u[1] = Top.key
  BY <1>2, <1>4, UseSteps
<1>6. a \in SubSlots /\ subscriptionList \in [SubSlots -> TopicRecords]
  BY <1>2, TypedParts DEF ShadowTypes, SettledIn
<1>7. /\ next[a].free /\ next[a].topic = u
      /\ \A i \in SubSlots : i # a => next[i] = subscriptionList[i]
  <2> DEFINE b == TRUE
  <2>1. next = [subscriptionList EXCEPT ![a].free = b]
    OBVIOUS
  <2>2. b \in BOOLEAN /\ b
    OBVIOUS
  <2> HIDE DEF b, a, next, settled
  <2>3. LET h == [subscriptionList EXCEPT ![a].free = b]
        IN  /\ h[a].free = b /\ h[a].topic = subscriptionList[a].topic
            /\ \A i \in SubSlots : i # a => h[i] = subscriptionList[i]
    BY <1>6, <2>2, FreeWritten
  <2> QED
    BY <1>2, <2>1, <2>2, <2>3
<1>8. /\ RecordedIn(subscriptionList, settled, Heeded) /\ HandledIn(messageHandlers, settled)
      /\ settled \in SUBSET SubSlots
  BY ListParts
<1>9. brokerSubs' = brokerSubs \ { u }
  BY DEF MqttUnsubscribe
<1>10. ASSUME NEW h \in HandlerSlots
       PROVE  messageHandlers'[h] = IF messageHandlers[h] = a THEN NoSlot ELSE messageHandlers[h]
  <2>1. messageHandlers'[h] = IF HandlerTopic(h) = u THEN NoSlot ELSE messageHandlers[h]
    BY DEF MqttUnsubscribe
  <2> HIDE DEF a, settled, u
  <2>2. HandlerTopic(h) = u <=> messageHandlers[h] = a
    <3>1. NoTopic # u /\ a # NoSlot
      BY <1>4, <1>6, Slots, ShadowAssumption DEF Topics, NoTopic
    <3>2. CASE messageHandlers[h] = NoSlot
      BY <3>1, <3>2 DEF HandlerTopic
    <3>3. CASE messageHandlers[h] # NoSlot
      <4>1. messageHandlers[h] \in settled
            /\ HandlerTopic(h) = subscriptionList[messageHandlers[h]].topic
        BY <1>8, <3>3 DEF HandledIn, HandlerTopic
      <4>2. subscriptionList[messageHandlers[h]].topic = subscriptionList[a].topic
               => messageHandlers[h] = a
        BY <1>2, <1>8, <4>1, OneRecord
      <4> QED
        BY <1>2, <4>1, <4>2
    <3> QED
      BY <3>2, <3>3
  <2> QED
    BY <2>1, <2>2
<1>11. ListIn(subscriptionList, messageHandlers, brokerSubs, unheard, use, persistent)
  BY DEF ListInv
<1> HIDE DEF use, loss, u, a, unheard, next
<1>12. /\ ListIn(next, messageHandlers', brokerSubs \ { u }, unheard, loss, persistent)
       /\ ListedIn(loss, persistent) \subseteq ListedIn(use, persistent)
  <2>1. /\ a \in SettledIn(subscriptionList, unheard) /\ subscriptionList[a].topic = u
        /\ ~Sticks(u[1]) /\ LastIn(use, u, Top.i) /\ Loses(use, loss, u, Top.i)
    BY <1>2, <1>5 DEF LastIn
  <2> DEFINE handlers == messageHandlers'
  <2>2. UnheededIn(messageHandlers, handlers, a)
    BY <1>10 DEF UnheededIn
  <2>3. DroppedIn(subscriptionList, next, a)
    BY <1>2, <1>7 DEF DroppedIn
  <2> HIDE DEF handlers
  <2>4. ListIn(next, handlers, brokerSubs \ { u }, unheard, loss, persistent)
    BY <1>11, <2>1, <2>2, <2>3, DropList
  <2>5. ListedIn(loss, persistent) \subseteq ListedIn(use, persistent)
    BY <2>1 DEF ListedIn, Loses
  <2> QED
    BY <2>4, <2>5 DEF handlers
<1>13. \A i \in SubSlots : next[i].topic = subscriptionList[i].topic
  BY <1>2, <1>7
<1>14. \A i \in SubSlots : i # a => next[i].free = subscriptionList[i].free
  BY <1>7
<1>15. \A m \in 1..Len(stack') : CallListed(stack'[m], next, UnheardIn(stack'), loss, persistent)
  <2>1. ListedIn(loss, persistent) \subseteq Heeded
    BY <1>12 DEF Heeded, use
  <2> QED
    BY <1>2, <1>3, <1>5, <1>13, <1>14, <2>1, DoneCalls DEF use, unheard
<1>16. UnheardIn(stack') = unheard
  BY <1>3, DoneStack DEF unheard
<1> QED
  BY <1>9, <1>12, <1>15, <1>16 DEF ListInv, next, loss

LEMMA UnsubscribeStep ==
    ASSUME ShadowTypes, ShadowTypes', ControlInv, ControlInv', TrackInv, ListInv,
           NEW s \in Status, UnsubscribedTopic(s), failures = 0, failures' = 0
    PROVE  ListInv'
<1> DEFINE u == << Top.key, s >>
<1>1. stack # << >> /\ Top.pc = WaitPc(s) /\ TopicDone(s) /\ UNCHANGED persistent
  BY DEF UnsubscribedTopic, At, WaitPc, history
<1>2. Subscribed(u)
  <2> DEFINE settled == SettledIn(subscriptionList, UnheardIn(stack))
  <2>1. Len(stack) \in 1..Len(stack) /\ Top = stack[Len(stack)]
    BY <1>1, TopFacts DEF ShadowTypes
  <2>2. Top.acc \in settled /\ subscriptionList[Top.acc].topic = u
    BY <1>1, <2>1 DEF ListInv, CallListed, ReleasingIn
  <2>3. HandledIn(messageHandlers, settled) /\ settled \in SUBSET SubSlots
    BY ListParts
  <2> HIDE DEF settled, u
  <2>4. PICK h \in HandlerSlots : messageHandlers[h] = Top.acc
    BY <2>2, <2>3 DEF HandledIn
  <2>5. Top.acc # NoSlot
    BY <2>2, <2>3, Slots
  <2> QED
    BY <2>2, <2>4, <2>5 DEF Subscribed, HandlerTopic
<1>3. ~MqttUnsubscribeFails(u)
  BY <1>2 DEF MqttUnsubscribeFails
<1>4. /\ MqttUnsubscribe(u)
      /\ subscriptionList' = [subscriptionList EXCEPT ![Top.acc].free = TRUE]
  BY <1>3 DEF UnsubscribedTopic
<1> QED
  BY <1>1, <1>4, UnsubscribeList

-----------------------------------------------------------------------------
(* The list, as long as no MQTT call has failed *)

\* The MQTT client has room for a topic that is not subscribed.
LEMMA SubscribeRoom ==
    ASSUME ShadowTypes, ControlInv, TrackInv, ListInv, Room, SteadyKeys, SubscribeFailed,
           failures = 0, failures' = 0
    PROVE  FALSE
<1>1. /\ stack # << >> /\ Top.pc \in Subscribing
      /\ FreeHandlers = {} \/ failures' = failures + 1
  BY DEF SubscribeFailed, At, Subscribing, MqttSubscribeFails
<1>2. Top.key \in Keys /\ BegunIn(Top, subscriptionList, Heeded)
  BY <1>1, OnlyCall
<1>3. << Top.key, "rejected" >> \in Topics /\ << Top.key, "rejected" >> \notin Heeded
  BY <1>1, <1>2 DEF Subscribing, BegunIn, Topics, Status
<1>4. FreeHandlers # {}
  BY <1>3, HandlerFree
<1> QED
  BY <1>1, <1>4

LEMMA ApplicationList ==
    ASSUME ShadowTypes, ShadowTypes', ControlInv', BetweenCalls, Room, SteadyKeys, ListInv,
           Application
    PROVE  ListInv'
<1>1. PICK token \in Tokens :
         \/ ActionRefused(token)
         \/ \E key \in Keys : \E sticky \in Stickies[key] :
               \/ ActionShares(token, key, sticky)
               \/ ActionSubscribes(token, key, sticky)
               \/ ActionOutOfRecords(token, key, sticky)
  BY DEF Application
<1>2. CASE ActionRefused(token)
  BY <1>2, StutterList DEF ActionRefused, records, mqtt, history
<1>3. ASSUME NEW key \in Keys, NEW sticky \in Stickies[key],
             \/ ActionShares(token, key, sticky)
             \/ ActionSubscribes(token, key, sticky)
             \/ ActionOutOfRecords(token, key, sticky)
      PROVE  ListInv'
  <2>1. CASE ActionShares(token, key, sticky)
    BY <2>1, ShareStep
  <2>2. CASE ActionSubscribes(token, key, sticky)
    BY <2>2, TakeStep
  <2>3. CASE ActionOutOfRecords(token, key, sticky)
    <3>1. MayAct /\ ~IsSubscriptionPresent(key) /\ Cardinality(FreeSubs) < 2
      BY <2>3 DEF ActionOutOfRecords
    <3>2. stack = << >>
      BY <3>1 DEF MayAct, BetweenCalls
    <3>3. << key, "accepted" >> \notin Heeded /\ << key, "rejected" >> \notin Heeded
      BY <3>1, <3>2, PresentIff
    <3>4. Cardinality(FreeSubs) >= 2
      BY <3>2, <3>3, RecordsFree
    <3>5. Cardinality(FreeSubs) \in Int
      <4>1. IsFiniteSet(FreeSubs)
        BY FiniteSlots, FS_Subset DEF FreeSubs
      <4> QED
        BY <4>1, FS_CardinalityType
    <3> QED
      BY <3>1, <3>4, <3>5
  <2> QED
    BY <1>3, <2>1, <2>2, <2>3
<1> QED
  BY <1>1, <1>2, <1>3

LEMMA LibraryList ==
    ASSUME ShadowTypes, ShadowTypes', ControlInv, ControlInv', TrackInv, Room, SteadyKeys,
           ListInv, failures = 0, failures' = 0, Library
    PROVE  ListInv'
<1>1. CASE SubscribedAccepted
  BY <1>1, AcceptedList
<1>2. CASE SubscribedRejected
  BY <1>2, RejectedList
<1>3. CASE SubscribeFailed
  BY <1>3, SubscribeRoom
<1>4. CASE Cleanup
  <2>1. stack # << >> /\ Top.pc = "cleanup"
    BY <1>4 DEF Cleanup, At
  <2>2. Len(stack) \in 1..Len(stack) /\ Top = stack[Len(stack)]
    BY <2>1, TopFacts DEF ShadowTypes
  <2> QED
    BY <2>1, <2>2 DEF ListInv, CallListed
<1>5. CASE Published
  BY <1>5, PublishList
<1>6. CASE PublishFailed
  BY <1>6 DEF PublishFailed
<1>7. CASE Scan \/ CallbackReturn
  BY <1>7, LookList
<1>8. ASSUME NEW s \in Status, ReleaseTopic(s) \/ UnsubscribedTopic(s)
      PROVE  ListInv'
  BY <1>8, ReleaseStep, UnsubscribeStep
<1> QED
  BY <1>1, <1>2, <1>3, <1>4, <1>5, <1>6, <1>7, <1>8 DEF Library

\* A failure is never forgotten.
LEMMA FailuresGrow ==
    ASSUME ShadowTypes, [Next]_vars, failures' = 0
    PROVE  failures = 0
<1> USE DEF records, mqtt, history
<1>1. failures \in Nat
  BY ShadowAssumption DEF ShadowTypes, Typed, TypeOK
<1>2. failures' = failures \/ failures' = failures + 1
  <2>1. CASE UNCHANGED vars
    BY <2>1 DEF vars
  <2>2. CASE Application
    BY <2>2 DEF Application, ActionRefused, ActionShares, ActionSubscribes, ActionOutOfRecords
  <2>3. CASE \/ SubscribedAccepted \/ SubscribedRejected \/ SubscribeFailed
    BY <2>3 DEF SubscribedAccepted, SubscribedRejected, SubscribeFailed, MqttSubscribe,
       MqttSubscribeFails
  <2>4. CASE Cleanup
    BY <2>4 DEF Cleanup, MqttUnsubscribe, MqttUnsubscribeFails
  <2>5. CASE Published \/ PublishFailed \/ Scan \/ CallbackReturn
    BY <2>5 DEF Published, PublishFailed, Scan, CallbackReturn
  <2>6. ASSUME NEW s \in Status, ReleaseTopic(s)
        PROVE  failures' = failures
    BY <2>6 DEF ReleaseTopic
  <2>7. ASSUME NEW s \in Status, UnsubscribedTopic(s)
        PROVE  failures' = failures \/ failures' = failures + 1
    BY <2>7 DEF UnsubscribedTopic, MqttUnsubscribe, MqttUnsubscribeFails
  <2>8. CASE Service \/ ShadowYield \/ ShadowConnect \/ \E i \in AckSlots : TimerExpires(i)
    BY <2>8 DEF Service, Response, ShadowYield, ShadowConnect, TimerExpires
  <2> QED
    BY <2>1, <2>2, <2>3, <2>4, <2>5, <2>6, <2>7, <2>8 DEF Next, Library
<1> QED
  BY <1>1, <1>2

ListenInv == failures = 0 => ListInv

LEMMA ListNext ==
    ASSUME ShadowTypes, ShadowTypes', ControlInv, ControlInv', TrackInv, BetweenCalls,
           MaxConnects = 0, Room, SteadyKeys, ListenInv, [Next]_vars
    PROVE  ListenInv'
<1> SUFFICES ASSUME failures' = 0
             PROVE  ListInv'
  BY DEF ListenInv
<1>1. failures = 0 /\ ListInv
  BY FailuresGrow DEF ListenInv
<1>2. CASE UNCHANGED vars
  BY <1>1, <1>2, StutterList DEF vars, records, mqtt, history
<1>3. CASE Application
  BY <1>1, <1>3, ApplicationList
<1>4. CASE Library
  BY <1>1, <1>4, LibraryList
<1>5. CASE Service \/ ShadowYield
  BY <1>1, <1>5, ResponseList DEF Service
<1>6. CASE ShadowConnect
  <2>1. connects < MaxConnects
    BY <1>6, Zenon DEF ShadowConnect
  <2>2. connects \in 0..MaxConnects
    BY DEF ShadowTypes, Typed, TypeOK
  <2> QED
    BY <2>1, <2>2
<1>7. ASSUME NEW i \in AckSlots, TimerExpires(i)
      PROVE  ListInv'
  BY <1>1, <1>7, StutterList DEF TimerExpires, records, mqtt, history
<1> QED
  BY <1>2, <1>3, <1>4, <1>5, <1>6, <1>7 DEF Next

LEMMA ListInit == Init => ListInv
<1> SUFFICES ASSUME Init
             PROVE  ListInv
  OBVIOUS
<1> DEFINE use == Use(stack, ackWaitList)
           settled == SettledIn(subscriptionList, UnheardIn(stack))
<1>1. Len(stack) = 0 /\ persistent = {} /\ brokerSubs = {}
  BY DEF Init
<1>2. \A i \in AckSlots : ackWaitList[i].free
  BY DEF Init
<1>3. \A n \in SubSlots : subscriptionList[n].free
  BY DEF Init
<1>4. \A h \in HandlerSlots : messageHandlers[h] = NoSlot
  BY DEF Init
<1>5. settled = {}
  BY <1>3 DEF SettledIn
<1>6. \A t \in Topics : use[t] = {}
  <2>1. \A i \in AckSlots : \A t : ~UsesIn(stack, ackWaitList, i, t)
    BY <1>1, <1>2 DEF UsesIn
  <2> QED
    BY <2>1, UseFacts DEF UsersIn
<1> HIDE DEF use
<1>7. ListedIn(use, persistent) = {}
  BY <1>1, <1>6 DEF ListedIn
<1> HIDE DEF settled
<1>8. /\ RecordedIn(subscriptionList, settled, ListedIn(use, persistent))
      /\ CountedIn(subscriptionList, settled, use)
  BY <1>5, <1>7 DEF RecordedIn, CountedIn
<1>9. HandledIn(messageHandlers, settled)
  BY <1>4, <1>5 DEF HandledIn
<1>10. \A n \in 1..Len(stack) : FALSE
  BY <1>1
<1> QED
  BY <1>1, <1>7, <1>8, <1>9, <1>10 DEF ListInv, ListIn, settled, use

\* The handlers are those of the topics that should be subscribed.
LEMMA HandlersHeeded ==
    ASSUME ShadowTypes, ListInv
    PROVE  /\ { HandlerTopic(h) : h \in { g \in HandlerSlots : messageHandlers[g] # NoSlot } }
                 = Heeded
           /\ Heard = Heeded
<1> DEFINE settled == SettledIn(subscriptionList, UnheardIn(stack))
           heard == { HandlerTopic(h) : h \in { g \in HandlerSlots : messageHandlers[g] # NoSlot } }
<1>1. /\ RecordedIn(subscriptionList, settled, Heeded) /\ HandledIn(messageHandlers, settled)
      /\ brokerSubs = Heeded /\ settled \in SUBSET SubSlots
  BY ListParts
<1> HIDE DEF settled
<1>2. ASSUME NEW h \in HandlerSlots, messageHandlers[h] # NoSlot
      PROVE  HandlerTopic(h) \in Heeded
  <2>1. messageHandlers[h] \in settled
    BY <1>1, <1>2 DEF HandledIn
  <2> QED
    BY <1>1, <1>2, <2>1 DEF RecordedIn, HandlerTopic
<1>3. ASSUME NEW t \in Heeded
      PROVE  \E h \in HandlerSlots : messageHandlers[h] # NoSlot /\ HandlerTopic(h) = t
  <2>1. PICK n \in settled : subscriptionList[n].topic = t
    BY <1>1 DEF RecordedIn
  <2>2. PICK h \in HandlerSlots : messageHandlers[h] = n
    BY <1>1 DEF HandledIn
  <2>3. n # NoSlot
    BY <1>1, Slots
  <2> QED
    BY <2>1, <2>2, <2>3 DEF HandlerTopic
<1>4. heard = Heeded
  BY <1>2, <1>3
<1>5. Heard = Heeded
  BY <1>1, <1>3 DEF Heard
<1> QED
  BY <1>4, <1>5

LEMMA ListExact ==
    ASSUME ShadowTypes, ControlInv, ListInv
    PROVE  ListensExactly
<1>1. persistent \subseteq Keys
  BY DEF ShadowTypes, Typed, TypeOK
<1>2. persistent \X Status \subseteq Heard
  <2>1. \A t \in persistent \X Status : t \in Topics /\ t[1] \in persistent
    BY <1>1 DEF Topics
  <2>2. persistent \X Status \subseteq Heeded
    BY <2>1 DEF Heeded, ListedIn
  <2> QED
    BY <2>2, HandlersHeeded
<1>3. ASSUME stack = << >>
      PROVE  /\ Heard = Wanted /\ brokerSubs = Wanted
             /\ { subscriptionList[i].topic : i \in { n \in SubSlots :
                    ~subscriptionList[n].free } } = Wanted
             /\ { HandlerTopic(h) : h \in { g \in HandlerSlots :
                    messageHandlers[g] # NoSlot } } = Wanted
  <2> DEFINE settled == SettledIn(subscriptionList, UnheardIn(stack))
             waiting == { ackWaitList[i].key : i \in { n \in AckSlots : ~ackWaitList[n].free } }
  <2>1. Heeded = Wanted
    <3>1. \A i \in AckSlots : ~ackWaitList[i].free => ackWaitList[i].key \in Keys
      BY DEF ControlInv, EntriesFit, Live
    <3>2. waiting \subseteq Keys
      BY <3>1
    <3>3. Wanted = (waiting \cup persistent) \X Status
      BY DEF Wanted
    <3>4. \A t \in Topics : Use(stack, ackWaitList)[t] # {} <=> t[1] \in waiting
      <4>1. \A t \in Topics : Use(stack, ackWaitList)[t]
               = { i \in AckSlots : ~ackWaitList[i].free /\ ackWaitList[i].key = t[1] }
        BY <1>3, IdleList
      <4> QED
        BY <4>1
    <3> HIDE DEF waiting
    <3>5. \A t \in Topics : t \in Heeded <=> t[1] \in waiting \cup persistent
      BY <3>4 DEF Heeded, ListedIn
    <3>6. \A t \in Topics : t \in Wanted <=> t[1] \in waiting \cup persistent
      BY <3>3 DEF Topics
    <3>7. Heeded \subseteq Topics /\ Wanted \subseteq Topics
      BY <1>1, <3>2, <3>3 DEF Heeded, ListedIn, Topics
    <3> QED
      BY <3>5, <3>6, <3>7
  <2>2. /\ RecordedIn(subscriptionList, settled, Heeded) /\ brokerSubs = Heeded
        /\ settled \in SUBSET SubSlots
    BY ListParts
  <2>3. \A n \in SubSlots : n \in settled <=> ~subscriptionList[n].free
    BY <1>3, IdleList
  <2> HIDE DEF settled
  <2>4. { subscriptionList[i].topic : i \in { n \in SubSlots : ~subscriptionList[n].free } }
           = Heeded
    BY <2>2, <2>3 DEF RecordedIn
  <2> QED
    BY <2>1, <2>2, <2>4, HandlersHeeded
<1> QED
  BY <1>2, <1>3 DEF ListensExactly

\* If actions are started between calls only, the application connects once, each
\* key is used with a persistent subscription always or never, and there are a
\* record and a handler for every response topic (MAX_TOPICS_AT_ANY_GIVEN_TIME and
\* the MQTT client's table are large enough for the keys in use), then the list of
\* subscriptions, the MQTT client's handlers and the broker agree: as long as no
\* MQTT call has failed the topics of persistent keys are heard at any time, and
\* between calls exactly the wanted topics are subscribed.  It holds for all sizes
\* of the lists, with up to 255 waiting actions since the count is a byte, and
\* however responses and timeouts fall into the waits of the other calls.
THEOREM ShadowListensExactly ==
    ASSUME BetweenCalls, MaxConnects = 0, Room, SteadyKeys
    PROVE  Spec => []ListensExactly
<1> DEFINE Inv == ShadowTypes /\ OnceInv /\ TrackInv /\ ControlInv /\ ListenInv
<1>1. Init => Inv
  BY OnceInit, TrackInit, ControlInit, ListInit, TypedInit DEF ShadowTypes, OnceInv, ListenInv
<1>2. Inv /\ [Next]_vars => Inv'
  <2> SUFFICES ASSUME Inv, [Next]_vars
               PROVE  Inv'
    OBVIOUS
  <2>1. CallbacksAct = FALSE /\ \A k \in Keys : Stickies[k] # BOOLEAN
    BY DEF BetweenCalls, SteadyKeys
  <2>2. ShadowTypes' /\ OnceInv' /\ TrackInv'
    BY <2>1, TypesNext, OnceNext, TrackNext
  <2>3. ControlInv'
    BY <2>1, ControlNext
  <2>4. ListenInv'
    BY <2>2, <2>3, ListNext
  <2> QED
    BY <2>2, <2>3, <2>4
<1>3. Inv => ListensExactly
  BY ListExact DEF ListenInv, ListensExactly
<1> QED
  BY <1>1, <1>2, <1>3, PTL DEF Spec

=============================================================================
