--------------------------- MODULE SessionProofs ---------------------------
(***************************************************************************)
(* Theorems about MqttSession, for any threads, any calls, any nesting.    *)
(***************************************************************************)
EXTENDS MqttSession, SequenceTheorems, TLAPS

-----------------------------------------------------------------------------
(* Stacks *)

\* Moving the innermost call on keeps the other calls and what it saved.
LEMMA WithTopFacts ==
    ASSUME NEW s \in Seq(Frames), Len(s) > 0,
           NEW rc \in Rcs, NEW pc \in PcsOf(s[Len(s)].op)
    PROVE  /\ WithTop(s, pc, rc) \in Seq(Frames)
           /\ Len(WithTop(s, pc, rc)) = Len(s)
           /\ \A i \in 1..(Len(s) - 1) : WithTop(s, pc, rc)[i] = s[i]
           /\ WithTop(s, pc, rc)[Len(s)].op = s[Len(s)].op
           /\ WithTop(s, pc, rc)[Len(s)].pc = pc
           /\ WithTop(s, pc, rc)[Len(s)].saved = s[Len(s)].saved
           /\ WithTop(s, pc, rc)[Len(s)].rc = rc
<1> DEFINE n == Len(s)
           f == [op |-> s[n].op, pc |-> pc, saved |-> s[n].saved, rc |-> rc]
<1>1. n \in Nat /\ n \in 1..n /\ s[n] \in Frames
  OBVIOUS
<1>2. s[n].op \in Ops /\ s[n].saved \in ClientStates
  BY <1>1 DEF Frames
<1>3. pc \in Pcs
  BY <1>2 DEF Pcs
<1>4. f \in Frames
  BY <1>2, <1>3 DEF Frames
<1>5. WithTop(s, pc, rc) = [s EXCEPT ![n] = f]
  BY <1>1 DEF WithTop
<1> HIDE DEF f
<1>6. [s EXCEPT ![n] = f] \in Seq(Frames) /\ Len([s EXCEPT ![n] = f]) = n
  BY <1>1, <1>4
<1>7. \A i \in 1..(n - 1) : [s EXCEPT ![n] = f][i] = s[i]
  BY <1>1
<1>8. [s EXCEPT ![n] = f][n] = f
  BY <1>1
<1> QED
  BY <1>5, <1>6, <1>7, <1>8 DEF f

\* A call adds one frame and keeps the ones below.
LEMMA AppendFacts ==
    ASSUME NEW s \in Seq(Frames), NEW f \in Frames
    PROVE  /\ Append(s, f) \in Seq(Frames)
           /\ Len(Append(s, f)) = Len(s) + 1
           /\ \A i \in 1..Len(s) : Append(s, f)[i] = s[i]
           /\ Append(s, f)[Len(s) + 1] = f
OBVIOUS

\* A return removes the innermost frame and keeps the ones below.
LEMMA PopFacts ==
    ASSUME NEW s \in Seq(Frames), Len(s) > 0
    PROVE  /\ Pop(s) \in Seq(Frames)
           /\ Len(Pop(s)) = Len(s) - 1
           /\ \A i \in 1..(Len(s) - 1) : Pop(s)[i] = s[i]
<1>1. Len(s) - 1 \in Nat
  OBVIOUS
<1>2. Pop(s) \in [1..(Len(s) - 1) -> Frames] /\ DOMAIN Pop(s) = 1..(Len(s) - 1)
  BY DEF Pop
<1>3. \A i \in 1..(Len(s) - 1) : Pop(s)[i] = s[i]
  BY DEF Pop
<1>4. Pop(s) \in Seq(Frames)
  BY <1>1, <1>2, SeqDef
<1>5. Len(Pop(s)) = Len(s) - 1
  BY <1>1, <1>2, <1>4, LenProperties
<1> QED
  BY <1>3, <1>4, <1>5

\* A return gives its result to the caller and changes nothing else below.
LEMMA ReturnedFacts ==
    ASSUME NEW s \in Seq(Frames), Len(s) > 0, NEW rc \in Rcs
    PROVE  /\ Returned(s, rc) \in Seq(Frames)
           /\ Len(Returned(s, rc)) = Len(s) - 1
           /\ \A i \in 1..(Len(s) - 1) :
                 /\ Returned(s, rc)[i].op = s[i].op
                 /\ Returned(s, rc)[i].pc = s[i].pc
                 /\ Returned(s, rc)[i].saved = s[i].saved
                 /\ \/ Returned(s, rc)[i].rc = s[i].rc
                    \/ /\ i = Len(s) - 1 /\ Returned(s, rc)[i].rc = rc
                       /\ s[i].pc \notin {"callback", "handler"}
<1> DEFINE rest == Pop(s)
           m == Len(rest)
<1>1. /\ rest \in Seq(Frames) /\ m = Len(s) - 1
      /\ \A i \in 1..(Len(s) - 1) : rest[i] = s[i]
  BY PopFacts
<1>2. CASE Returned(s, rc) = rest
  BY <1>1, <1>2
<1>3. CASE /\ m > 0 /\ rest[m].pc \notin {"callback", "handler"}
           /\ Returned(s, rc) = WithTop(rest, rest[m].pc, rc)
  <2>1. rest[m] \in Frames
    BY <1>1, <1>3
  <2>2. rest[m].pc \in PcsOf(rest[m].op)
    BY <2>1 DEF Frames
  <2> HIDE DEF rest
  <2>3. /\ WithTop(rest, rest[m].pc, rc) \in Seq(Frames)
        /\ Len(WithTop(rest, rest[m].pc, rc)) = m
        /\ \A i \in 1..(m - 1) : WithTop(rest, rest[m].pc, rc)[i] = rest[i]
        /\ WithTop(rest, rest[m].pc, rc)[m].op = rest[m].op
        /\ WithTop(rest, rest[m].pc, rc)[m].pc = rest[m].pc
        /\ WithTop(rest, rest[m].pc, rc)[m].saved = rest[m].saved
        /\ WithTop(rest, rest[m].pc, rc)[m].rc = rc
    BY <1>1, <1>3, <2>2, WithTopFacts
  <2> QED
    BY <1>1, <1>3, <2>3
<1>4. \/ Returned(s, rc) = rest
      \/ /\ m # 0 /\ rest[m].pc \notin {"callback", "handler"}
         /\ Returned(s, rc) = WithTop(rest, rest[m].pc, rc)
  BY Zenon DEF Returned
<1>5. m # 0 => m > 0
  BY <1>1
<1> QED
  BY <1>2, <1>3, <1>4, <1>5, Zenon

-----------------------------------------------------------------------------
(* The three ways a step changes the stack of the thread that takes it *)

\* A call that goes on keeps the type of the stacks.
LEMMA GotoType ==
    ASSUME TypeOK, NEW t \in Threads, Depth(t) > 0,
           NEW rc \in Rcs, NEW pc \in PcsOf(Top(t).op), Goto(t, pc, rc)
    PROVE  stack' \in [Threads -> Seq(Frames)]
<1>1. stack[t] \in Seq(Frames)
  BY DEF TypeOK
<1>2. WithTop(stack[t], pc, rc) \in Seq(Frames)
  BY <1>1, WithTopFacts DEF Depth, Top
<1> QED
  BY <1>2 DEF TypeOK, Goto

\* So does a call the application makes,
LEMMA PushType ==
    ASSUME TypeOK, NEW t \in Threads, NEW f \in Frames, Push(t, f)
    PROVE  stack' \in [Threads -> Seq(Frames)]
BY AppendFacts DEF TypeOK, Push

\* a call made by another call,
LEMMA InvokeType ==
    ASSUME TypeOK, NEW t \in Threads, Depth(t) > 0,
           NEW pc \in PcsOf(Top(t).op), NEW f \in Frames, Invoke(t, pc, f)
    PROVE  stack' \in [Threads -> Seq(Frames)]
<1>1. stack[t] \in Seq(Frames) /\ "SUCCESS" \in Rcs
  BY DEF TypeOK, Rcs
<1>2. WithTop(stack[t], pc, "SUCCESS") \in Seq(Frames)
  BY <1>1, WithTopFacts DEF Depth, Top
<1>3. Append(WithTop(stack[t], pc, "SUCCESS"), f) \in Seq(Frames)
  BY <1>2, AppendFacts
<1> QED
  BY <1>3 DEF TypeOK, Invoke

\* and a return.
LEMMA ReturnType ==
    ASSUME TypeOK, NEW t \in Threads, Depth(t) > 0, NEW rc \in Rcs, Return(t, rc)
    PROVE  stack' \in [Threads -> Seq(Frames)]
<1>1. stack[t] \in Seq(Frames)
  BY DEF TypeOK
<1>2. Returned(stack[t], rc) \in Seq(Frames)
  BY <1>1, ReturnedFacts DEF Depth
<1> QED
  BY <1>2 DEF TypeOK, Return

-----------------------------------------------------------------------------
(* Types *)

\* A new call is a frame.
LEMMA FrameType ==
    ASSUME NEW op \in Ops, NEW pc \in PcsOf(op), NEW saved \in ClientStates
    PROVE  Frame(op, pc, saved) \in Frames
BY DEF Frame, Frames, Pcs, Rcs

\* The innermost frame of a thread that is in a call.
LEMMA TopType ==
    ASSUME TypeOK, NEW t \in Threads, Depth(t) > 0
    PROVE  /\ Top(t).op \in Ops
           /\ Top(t).pc \in PcsOf(Top(t).op)
           /\ Top(t).saved \in ClientStates
           /\ Top(t).rc \in Rcs
<1>1. stack[t] \in Seq(Frames) /\ Depth(t) \in 1..Len(stack[t])
  BY DEF TypeOK, Depth
<1>2. Top(t) \in Frames
  BY <1>1, ElementOfSeq DEF Top
<1> QED
  BY <1>2 DEF Frames

\* The state of an operation is a client state.
LEMMA BusyType ==
    /\ \A op \in Requests : Busy(op) \in ClientStates
    /\ Busy("deliver") \in ClientStates /\ Busy("yield") \in ClientStates
BY DEF Busy, Requests, ClientStates

\* Each step of a thread keeps the types.
LEMMA AppCallType ==
    ASSUME TypeOK, NEW t \in Threads, AppCall(t)
    PROVE  TypeOK'
<1> USE FrameType, PushType DEF PcsOf, Ops, Requests, ClientStates
<1>1. CASE CallConnect(t)
  BY <1>1 DEF CallConnect, TypeOK
<1>2. CASE CallDisconnect(t)
  BY <1>2 DEF CallDisconnect, TypeOK
<1>3. CASE CallAttemptReconnect(t)
  BY <1>3 DEF CallAttemptReconnect, TypeOK
<1>4. CASE CallPublish(t)
  BY <1>4 DEF CallPublish, TypeOK
<1>5. CASE CallSubscribe(t)
  BY <1>5 DEF CallSubscribe, TypeOK
<1>6. CASE CallUnsubscribe(t)
  BY <1>6 DEF CallUnsubscribe, TypeOK
<1>7. CASE CallResubscribe(t)
  BY <1>7 DEF CallResubscribe, TypeOK
<1>8. CASE CallYield(t)
  BY <1>8 DEF CallYield, TypeOK
<1>9. CASE SetAutoReconnect(t)
  BY <1>9 DEF SetAutoReconnect, TypeOK
<1> QED
  BY <1>1, <1>2, <1>3, <1>4, <1>5, <1>6, <1>7, <1>8, <1>9 DEF AppCall

\* The positions of each kind of call.
LEMMA PcsFacts ==
    /\ PcsOf("connect") = { "cas", "tls_connect", "connack", "ok", "failed" }
    /\ PcsOf("disconnect") = { "check", "cas", "send", "done", "undo" }
    /\ \A op \in Requests :
          PcsOf(op) = { "cas", "rollback", "send", "wait", "restore" }
    /\ PcsOf("attempt_reconnect") = { "connect", "after_connect", "pending",
                                      "resubscribe", "after_resubscribe" }
    /\ PcsOf("deliver") = { "cas", "callback" }
    /\ PcsOf("yield") = { "cas", "loop", "reconnect", "reconnected", "read",
                          "delivered", "keep_alive", "disconnect",
                          "after_disconnect", "force", "handler", "lost",
                          "again", "exit" }
BY DEF PcsOf, Requests

\* The steps of connect,
LEMMA ConnectStepType ==
    ASSUME TypeOK, NEW t \in Threads, ConnectStep(t)
    PROVE  TypeOK'
<1> USE GotoType, ReturnType, TopType, PcsFacts DEF Rcs, At
<1>1. CASE ConnectStart(t)
  <2>1. stack' \in [Threads -> Seq(Frames)]
    BY <1>1 DEF ConnectStart
  <2> QED
    BY <1>1, <2>1 DEF ConnectStart, SetClientState, TypeOK, ClientStates
<1>2. CASE ConnectTls(t)
  <2>1. stack' \in [Threads -> Seq(Frames)]
    BY <1>2 DEF ConnectTls
  <2> QED
    BY <1>2, <2>1 DEF ConnectTls, TypeOK
<1>3. CASE ConnectAck(t)
  <2>1. stack' \in [Threads -> Seq(Frames)]
    BY <1>3 DEF ConnectAck
  <2> QED
    BY <1>3, <2>1 DEF ConnectAck, TypeOK
<1>4. CASE ConnectDone(t)
  <2>1. stack' \in [Threads -> Seq(Frames)]
    BY <1>4 DEF ConnectDone
  <2> QED
    BY <1>4, <2>1 DEF ConnectDone, SetClientState, TypeOK, ClientStates
<1>5. CASE ConnectFailed(t)
  <2>1. stack' \in [Threads -> Seq(Frames)]
    BY <1>5 DEF ConnectFailed
  <2> QED
    BY <1>5, <2>1 DEF ConnectFailed, SetClientState, TypeOK, ClientStates
<1> QED
  BY <1>1, <1>2, <1>3, <1>4, <1>5 DEF ConnectStep

\* of disconnect,
LEMMA DisconnectStepType ==
    ASSUME TypeOK, NEW t \in Threads, DisconnectStep(t)
    PROVE  TypeOK'
<1> USE GotoType, ReturnType, TopType, PcsFacts DEF Rcs, At
<1>1. CASE DisconnectCheck(t)
  <2>1. stack' \in [Threads -> Seq(Frames)]
    BY <1>1 DEF DisconnectCheck
  <2> QED
    BY <1>1, <2>1 DEF DisconnectCheck, TypeOK
<1>2. CASE DisconnectStart(t)
  <2>1. stack' \in [Threads -> Seq(Frames)]
    BY <1>2 DEF DisconnectStart
  <2> QED
    BY <1>2, <2>1 DEF DisconnectStart, TypeOK, SetClientState, ClientStates
<1>3. CASE DisconnectSend(t)
  <2>1. stack' \in [Threads -> Seq(Frames)]
    BY <1>3 DEF DisconnectSend
  <2> QED
    BY <1>3, <2>1 DEF DisconnectSend, TypeOK
<1>4. CASE DisconnectDone(t)
  <2>1. stack' \in [Threads -> Seq(Frames)]
    BY <1>4 DEF DisconnectDone
  <2> QED
    BY <1>4, <2>1 DEF DisconnectDone, TypeOK, ClientStates
<1>5. CASE DisconnectUndo(t)
  <2>1. stack' \in [Threads -> Seq(Frames)]
    BY <1>5 DEF DisconnectUndo
  <2> QED
    BY <1>5, <2>1 DEF DisconnectUndo, TypeOK
<1> QED
  BY <1>1, <1>2, <1>3, <1>4, <1>5 DEF DisconnectStep

\* of the requests,
LEMMA RequestStepType ==
    ASSUME TypeOK, NEW t \in Threads, RequestStep(t)
    PROVE  TypeOK'
<1> USE GotoType, ReturnType, InvokeType, TopType, PcsFacts DEF Rcs, At
<1>1. CASE RequestStart(t)
  <2>1. stack' \in [Threads -> Seq(Frames)]
    BY <1>1 DEF RequestStart, Requests
  <2> QED
    BY <1>1, <2>1, BusyType DEF RequestStart, TypeOK, SetClientState, ClientStates
<1>2. CASE UnsubscribeRollback(t)
  <2>1. stack' \in [Threads -> Seq(Frames)]
    BY <1>2 DEF UnsubscribeRollback, RestoreRc, Requests
  <2> QED
    BY <1>2, <2>1, BusyType DEF UnsubscribeRollback, TypeOK, SetClientState,
       ClientStates, Requests
<1>3. CASE RequestSend(t)
  <2>1. stack' \in [Threads -> Seq(Frames)]
    BY <1>3 DEF RequestSend, Requests
  <2> QED
    BY <1>3, <2>1 DEF RequestSend, TypeOK
<1>4. CASE RequestWait(t)
  <2>1. /\ Depth(t) > 0 /\ clientState \in ClientStates /\ "deliver" \in Ops
        /\ PcsOf(Top(t).op) = { "cas", "rollback", "send", "wait", "restore" }
    BY <1>4 DEF RequestWait, TypeOK, Ops
  <2>2. ASSUME NEW pc \in { "send", "restore" }, NEW rc \in Rcs, Goto(t, pc, rc)
        PROVE  stack' \in [Threads -> Seq(Frames)]
    BY <2>1, <2>2
  <2>3. ASSUME Invoke(t, "wait", Frame("deliver", "cas", clientState))
        PROVE  stack' \in [Threads -> Seq(Frames)]
    BY <2>1, <2>3, FrameType
  <2>4. stack' \in [Threads -> Seq(Frames)]
    BY <1>4, <2>2, <2>3 DEF RequestWait
  <2> QED
    BY <1>4, <2>4 DEF RequestWait, TypeOK
<1>5. CASE RequestRestore(t)
  <2>1. stack' \in [Threads -> Seq(Frames)]
    BY <1>5 DEF RequestRestore, RestoreRc, Requests
  <2> QED
    BY <1>5, <2>1, BusyType DEF RequestRestore, TypeOK, SetClientState, ClientStates
<1> QED
  BY <1>1, <1>2, <1>3, <1>4, <1>5 DEF RequestStep

\* of attempt_reconnect,
LEMMA AttemptStepType ==
    ASSUME TypeOK, NEW t \in Threads, AttemptStep(t)
    PROVE  TypeOK'
<1> USE GotoType, ReturnType, InvokeType, TopType, PcsFacts DEF Rcs, At
<1>1. CASE AttemptConnect(t)
  <2>1. stack' \in [Threads -> Seq(Frames)]
    BY <1>1, FrameType DEF AttemptConnect, TypeOK, Ops, Requests
  <2> QED
    BY <1>1, <2>1 DEF AttemptConnect, TypeOK
<1>2. CASE AttemptAfterConnect(t)
  <2>1. stack' \in [Threads -> Seq(Frames)]
    BY <1>2 DEF AttemptAfterConnect
  <2> QED
    BY <1>2, <2>1 DEF AttemptAfterConnect, TypeOK
<1>3. CASE AttemptPending(t)
  <2>1. stack' \in [Threads -> Seq(Frames)]
    BY <1>3 DEF AttemptPending
  <2> QED
    BY <1>3, <2>1 DEF AttemptPending, TypeOK, SetClientState, ClientStates
<1>4. CASE AttemptResubscribe(t)
  <2>1. stack' \in [Threads -> Seq(Frames)]
    BY <1>4, FrameType DEF AttemptResubscribe, TypeOK, Ops, Requests
  <2> QED
    BY <1>4, <2>1 DEF AttemptResubscribe, TypeOK
<1>5. CASE AttemptAfterResubscribe(t)
  <2>1. stack' \in [Threads -> Seq(Frames)]
    BY <1>5 DEF AttemptAfterResubscribe
  <2> QED
    BY <1>5, <2>1 DEF AttemptAfterResubscribe, TypeOK
<1> QED
  BY <1>1, <1>2, <1>3, <1>4, <1>5 DEF AttemptStep

\* of a delivery
LEMMA DeliverStepType ==
    ASSUME TypeOK, NEW t \in Threads, DeliverStep(t)
    PROVE  TypeOK'
<1> USE GotoType, ReturnType, TopType, PcsFacts DEF Rcs, At
<1>1. CASE DeliverStart(t)
  <2>1. stack' \in [Threads -> Seq(Frames)]
    BY <1>1 DEF DeliverStart
  <2> QED
    BY <1>1, <2>1, BusyType DEF DeliverStart, TypeOK, SetClientState, ClientStates
<1>2. CASE DeliverReturn(t)
  <2>1. stack' \in [Threads -> Seq(Frames)]
    BY <1>2 DEF DeliverReturn, RestoreRc
  <2> QED
    BY <1>2, <2>1, BusyType DEF DeliverReturn, TypeOK, SetClientState, ClientStates
<1> QED
  BY <1>1, <1>2 DEF DeliverStep

\* and of yield keep the types,
LEMMA YieldStepType ==
    ASSUME TypeOK, NEW t \in Threads, YieldStep(t)
    PROVE  TypeOK'
<1> USE GotoType, ReturnType, InvokeType, TopType, PcsFacts DEF Rcs, At
<1>1. CASE YieldStart(t)
  <2>1. stack' \in [Threads -> Seq(Frames)]
    BY <1>1 DEF YieldStart
  <2> QED
    BY <1>1, <2>1, BusyType DEF YieldStart, TypeOK, SetClientState, ClientStates
<1>2. CASE YieldLoop(t)
  <2>1. stack' \in [Threads -> Seq(Frames)]
    BY <1>2 DEF YieldLoop
  <2> QED
    BY <1>2, <2>1 DEF YieldLoop, TypeOK
<1>3. CASE YieldReconnect(t)
  <2>1. stack' \in [Threads -> Seq(Frames)]
    <3>1. Frame("attempt_reconnect", "connect", "CONNECTED_IDLE") \in Frames
      BY FrameType DEF Ops, ClientStates
    <3> QED
      BY <1>3, <3>1 DEF YieldReconnect
  <2> QED
    BY <1>3, <2>1 DEF YieldReconnect, TypeOK
<1>4. CASE YieldReconnected(t)
  <2>1. stack' \in [Threads -> Seq(Frames)]
    BY <1>4 DEF YieldReconnected
  <2> QED
    BY <1>4, <2>1, BusyType DEF YieldReconnected, TypeOK, SetClientState, ClientStates
<1>5. CASE YieldRead(t)
  <2>1. stack' \in [Threads -> Seq(Frames)]
    BY <1>5, FrameType DEF YieldRead, TypeOK, Ops, Requests
  <2> QED
    BY <1>5, <2>1 DEF YieldRead, TypeOK
<1>6. CASE YieldDelivered(t)
  <2>1. stack' \in [Threads -> Seq(Frames)]
    BY <1>6 DEF YieldDelivered
  <2> QED
    BY <1>6, <2>1 DEF YieldDelivered, TypeOK
<1>7. CASE KeepAlive(t)
  <2>1. stack' \in [Threads -> Seq(Frames)]
    BY <1>7 DEF KeepAlive
  <2> QED
    BY <1>7, <2>1 DEF KeepAlive, TypeOK
<1>8. CASE HandleDisconnect(t)
  <2>1. stack' \in [Threads -> Seq(Frames)]
    BY <1>8, FrameType DEF HandleDisconnect, TypeOK, Ops, Requests
  <2> QED
    BY <1>8, <2>1 DEF HandleDisconnect, TypeOK
<1>9. CASE HandleDisconnectResult(t)
  <2>1. stack' \in [Threads -> Seq(Frames)]
    BY <1>9 DEF HandleDisconnectResult
  <2> QED
    BY <1>9, <2>1 DEF HandleDisconnectResult, TypeOK, ClientStates
<1>10. CASE ForceClientDisconnect(t)
  <2>1. stack' \in [Threads -> Seq(Frames)]
    BY <1>10 DEF ForceClientDisconnect
  <2> QED
    BY <1>10, <2>1 DEF ForceClientDisconnect, TypeOK
<1>11. CASE DisconnectHandlerReturn(t)
  <2>1. stack' \in [Threads -> Seq(Frames)]
    BY <1>11 DEF DisconnectHandlerReturn
  <2> QED
    BY <1>11, <2>1 DEF DisconnectHandlerReturn, TypeOK, ClientStates
<1>12. CASE YieldLost(t)
  <2>1. stack' \in [Threads -> Seq(Frames)]
    BY <1>12 DEF YieldLost
  <2> QED
    BY <1>12, <2>1 DEF YieldLost, TypeOK, SetClientState, ClientStates
<1>13. CASE YieldAgain(t)
  <2>1. stack' \in [Threads -> Seq(Frames)]
    BY <1>13 DEF YieldAgain
  <2> QED
    BY <1>13, <2>1 DEF YieldAgain, TypeOK
<1>14. CASE YieldExit(t)
  <2>1. stack' \in [Threads -> Seq(Frames)]
    BY <1>14 DEF YieldExit, RestoreRc
  <2> QED
    BY <1>14, <2>1, BusyType DEF YieldExit, TypeOK, SetClientState, ClientStates
<1> QED
  BY <1>1, <1>2, <1>3, <1>4, <1>5, <1>6, <1>7, <1>8, <1>9, <1>10,
     <1>11, <1>12, <1>13, <1>14 DEF YieldStep

\* and these are all the steps.
LEMMA StepType ==
    ASSUME TypeOK, [Next]_vars
    PROVE  TypeOK'
<1>1. CASE UNCHANGED vars
  BY <1>1 DEF TypeOK, vars
<1>2. ASSUME NEW t \in Threads, ThreadStep(t)
      PROVE  TypeOK'
  BY <1>2, AppCallType, ConnectStepType, DisconnectStepType, RequestStepType,
     AttemptStepType, DeliverStepType, YieldStepType DEF ThreadStep
<1> QED
  BY <1>1, <1>2 DEF Next

\* Whatever the threads call and however deep handlers call back, the state
\* and the call stacks stay within their types: no function resumes at a
\* position, or passes on a return code, that it does not have.
THEOREM TypeCorrect == Spec => []TypeOK
<1>1. Init => TypeOK
  <2> SUFFICES ASSUME Init PROVE TypeOK
    OBVIOUS
  <2>1. stack \in [Threads -> Seq(Frames)]
    BY DEF Init
  <2>2. autoReconnect \in BOOLEAN
    BY SessionAssumption DEF Init
  <2> QED
    BY <2>1, <2>2 DEF Init, TypeOK, ClientStates
<1>2. TypeOK /\ [Next]_vars => TypeOK'
  BY StepType
<1> QED
  BY <1>1, <1>2, PTL DEF Spec

-----------------------------------------------------------------------------
(* The discipline of the stack of one thread *)

Sound(s, state) == Disciplined(s, state) /\ LostReported(s, state)

\* The innermost call goes on and may change the state to one of its own.
LEMMA GotoSound ==
    ASSUME NEW s \in Seq(Frames), Len(s) > 0,
           NEW state, Sound(s, state), NEW new,
           NEW pc \in PcsOf(s[Len(s)].op), NEW rc \in Rcs,
           IF pc \in {"check", "cas"} THEN new = s[Len(s)].saved
           ELSE new \in Owned(s[Len(s)]),
           rc \in LostRcs \/ pc = "lost" =>
              s[Len(s)].op = "yield" /\ pc # "handler" /\ new \in Quiescent
    PROVE  Sound(WithTop(s, pc, rc), new)
<1> DEFINE n == Len(s)
           w == WithTop(s, pc, rc)
<1>1. /\ n \in Nat /\ n > 0 /\ Len(w) = n
      /\ \A i \in 1..(n - 1) : w[i] = s[i]
      /\ w[n].op = s[n].op /\ w[n].saved = s[n].saved
      /\ w[n].pc = pc /\ w[n].rc = rc
  BY WithTopFacts
<1>2. \A i \in 1..n : w[i].op = s[i].op /\ w[i].saved = s[i].saved
  BY <1>1
<1> HIDE DEF w
<1>3. \A i \in 1..n : Below(w, i) = Below(s, i)
  <2>1. \A i \in 1..n : Owned(w[i]) = Owned(s[i])
    BY <1>2 DEF Owned
  <2>2. \A i \in 1..n : i # 1 => i - 1 \in 1..n
    BY <1>1
  <2> QED
    BY <2>1, <2>2 DEF Below
<1>4. Disciplined(w, new)
  BY <1>1, <1>2, <1>3 DEF Sound, Disciplined, StateOfTop, Owned
<1>5. \A i \in 1..n : FromHandler(w, i) = FromHandler(s, i)
  BY <1>1 DEF FromHandler
<1>6. LostReported(w, new)
  <2>1. \A i \in 1..n : i # 1 => i - 1 \in 1..n
    BY <1>1
  <2>2. \A i \in 1..n : i # n => ~Lost(w[i])
    BY <1>1 DEF Sound, LostReported
  <2>3. ASSUME NEW i \in 1..n
        PROVE  /\ w[i].op = "yield" => FromHandler(w, i)
               /\ w[i].op \in {"attempt_reconnect", "disconnect"} =>
                     FromHandler(w, i) \/ w[i - 1].op = "yield"
    BY <1>2, <1>5, <2>1 DEF Sound, LostReported, FromHandler
  <2> QED
    BY <1>1, <2>2, <2>3 DEF LostReported, Lost
<1> QED
  BY <1>4, <1>6 DEF Sound, w

\* A new call starts with a state that its caller owns, before any change.
LEMMA PushSound ==
    ASSUME NEW s \in Seq(Frames), NEW state, Sound(s, state), NEW f \in Frames,
           f.saved \in Below(s, Len(s) + 1), state \in StateOfTop(f),
           Len(s) > 0 => s[Len(s)].pc \notin {"check", "cas"} /\ ~Lost(s[Len(s)]),
           ~Lost(f),
           f.op = "yield" => FromHandler(s, Len(s) + 1),
           f.op \in {"attempt_reconnect", "disconnect"} =>
              FromHandler(s, Len(s) + 1) \/ s[Len(s)].op = "yield"
    PROVE  Sound(Append(s, f), state)
<1> DEFINE n == Len(s)
           a == Append(s, f)
<1>1. /\ n \in Nat /\ Len(a) = n + 1 /\ a[n + 1] = f
      /\ \A i \in 1..n : a[i] = s[i]
  BY AppendFacts
<1> HIDE DEF a
<1>2. \A i \in 1..(n + 1) : i # 1 => i - 1 \in 1..n
  BY <1>1
<1>3. \A i \in 1..(n + 1) : Below(a, i) = Below(s, i) /\ FromHandler(a, i) =
   FromHandler(s, i)
  BY <1>1, <1>2 DEF Below, FromHandler
<1>4. Disciplined(a, state)
  <2>1. \A i \in 1..(n + 1) : a[i].saved \in Below(a, i)
    BY <1>1, <1>3 DEF Sound, Disciplined
  <2>2. \A i \in 1..n : a[i].pc \notin {"check", "cas"}
    BY <1>1 DEF Sound, Disciplined
  <2> QED
    BY <1>1, <2>1, <2>2 DEF Disciplined
<1>5. LostReported(a, state)
  <2>1. \A i \in 1..n : ~Lost(a[i])
    BY <1>1 DEF Sound, LostReported
  <2>2. ASSUME NEW i \in 1..n
        PROVE  /\ a[i].op = "yield" => FromHandler(a, i)
               /\ a[i].op \in {"attempt_reconnect", "disconnect"} =>
                     FromHandler(a, i) \/ a[i - 1].op = "yield"
    <3>1. /\ s[i].op = "yield" => FromHandler(s, i)
          /\ s[i].op \in {"attempt_reconnect", "disconnect"} =>
                FromHandler(s, i) \/ s[i - 1].op = "yield"
      BY DEF Sound, LostReported
    <3>2. FromHandler(a, i) = FromHandler(s, i) /\ a[i] = s[i]
      BY <1>1, <1>3
    <3>3. i = 1 => FromHandler(s, i)
      BY DEF FromHandler
    <3>4. i # 1 => a[i - 1] = s[i - 1]
      BY <1>1
    <3> QED
      BY <3>1, <3>2, <3>3, <3>4
  <2>3. /\ f.op = "yield" => FromHandler(a, n + 1)
        /\ f.op \in {"attempt_reconnect", "disconnect"} =>
              FromHandler(a, n + 1) \/ a[(n + 1) - 1].op = "yield"
    BY <1>1, <1>2, <1>3 DEF FromHandler
  <2> QED
    BY <1>1, <2>1, <2>2, <2>3 DEF LostReported
<1> QED
  BY <1>4, <1>5 DEF Sound, a

\* A call returns and leaves a state that its caller owns.
LEMMA ReturnSound ==
    ASSUME NEW s \in Seq(Frames), Len(s) > 0, NEW state, Sound(s, state),
           NEW rc \in Rcs, NEW new \in Below(s, Len(s)),
           rc \in LostRcs => /\ new \in Quiescent
                             /\ s[Len(s)].op \in {"yield", "attempt_reconnect",
                                                  "disconnect"}
    PROVE  Sound(Returned(s, rc), new)
<1> DEFINE n == Len(s) - 1
           r == Returned(s, rc)
<1>1. /\ n \in Nat /\ Len(r) = n /\ Len(s) = n + 1
      /\ \A i \in 1..n : /\ r[i].op = s[i].op /\ r[i].pc = s[i].pc
                         /\ r[i].saved = s[i].saved
                         /\ \/ r[i].rc = s[i].rc
                            \/ /\ i = n /\ r[i].rc = rc
                               /\ s[i].pc \notin {"callback", "handler"}
  BY ReturnedFacts
<1> HIDE DEF r, n
<1>2. \A i \in 1..(n + 1) : i # 1 => i - 1 \in 1..n
  BY <1>1
<1>3. \A i \in 1..n : Below(r, i) = Below(s, i) /\ FromHandler(r, i) = FromHandler(s, i)
  <2>1. \A i \in 1..n : Owned(r[i]) = Owned(s[i])
    BY <1>1 DEF Owned
  <2>2. \A i \in 1..n : i # 1 => i - 1 \in 1..n
    BY <1>1, <1>2
  <2> QED
    BY <1>1, <2>1, <2>2 DEF Below, FromHandler
<1>4. Disciplined(r, new)
  <2>1. \A i \in 1..n : r[i].saved \in Below(r, i)
    BY <1>1, <1>3 DEF Sound, Disciplined
  <2>2. \A i \in 1..n : r[i].pc \notin {"check", "cas"}
    BY <1>1 DEF Sound, Disciplined
  <2>3. n = 0 => new \in Quiescent
    BY <1>1 DEF Below
  <2>4. n # 0 => new \in StateOfTop(r[n])
    <3> SUFFICES ASSUME n # 0 PROVE new \in StateOfTop(r[n])
      OBVIOUS
    <3>1. n \in 1..n /\ n + 1 # 1 /\ (n + 1) - 1 = n
      BY <1>1
    <3>2. new \in Owned(s[n])
      BY <1>1, <3>1 DEF Below
    <3>3. Owned(r[n]) = Owned(s[n])
      BY <1>1, <3>1 DEF Owned
    <3> QED
      BY <2>2, <3>1, <3>2, <3>3 DEF StateOfTop
  <2> QED
    BY <1>1, <2>1, <2>2, <2>3, <2>4 DEF Disciplined
<1>5. LostReported(r, new)
  <2>1. ASSUME NEW i \in 1..n, Lost(r[i])
        PROVE  i = n /\ r[i].op = "yield" /\ r[i].pc # "handler" /\ new \in Quiescent
    <3>1. ~Lost(s[i])
      BY <1>1 DEF Sound, LostReported
    <3>2. i = n /\ rc \in LostRcs /\ s[i].pc \notin {"callback", "handler"}
      BY <1>1, <2>1, <3>1 DEF Lost
    <3>3. n + 1 \in 1..(n + 1) /\ n + 1 # 1 /\ (n + 1) - 1 = n
      BY <1>1
    <3>4. ~FromHandler(s, n + 1)
      BY <3>2, <3>3 DEF FromHandler
    <3>5. s[n].op = "yield"
      BY <1>1, <3>2, <3>3, <3>4 DEF Sound, LostReported
    <3> QED
      BY <1>1, <3>2, <3>5
  <2>2. ASSUME NEW i \in 1..n
        PROVE  /\ r[i].op = "yield" => FromHandler(r, i)
               /\ r[i].op \in {"attempt_reconnect", "disconnect"} =>
                     FromHandler(r, i) \/ r[i - 1].op = "yield"
    <3>1. /\ s[i].op = "yield" => FromHandler(s, i)
          /\ s[i].op \in {"attempt_reconnect", "disconnect"} =>
                FromHandler(s, i) \/ s[i - 1].op = "yield"
      BY <1>1 DEF Sound, LostReported
    <3>2. FromHandler(r, i) = FromHandler(s, i) /\ r[i].op = s[i].op
      BY <1>1, <1>3
    <3>3. i = 1 => FromHandler(s, i)
      BY DEF FromHandler
    <3>4. i # 1 => r[i - 1].op = s[i - 1].op
      BY <1>1
    <3> QED
      BY <3>1, <3>2, <3>3, <3>4
  <2> QED
    BY <1>1, <2>1, <2>2 DEF LostReported
<1> QED
  BY <1>4, <1>5 DEF Sound, r

-----------------------------------------------------------------------------
(* One thread: the discipline of its stack is that of the whole system *)

OneThread == \A t, u \in Threads : t = u

\* What the discipline says about the innermost call.
LEMMA TopSound ==
    ASSUME TypeOK, StackDiscipline, NEW t \in Threads, Depth(t) > 0
    PROVE  /\ clientState \in StateOfTop(Top(t))
           /\ Top(t).saved \in Below(stack[t], Depth(t))
           /\ Quiescent \subseteq Below(stack[t], Depth(t))
           /\ Lost(Top(t)) => /\ Top(t).op = "yield" /\ Top(t).pc # "handler"
                              /\ clientState \in Quiescent
<1>1. Depth(t) \in 1..Len(stack[t]) /\ Len(stack[t]) # 0
  BY DEF TypeOK, Depth
<1>2. Disciplined(stack[t], clientState) /\ LostReported(stack[t], clientState)
  BY DEF StackDiscipline
<1>3. clientState \in StateOfTop(Top(t)) /\ Top(t).saved \in Below(stack[t], Depth(t))
  BY <1>1, <1>2 DEF Disciplined, Depth, Top
<1>4. Quiescent \subseteq Below(stack[t], Depth(t))
  BY DEF Below, Owned
<1> QED
  BY <1>1, <1>2, <1>3, <1>4 DEF LostReported, Depth, Top

\* The states each kind of call owns.
LEMMA OwnedFacts ==
    ASSUME NEW f
    PROVE  /\ Quiescent \subseteq Owned(f)
           /\ f.op \in Ops \ {"attempt_reconnect"} =>
                 Owned(f) = Quiescent \cup { Busy(f.op) }
           /\ f.op = "attempt_reconnect" => Owned(f) = Quiescent
           /\ f.pc \notin {"check", "cas"} => StateOfTop(f) = Owned(f)
           /\ f.pc \in {"check", "cas"} => StateOfTop(f) = { f.saved }
BY DEF Owned, StateOfTop

\* GotoSound for the whole system: the only thread goes on.
LEMMA GotoKeeps ==
    ASSUME TypeOK, StackDiscipline, OneThread, NEW t \in Threads, Depth(t) > 0,
           NEW pc \in PcsOf(Top(t).op), NEW rc \in Rcs, Goto(t, pc, rc),
           IF pc \in {"check", "cas"} THEN clientState' = Top(t).saved
           ELSE clientState' \in Owned(Top(t)),
           rc \in LostRcs \/ pc = "lost" =>
              Top(t).op = "yield" /\ pc # "handler" /\ clientState' \in Quiescent
    PROVE  StackDiscipline'
<1>1. stack[t] \in Seq(Frames) /\ Sound(stack[t], clientState)
  BY DEF TypeOK, StackDiscipline, Sound
<1>2. Sound(WithTop(stack[t], pc, rc), clientState')
  BY <1>1, GotoSound DEF Depth, Top
<1>3. stack'[t] = WithTop(stack[t], pc, rc)
  BY DEF Goto, TypeOK
<1> QED
  BY <1>2, <1>3 DEF StackDiscipline, OneThread, Sound

\* ReturnSound for the whole system: the only thread returns.
LEMMA ReturnKeeps ==
    ASSUME TypeOK, StackDiscipline, OneThread, NEW t \in Threads, Depth(t) > 0,
           NEW rc \in Rcs, Return(t, rc),
           clientState' \in Quiescent \cup { Top(t).saved },
           rc \in LostRcs => /\ clientState' \in Quiescent
                             /\ Top(t).op \in {"yield", "attempt_reconnect",
                                               "disconnect"}
    PROVE  StackDiscipline'
<1>1. stack[t] \in Seq(Frames) /\ Sound(stack[t], clientState)
  BY DEF TypeOK, StackDiscipline, Sound
<1>2. clientState' \in Below(stack[t], Len(stack[t]))
  BY TopSound DEF Depth
<1>3. Sound(Returned(stack[t], rc), clientState')
  BY <1>1, <1>2, ReturnSound DEF Depth, Top
<1>4. stack'[t] = Returned(stack[t], rc)
  BY DEF Return, TypeOK
<1> QED
  BY <1>3, <1>4 DEF StackDiscipline, OneThread, Sound

\* The application calls a function: from outside, or from a handler.
LEMMA PushKeeps ==
    ASSUME TypeOK, StackDiscipline, OneThread, NEW t \in Threads,
           NEW f \in Frames, Push(t, f), UNCHANGED clientState,
           Depth(t) > 0 => Top(t).pc \in {"callback", "handler"},
           f.rc = "SUCCESS", f.pc # "lost", f.saved \in Quiescent \cup { clientState },
           clientState \in StateOfTop(f)
    PROVE  StackDiscipline'
<1> DEFINE s == stack[t]
<1>1. s \in Seq(Frames) /\ Sound(s, clientState) /\ Len(s) \in Nat
  BY DEF TypeOK, StackDiscipline, Sound
<1>2. ~Lost(f)
  BY DEF Lost, LostRcs
<1>3. Len(s) > 0 => s[Len(s)].pc \notin {"check", "cas"} /\ ~Lost(s[Len(s)])
  <2> SUFFICES ASSUME Depth(t) > 0
               PROVE  Top(t).pc \notin {"check", "cas"} /\ ~Lost(Top(t))
    BY DEF Depth, Top
  <2>1. Top(t).pc = "callback" => Top(t).op # "yield"
    BY TopType, PcsFacts
  <2> QED
    BY <2>1, TopSound
<1>4. FromHandler(s, Len(s) + 1)
  BY <1>1 DEF FromHandler, Depth, Top
<1>5. f.saved \in Below(s, Len(s) + 1)
  <2>1. CASE Len(s) = 0
    BY <1>1, <2>1 DEF Below, Sound, Disciplined
  <2>2. CASE Len(s) > 0
    <3>1. Below(s, Len(s) + 1) = Owned(s[Len(s)])
      BY <1>1, <2>2 DEF Below
    <3>2. clientState \in Owned(s[Len(s)])
      BY <1>3, <2>2, TopSound, OwnedFacts DEF Depth, Top
    <3> QED
      BY <3>1, <3>2, OwnedFacts
  <2> QED
    BY <1>1, <2>1, <2>2
<1>6. Sound(Append(s, f), clientState)
  BY <1>1, <1>2, <1>3, <1>4, <1>5, PushSound
<1>7. stack'[t] = Append(s, f)
  BY DEF Push, TypeOK
<1> QED
  BY <1>6, <1>7 DEF StackDiscipline, OneThread, Sound

\* A function of the client calls another one.
LEMMA InvokeKeeps ==
    ASSUME TypeOK, StackDiscipline, OneThread, NEW t \in Threads, Depth(t) > 0,
           NEW pc \in PcsOf(Top(t).op) \ {"check", "cas", "lost"}, NEW f \in Frames,
           Invoke(t, pc, f), UNCHANGED clientState,
           Top(t).pc \notin {"check", "cas"},
           f.rc = "SUCCESS", f.pc # "lost", f.saved \in Quiescent \cup { clientState },
           clientState \in StateOfTop(f), f.op # "yield",
           f.op \in {"attempt_reconnect", "disconnect"} => Top(t).op = "yield"
    PROVE  StackDiscipline'
<1> DEFINE s == stack[t]
           w == WithTop(s, pc, "SUCCESS")
<1>1. s \in Seq(Frames) /\ Sound(s, clientState) /\ "SUCCESS" \in Rcs
  BY DEF TypeOK, StackDiscipline, Sound, Rcs
<1>2. clientState \in Owned(Top(t))
  BY TopSound, OwnedFacts
<1>3. Sound(w, clientState)
  BY <1>1, <1>2, GotoSound DEF Depth, Top, LostRcs
<1>4. /\ w \in Seq(Frames) /\ Len(w) = Len(s) /\ Len(w) \in Nat /\ Len(w) > 0
      /\ w[Len(w)].op = Top(t).op /\ w[Len(w)].pc = pc /\ w[Len(w)].rc = "SUCCESS"
  BY <1>1, WithTopFacts DEF Depth, Top
<1> HIDE DEF w
<1>5. f.saved \in Below(w, Len(w) + 1)
  <2>1. Below(w, Len(w) + 1) = Owned(w[Len(w)])
    BY <1>4 DEF Below
  <2>2. clientState \in Owned(w[Len(w)])
    BY <1>2, <1>4 DEF Owned
  <2> QED
    BY <2>1, <2>2, OwnedFacts
<1>6. Sound(Append(w, f), clientState)
  BY <1>3, <1>4, <1>5, PushSound DEF LostRcs, Lost
<1>7. stack'[t] = Append(w, f)
  BY DEF Invoke, TypeOK, w
<1> QED
  BY <1>6, <1>7 DEF StackDiscipline, OneThread, Sound

-----------------------------------------------------------------------------
(* One thread: every step keeps the discipline *)

\* The states of the operations that are not requests.
LEMMA BusyFacts ==
    /\ Busy("connect") = "CONNECTING" /\ Busy("disconnect") = "DISCONNECTING"
    /\ Busy("yield") = "CONNECTED_YIELD_IN_PROGRESS"
    /\ Busy("deliver") = "CONNECTED_WAIT_FOR_CB_RETURN"
BY DEF Busy

\* A new frame.
LEMMA FrameFacts ==
    ASSUME NEW op \in Ops, NEW pc \in PcsOf(op), NEW saved \in ClientStates
    PROVE  /\ Frame(op, pc, saved) \in Frames
           /\ Frame(op, pc, saved).rc = "SUCCESS"
           /\ Frame(op, pc, saved).op = op /\ Frame(op, pc, saved).pc = pc
           /\ Frame(op, pc, saved).saved = saved
BY FrameType DEF Frame

\* A disconnect is called by the application or by yield, so the state it read
\* says disconnected only if no operation owns it.
LEMMA DisconnectSaved ==
    ASSUME TypeOK, StackDiscipline, NEW t \in Threads, Depth(t) > 0,
           Top(t).op = "disconnect"
    PROVE  Top(t).saved \in Quiescent \cup ConnectedStates
<1>1. PICK s \in Seq(Frames), n \in Nat :
         /\ s = stack[t] /\ n = Len(s) /\ n > 0 /\ s[n].op = "disconnect"
  BY DEF TypeOK, Depth, Top
<1>2. Top(t).saved \in Below(s, n)
  BY <1>1, TopSound DEF Depth
<1>3. FromHandler(s, n) \/ s[n - 1].op = "yield"
  BY <1>1 DEF StackDiscipline, LostReported
<1>4. CASE n = 1
  BY <1>2, <1>4 DEF Below
<1>5. CASE n # 1
  <2>1. s[n - 1] \in Frames
    <3>1. n = Len(s) /\ n > 0
      BY <1>1
    <3>2. n - 1 \in 1..Len(s)
      BY <1>5, <3>1
    <3> QED
      BY <3>2, ElementOfSeq
  <2>2. s[n - 1].op \in Ops /\ s[n - 1].pc \in PcsOf(s[n - 1].op)
    BY <2>1 DEF Frames
  <2>3. s[n - 1].op \in {"deliver", "yield"}
    BY <1>3, <1>5, <2>2, PcsFacts DEF FromHandler, Ops
  <2>4. Top(t).saved \in Owned(s[n - 1])
    BY <1>2, <1>5 DEF Below
  <2> QED
    BY <2>3, <2>4, BusyFacts DEF Owned, ConnectedStates
<1> QED
  BY <1>4, <1>5

\* The steps of connect keep the discipline,
LEMMA ConnectStepKeeps ==
    ASSUME TypeOK, StackDiscipline, OneThread, NEW t \in Threads, ConnectStep(t)
    PROVE  StackDiscipline'
<1>0. /\ Depth(t) > 0 /\ Top(t).op = "connect"
      /\ clientState \in Quiescent \cup { Busy(Top(t).op) } \/ Top(t).pc \in {"check",
         "cas"}
      /\ Top(t).pc \in {"check", "cas"} => clientState = Top(t).saved
      /\ Owned(Top(t)) = Quiescent \cup { Busy(Top(t).op) }
  <2>1. Depth(t) > 0 /\ Top(t).op = "connect"
    BY DEF ConnectStep, At, ConnectStart, ConnectTls, ConnectAck, ConnectDone, ConnectFailed
  <2>2. Owned(Top(t)) = Quiescent \cup { Busy(Top(t).op) }
    BY <2>1 DEF Owned
  <2> QED
    BY <2>1, <2>2, TopSound, OwnedFacts
<1>1. CASE ConnectStart(t)
  BY <1>0, <1>1, GotoKeeps, ReturnKeeps, TopType, PcsFacts, BusyFacts
     DEF ConnectStart, At, Rcs, LostRcs, SetClientState, Quiescent
<1>2. CASE ConnectTls(t)
  BY <1>0, <1>2, GotoKeeps, ReturnKeeps, TopType, PcsFacts, BusyFacts
     DEF ConnectTls, At, Rcs, LostRcs
<1>3. CASE ConnectAck(t)
  BY <1>0, <1>3, GotoKeeps, ReturnKeeps, TopType, PcsFacts, BusyFacts
     DEF ConnectAck, At, Rcs, LostRcs
<1>4. CASE ConnectDone(t)
  BY <1>0, <1>4, GotoKeeps, ReturnKeeps, TopType, PcsFacts, BusyFacts
     DEF ConnectDone, At, Rcs, LostRcs, SetClientState, Quiescent
<1>5. CASE ConnectFailed(t)
  BY <1>0, <1>5, GotoKeeps, ReturnKeeps, TopType, PcsFacts, BusyFacts
     DEF ConnectFailed, At, Rcs, LostRcs, SetClientState, Quiescent
<1> QED
  BY <1>1, <1>2, <1>3, <1>4, <1>5 DEF ConnectStep

\* so do those of disconnect, which writes back what it read,
LEMMA DisconnectStepKeeps ==
    ASSUME TypeOK, StackDiscipline, OneThread, NEW t \in Threads, DisconnectStep(t)
    PROVE  StackDiscipline'
<1>0. /\ Depth(t) > 0 /\ Top(t).op = "disconnect"
      /\ clientState \in Quiescent \cup { Busy(Top(t).op) } \/ Top(t).pc \in {"check",
         "cas"}
      /\ Top(t).pc \in {"check", "cas"} => clientState = Top(t).saved
      /\ Owned(Top(t)) = Quiescent \cup { Busy(Top(t).op) }
  <2>1. Depth(t) > 0 /\ Top(t).op = "disconnect"
    BY DEF DisconnectStep, At, DisconnectCheck, DisconnectStart, DisconnectSend,
       DisconnectDone, DisconnectUndo
  <2>2. Owned(Top(t)) = Quiescent \cup { Busy(Top(t).op) }
    BY <2>1 DEF Owned
  <2> QED
    BY <2>1, <2>2, TopSound, OwnedFacts
<1>1. CASE DisconnectCheck(t)
  <2>1. clientState = Top(t).saved /\ Top(t).saved \in Quiescent \cup ConnectedStates
    BY <1>0, <1>1, DisconnectSaved DEF DisconnectCheck, At
  <2> QED
    BY <1>0, <1>1, <2>1, GotoKeeps, ReturnKeeps, TopType, PcsFacts
       DEF DisconnectCheck, At, Rcs, LostRcs, IsClientConnected
<1>2. CASE DisconnectStart(t)
  BY <1>0, <1>2, GotoKeeps, ReturnKeeps, TopType, PcsFacts, BusyFacts
     DEF DisconnectStart, At, Rcs, LostRcs, SetClientState, Quiescent
<1>3. CASE DisconnectSend(t)
  BY <1>0, <1>3, GotoKeeps, ReturnKeeps, TopType, PcsFacts, BusyFacts
     DEF DisconnectSend, At, Rcs, LostRcs
<1>4. CASE DisconnectDone(t)
  BY <1>0, <1>4, GotoKeeps, ReturnKeeps, TopType, PcsFacts, BusyFacts
     DEF DisconnectDone, At, Rcs, LostRcs, Quiescent
<1>5. CASE DisconnectUndo(t)
  BY <1>0, <1>5, GotoKeeps, ReturnKeeps, TopType, PcsFacts, BusyFacts
     DEF DisconnectUndo, At, Rcs, LostRcs
<1> QED
  BY <1>1, <1>2, <1>3, <1>4, <1>5 DEF DisconnectStep

\* those of the requests, whose waits deliver messages,
LEMMA RequestStepKeeps ==
    ASSUME TypeOK, StackDiscipline, OneThread, NEW t \in Threads, RequestStep(t)
    PROVE  StackDiscipline'
<1>0. /\ Depth(t) > 0 /\ Top(t).op \in Requests
      /\ clientState \in Quiescent \cup { Busy(Top(t).op) } \/ Top(t).pc \in {"check",
         "cas"}
      /\ Top(t).pc \in {"check", "cas"} => clientState = Top(t).saved
      /\ Owned(Top(t)) = Quiescent \cup { Busy(Top(t).op) }
  <2>1. Depth(t) > 0 /\ Top(t).op \in Requests
    BY DEF RequestStep, At, RequestStart, UnsubscribeRollback, RequestSend,
       RequestWait, RequestRestore, Requests
  <2>2. Owned(Top(t)) = Quiescent \cup { Busy(Top(t).op) }
    BY <2>1 DEF Owned, Requests
  <2> QED
    BY <2>1, <2>2, TopSound, OwnedFacts
<1>1. CASE RequestStart(t)
  BY <1>0, <1>1, GotoKeeps, ReturnKeeps, TopType, PcsFacts, BusyFacts
     DEF RequestStart, At, Rcs, LostRcs, SetClientState
<1>2. CASE UnsubscribeRollback(t)
  BY <1>0, <1>2, GotoKeeps, ReturnKeeps, TopType, PcsFacts, BusyFacts
     DEF UnsubscribeRollback, At, Rcs, LostRcs, SetClientState, RestoreRc, Quiescent
<1>3. CASE RequestSend(t)
  BY <1>0, <1>3, GotoKeeps, ReturnKeeps, TopType, PcsFacts, BusyFacts
     DEF RequestSend, At, Rcs, LostRcs
<1>4. CASE RequestWait(t)
  <2> DEFINE f == Frame("deliver", "cas", clientState)
  <2>1. f \in Frames /\ f.rc = "SUCCESS" /\ f.op = "deliver" /\ f.pc = "cas"
        /\ f.saved = clientState
    BY FrameFacts, PcsFacts DEF Ops, Requests, ClientStates, TypeOK
  <2>2. clientState \in StateOfTop(f)
    BY <1>0, <1>4, <2>1 DEF RequestWait, At, StateOfTop, Owned, Quiescent,
       IsClientConnected,
       ConnectedStates, Busy
  <2> HIDE DEF f
  <2> QED
    BY <1>0, <1>4, <2>1, <2>2, GotoKeeps, ReturnKeeps, InvokeKeeps, TopType, PcsFacts
       DEF RequestWait, f, At, Rcs, LostRcs, Quiescent
<1>5. CASE RequestRestore(t)
  <2>1. Lost(Top(t)) => Top(t).op = "yield" /\ clientState \in Quiescent
    BY <1>0, TopSound
  <2> QED
    BY <1>0, <1>5, <2>1, GotoKeeps, ReturnKeeps, TopType, PcsFacts, BusyFacts
       DEF RequestRestore, At, Rcs, LostRcs, Lost, SetClientState, RestoreRc, Quiescent
<1> QED
  BY <1>1, <1>2, <1>3, <1>4, <1>5 DEF RequestStep

\* those of attempt_reconnect, which owns no state,
LEMMA AttemptStepKeeps ==
    ASSUME TypeOK, StackDiscipline, OneThread, NEW t \in Threads, AttemptStep(t)
    PROVE  StackDiscipline'
<1>0. /\ Depth(t) > 0 /\ Top(t).op = "attempt_reconnect"
      /\ clientState \in Quiescent  \/ Top(t).pc \in {"check", "cas"}
      /\ Top(t).pc \in {"check", "cas"} => clientState = Top(t).saved
      /\ Owned(Top(t)) = Quiescent 
  <2>1. Depth(t) > 0 /\ Top(t).op = "attempt_reconnect"
    BY DEF AttemptStep, At, AttemptConnect, AttemptAfterConnect, AttemptPending,
       AttemptResubscribe, AttemptAfterResubscribe
  <2>2. Owned(Top(t)) = Quiescent 
    BY <2>1 DEF Owned
  <2> QED
    BY <2>1, <2>2, TopSound, OwnedFacts
<1>1. CASE AttemptConnect(t)
  <2> DEFINE f == Frame("connect", "cas", clientState)
  <2>1. f \in Frames /\ f.rc = "SUCCESS" /\ f.op = "connect" /\ f.pc = "cas"
        /\ f.saved = clientState
    BY FrameFacts, PcsFacts DEF Ops, Requests, ClientStates, TypeOK
  <2>2. clientState \in StateOfTop(f)
    BY <1>0, <1>1, <2>1 DEF AttemptConnect, At, StateOfTop, Owned, Quiescent,
       IsClientConnected,
       ConnectedStates, Busy
  <2> HIDE DEF f
  <2> QED
    BY <1>0, <1>1, <2>1, <2>2, GotoKeeps, ReturnKeeps, InvokeKeeps, TopType, PcsFacts
       DEF AttemptConnect, f, At, Rcs, LostRcs, Quiescent
<1>2. CASE AttemptAfterConnect(t)
  BY <1>0, <1>2, GotoKeeps, ReturnKeeps, TopType, PcsFacts, BusyFacts
     DEF AttemptAfterConnect, At, Rcs, LostRcs
<1>3. CASE AttemptPending(t)
  BY <1>0, <1>3, GotoKeeps, ReturnKeeps, TopType, PcsFacts, BusyFacts
     DEF AttemptPending, At, Rcs, LostRcs, SetClientState, Quiescent
<1>4. CASE AttemptResubscribe(t)
  <2> DEFINE f == Frame("resubscribe", "cas", "CONNECTED_IDLE")
  <2>1. f \in Frames /\ f.rc = "SUCCESS" /\ f.op = "resubscribe" /\ f.pc = "cas"
        /\ f.saved = "CONNECTED_IDLE"
    BY FrameFacts, PcsFacts DEF Ops, Requests, ClientStates, TypeOK
  <2>2. clientState = "CONNECTED_IDLE" => clientState \in StateOfTop(f)
    BY <1>0, <1>4, <2>1 DEF AttemptResubscribe, At, StateOfTop, Owned, Quiescent,
       IsClientConnected,
       ConnectedStates, Busy
  <2> HIDE DEF f
  <2> QED
    BY <1>0, <1>4, <2>1, <2>2, GotoKeeps, ReturnKeeps, InvokeKeeps, TopType, PcsFacts
       DEF AttemptResubscribe, f, At, Rcs, LostRcs, Quiescent
<1>5. CASE AttemptAfterResubscribe(t)
  BY <1>0, <1>5, GotoKeeps, ReturnKeeps, TopType, PcsFacts, BusyFacts
     DEF AttemptAfterResubscribe, At, Rcs, LostRcs
<1> QED
  BY <1>1, <1>2, <1>3, <1>4, <1>5 DEF AttemptStep

\* those of a delivery
LEMMA DeliverStepKeeps ==
    ASSUME TypeOK, StackDiscipline, OneThread, NEW t \in Threads, DeliverStep(t)
    PROVE  StackDiscipline'
<1>0. /\ Depth(t) > 0 /\ Top(t).op = "deliver"
      /\ clientState \in Quiescent \cup { Busy(Top(t).op) } \/ Top(t).pc \in {"check",
         "cas"}
      /\ Top(t).pc \in {"check", "cas"} => clientState = Top(t).saved
      /\ Owned(Top(t)) = Quiescent \cup { Busy(Top(t).op) }
  <2>1. Depth(t) > 0 /\ Top(t).op = "deliver"
    BY DEF DeliverStep, At, DeliverStart, DeliverReturn
  <2>2. Owned(Top(t)) = Quiescent \cup { Busy(Top(t).op) }
    BY <2>1 DEF Owned
  <2> QED
    BY <2>1, <2>2, TopSound, OwnedFacts
<1>1. CASE DeliverStart(t)
  BY <1>0, <1>1, GotoKeeps, ReturnKeeps, TopType, PcsFacts, BusyFacts
     DEF DeliverStart, At, Rcs, LostRcs, SetClientState
<1>2. CASE DeliverReturn(t)
  BY <1>0, <1>2, GotoKeeps, ReturnKeeps, TopType, PcsFacts, BusyFacts
     DEF DeliverReturn, At, Rcs, LostRcs, SetClientState, RestoreRc, Quiescent
<1> QED
  BY <1>1, <1>2 DEF DeliverStep

\* and those of yield, which leaves a lost connection to the reconnect code.
LEMMA YieldStepKeeps ==
    ASSUME TypeOK, StackDiscipline, OneThread, NEW t \in Threads, YieldStep(t)
    PROVE  StackDiscipline'
<1>0. /\ Depth(t) > 0 /\ Top(t).op = "yield"
      /\ clientState \in Quiescent \cup { Busy(Top(t).op) } \/ Top(t).pc \in {"check",
         "cas"}
      /\ Top(t).pc \in {"check", "cas"} => clientState = Top(t).saved
      /\ Owned(Top(t)) = Quiescent \cup { Busy(Top(t).op) }
  <2>1. Depth(t) > 0 /\ Top(t).op = "yield"
    BY DEF YieldStep, At, YieldStart, YieldLoop, YieldReconnect, YieldReconnected,
       YieldRead, YieldDelivered, KeepAlive, HandleDisconnect, HandleDisconnectResult,
       ForceClientDisconnect, DisconnectHandlerReturn, YieldLost, YieldAgain, YieldExit
  <2>2. Owned(Top(t)) = Quiescent \cup { Busy(Top(t).op) }
    BY <2>1 DEF Owned
  <2> QED
    BY <2>1, <2>2, TopSound, OwnedFacts
<1>1. CASE YieldStart(t)
  BY <1>0, <1>1, GotoKeeps, ReturnKeeps, TopType, PcsFacts, BusyFacts
     DEF YieldStart, At, Rcs, LostRcs, SetClientState, Quiescent
<1>2. CASE YieldLoop(t)
  BY <1>0, <1>2, GotoKeeps, ReturnKeeps, TopType, PcsFacts, BusyFacts
     DEF YieldLoop, At, Rcs, LostRcs
<1>3. CASE YieldReconnect(t)
  <2> DEFINE f == Frame("attempt_reconnect", "connect", "CONNECTED_IDLE")
  <2>1. f \in Frames /\ f.rc = "SUCCESS" /\ f.op = "attempt_reconnect" /\ f.pc = "connect"
        /\ f.saved = "CONNECTED_IDLE"
    BY FrameFacts, PcsFacts DEF Ops, Requests, ClientStates, TypeOK
  <2>2. ~IsClientConnected(clientState) => clientState \in StateOfTop(f)
    BY <1>0, <1>3, <2>1 DEF YieldReconnect, At, StateOfTop, Owned, Quiescent,
       IsClientConnected,
       ConnectedStates, Busy
  <2> HIDE DEF f
  <2> QED
    BY <1>0, <1>3, <2>1, <2>2, GotoKeeps, ReturnKeeps, InvokeKeeps, TopType, PcsFacts
       DEF YieldReconnect, f, At, Rcs, LostRcs, Quiescent
<1>4. CASE YieldReconnected(t)
  <2>1. Lost(Top(t)) => Top(t).op = "yield" /\ clientState \in Quiescent
    BY <1>0, TopSound
  <2> QED
    BY <1>0, <1>4, <2>1, GotoKeeps, ReturnKeeps, TopType, PcsFacts, BusyFacts
       DEF YieldReconnected, At, Rcs, LostRcs, Lost, SetClientState, Quiescent
<1>5. CASE YieldRead(t)
  <2> DEFINE f == Frame("deliver", "cas", clientState)
  <2>1. f \in Frames /\ f.rc = "SUCCESS" /\ f.op = "deliver" /\ f.pc = "cas"
        /\ f.saved = clientState
    BY FrameFacts, PcsFacts DEF Ops, Requests, ClientStates, TypeOK
  <2>2. clientState \in StateOfTop(f)
    BY <1>0, <1>5, <2>1 DEF YieldRead, At, StateOfTop, Owned, Quiescent, IsClientConnected,
       ConnectedStates, Busy
  <2> HIDE DEF f
  <2> QED
    BY <1>0, <1>5, <2>1, <2>2, GotoKeeps, ReturnKeeps, InvokeKeeps, TopType, PcsFacts
       DEF YieldRead, f, At, Rcs, LostRcs, Quiescent
<1>6. CASE YieldDelivered(t)
  <2>1. Lost(Top(t)) => Top(t).op = "yield" /\ clientState \in Quiescent
    BY <1>0, TopSound
  <2> QED
    BY <1>0, <1>6, <2>1, GotoKeeps, ReturnKeeps, TopType, PcsFacts, BusyFacts
       DEF YieldDelivered, At, Rcs, LostRcs, Lost
<1>7. CASE KeepAlive(t)
  BY <1>0, <1>7, GotoKeeps, ReturnKeeps, TopType, PcsFacts, BusyFacts
     DEF KeepAlive, At, Rcs, LostRcs
<1>8. CASE HandleDisconnect(t)
  <2> DEFINE f == Frame("disconnect", "check", clientState)
  <2>1. f \in Frames /\ f.rc = "SUCCESS" /\ f.op = "disconnect" /\ f.pc = "check"
        /\ f.saved = clientState
    BY FrameFacts, PcsFacts DEF Ops, Requests, ClientStates, TypeOK
  <2>2. clientState \in StateOfTop(f)
    BY <1>0, <1>8, <2>1 DEF HandleDisconnect, At, StateOfTop, Owned, Quiescent,
       IsClientConnected,
       ConnectedStates, Busy
  <2> HIDE DEF f
  <2> QED
    BY <1>0, <1>8, <2>1, <2>2, GotoKeeps, ReturnKeeps, InvokeKeeps, TopType, PcsFacts
       DEF HandleDisconnect, f, At, Rcs, LostRcs, Quiescent
<1>9. CASE HandleDisconnectResult(t)
  BY <1>0, <1>9, GotoKeeps, ReturnKeeps, TopType, PcsFacts, BusyFacts
     DEF HandleDisconnectResult, At, Rcs, LostRcs, Quiescent
<1>10. CASE ForceClientDisconnect(t)
  BY <1>0, <1>10, GotoKeeps, ReturnKeeps, TopType, PcsFacts, BusyFacts
     DEF ForceClientDisconnect, At, Rcs, LostRcs
<1>11. CASE DisconnectHandlerReturn(t)
  BY <1>0, <1>11, GotoKeeps, ReturnKeeps, TopType, PcsFacts, BusyFacts
     DEF DisconnectHandlerReturn, At, Rcs, LostRcs, Quiescent
<1>12. CASE YieldLost(t)
  <2>1. Lost(Top(t)) => Top(t).op = "yield" /\ clientState \in Quiescent
    BY <1>0, TopSound
  <2> QED
    BY <1>0, <1>12, <2>1, GotoKeeps, ReturnKeeps, TopType, PcsFacts, BusyFacts
       DEF YieldLost, At, Rcs, LostRcs, Lost, SetClientState, Quiescent
<1>13. CASE YieldAgain(t)
  <2>1. Lost(Top(t)) => Top(t).op = "yield" /\ clientState \in Quiescent
    BY <1>0, TopSound
  <2> QED
    BY <1>0, <1>13, <2>1, GotoKeeps, ReturnKeeps, TopType, PcsFacts, BusyFacts
       DEF YieldAgain, At, Rcs, LostRcs, Lost
<1>14. CASE YieldExit(t)
  <2>1. Lost(Top(t)) => Top(t).op = "yield" /\ clientState \in Quiescent
    BY <1>0, TopSound
  <2> QED
    BY <1>0, <1>14, <2>1, GotoKeeps, ReturnKeeps, TopType, PcsFacts, BusyFacts
       DEF YieldExit, At, Rcs, LostRcs, Lost, SetClientState, RestoreRc, Quiescent
<1> QED
  BY <1>1, <1>2, <1>3, <1>4, <1>5, <1>6, <1>7, <1>8, <1>9, <1>10, <1>11, <1>12, <1>13,
     <1>14 DEF YieldStep

\* The application starts a call only in a state that its caller owns.
LEMMA AppCallKeeps ==
    ASSUME TypeOK, StackDiscipline, OneThread, NEW t \in Threads, AppCall(t)
    PROVE  StackDiscipline'
<1>0. ASSUME NEW op, MayCall(t, op)
      PROVE  Depth(t) > 0 => Top(t).pc \in {"callback", "handler"}
  BY <1>0 DEF MayCall, TypeOK, Depth
<1>1. CASE CallConnect(t)
  <2> DEFINE f == Frame("connect", "cas", clientState)
  <2>1. f \in Frames /\ f.rc = "SUCCESS" /\ f.op = "connect" /\ f.pc = "cas"
        /\ f.saved = clientState
    BY FrameFacts, PcsFacts DEF Ops, Requests, ClientStates, TypeOK
  <2>2. clientState \in StateOfTop(f)
    BY <1>1, <2>1 DEF CallConnect, StateOfTop, Owned
  <2> HIDE DEF f
  <2> QED
    BY <1>0, <1>1, <2>1, <2>2, PushKeeps DEF CallConnect, f, Quiescent
<1>2. CASE CallDisconnect(t)
  <2> DEFINE f == Frame("disconnect", "check", clientState)
  <2>1. f \in Frames /\ f.rc = "SUCCESS" /\ f.op = "disconnect" /\ f.pc = "check"
        /\ f.saved = clientState
    BY FrameFacts, PcsFacts DEF Ops, Requests, ClientStates, TypeOK
  <2>2. clientState \in StateOfTop(f)
    BY <1>2, <2>1 DEF CallDisconnect, StateOfTop, Owned
  <2> HIDE DEF f
  <2> QED
    BY <1>0, <1>2, <2>1, <2>2, PushKeeps DEF CallDisconnect, f, Quiescent
<1>3. CASE CallAttemptReconnect(t)
  <2> DEFINE f == Frame("attempt_reconnect", "connect", "CONNECTED_IDLE")
  <2>1. f \in Frames /\ f.rc = "SUCCESS" /\ f.op = "attempt_reconnect" /\ f.pc = "connect"
        /\ f.saved = "CONNECTED_IDLE"
    BY FrameFacts, PcsFacts DEF Ops, Requests, ClientStates, TypeOK
  <2>2. clientState \in Quiescent
    <3>1. CASE Depth(t) = 0
      BY <3>1 DEF StackDiscipline, Disciplined, Depth
    <3>2. CASE Depth(t) > 0
      <4>1. Top(t).op \in {"deliver", "yield"} /\ Top(t).pc \in {"callback", "handler"}
        BY <1>0, <1>3, <3>2, TopType, PcsFacts DEF CallAttemptReconnect, Ops
      <4>2. clientState \in Quiescent \cup { Busy("deliver"), Busy("yield") }
        BY <3>2, <4>1, TopSound DEF StateOfTop, Owned
      <4> QED
        BY <1>3, <4>2, BusyFacts DEF CallAttemptReconnect, IsClientConnected,
           ConnectedStates
    <3>3. Depth(t) \in Nat
      BY DEF TypeOK, Depth
    <3> QED
      BY <3>1, <3>2, <3>3
  <2>3. clientState \in StateOfTop(f)
    BY <2>1, <2>2 DEF StateOfTop, Owned
  <2> HIDE DEF f
  <2> QED
    BY <1>0, <1>3, <2>1, <2>3, PushKeeps DEF CallAttemptReconnect, f, Quiescent
<1>4. CASE CallPublish(t)
  <2> DEFINE f == Frame("publish", "cas", clientState)
  <2>1. f \in Frames /\ f.rc = "SUCCESS" /\ f.op = "publish" /\ f.pc = "cas"
        /\ f.saved = clientState
    BY FrameFacts, PcsFacts DEF Ops, Requests, ClientStates, TypeOK
  <2>2. clientState \in StateOfTop(f)
    BY <1>4, <2>1 DEF CallPublish, StateOfTop, Owned
  <2> HIDE DEF f
  <2> QED
    BY <1>0, <1>4, <2>1, <2>2, PushKeeps DEF CallPublish, f, Quiescent
<1>5. CASE CallSubscribe(t)
  <2> DEFINE f == Frame("subscribe", "cas", clientState)
  <2>1. f \in Frames /\ f.rc = "SUCCESS" /\ f.op = "subscribe" /\ f.pc = "cas"
        /\ f.saved = clientState
    BY FrameFacts, PcsFacts DEF Ops, Requests, ClientStates, TypeOK
  <2>2. clientState \in StateOfTop(f)
    BY <1>5, <2>1 DEF CallSubscribe, StateOfTop, Owned
  <2> HIDE DEF f
  <2> QED
    BY <1>0, <1>5, <2>1, <2>2, PushKeeps DEF CallSubscribe, f, Quiescent
<1>6. CASE CallUnsubscribe(t)
  <2> DEFINE f == Frame("unsubscribe", "cas", clientState)
  <2>1. f \in Frames /\ f.rc = "SUCCESS" /\ f.op = "unsubscribe" /\ f.pc = "cas"
        /\ f.saved = clientState
    BY FrameFacts, PcsFacts DEF Ops, Requests, ClientStates, TypeOK
  <2>2. clientState \in StateOfTop(f)
    BY <1>6, <2>1 DEF CallUnsubscribe, StateOfTop, Owned
  <2> HIDE DEF f
  <2> QED
    BY <1>0, <1>6, <2>1, <2>2, PushKeeps DEF CallUnsubscribe, f, Quiescent
<1>7. CASE CallResubscribe(t)
  <2> DEFINE f == Frame("resubscribe", "cas", "CONNECTED_IDLE")
  <2>1. f \in Frames /\ f.rc = "SUCCESS" /\ f.op = "resubscribe" /\ f.pc = "cas"
        /\ f.saved = "CONNECTED_IDLE"
    BY FrameFacts, PcsFacts DEF Ops, Requests, ClientStates, TypeOK
  <2>2. clientState \in StateOfTop(f)
    BY <1>7, <2>1 DEF CallResubscribe, StateOfTop, Owned
  <2> HIDE DEF f
  <2> QED
    BY <1>0, <1>7, <2>1, <2>2, PushKeeps DEF CallResubscribe, f, Quiescent
<1>8. CASE CallYield(t)
  <2>1. \A pc \in {"cas", "loop"} : LET f == Frame("yield", pc, "CONNECTED_IDLE") IN
           /\ f \in Frames /\ f.rc = "SUCCESS" /\ f.op = "yield" /\ f.pc = pc
           /\ f.saved = "CONNECTED_IDLE"
    BY FrameFacts, PcsFacts DEF Ops, ClientStates
  <2>2. \/ /\ Push(t, Frame("yield", "cas", "CONNECTED_IDLE"))
           /\ clientState \in StateOfTop(Frame("yield", "cas", "CONNECTED_IDLE"))
        \/ /\ Push(t, Frame("yield", "loop", "CONNECTED_IDLE"))
           /\ clientState \in StateOfTop(Frame("yield", "loop", "CONNECTED_IDLE"))
    BY <1>8, <2>1 DEF CallYield, StateOfTop, Owned, Quiescent
  <2> QED
    BY <1>0, <1>8, <2>1, <2>2, PushKeeps DEF CallYield, Quiescent
<1>9. CASE SetAutoReconnect(t)
  BY <1>9 DEF SetAutoReconnect, StackDiscipline
<1> QED
  BY <1>1, <1>2, <1>3, <1>4, <1>5, <1>6, <1>7, <1>8, <1>9 DEF AppCall

\* These are all the steps.
LEMMA StepKeepsDiscipline ==
    ASSUME TypeOK, StackDiscipline, OneThread, [Next]_vars
    PROVE  StackDiscipline'
<1>1. CASE UNCHANGED vars
  BY <1>1 DEF StackDiscipline, vars
<1>2. ASSUME NEW t \in Threads, ThreadStep(t)
      PROVE  StackDiscipline'
  BY <1>2, AppCallKeeps, ConnectStepKeeps, DisconnectStepKeeps, RequestStepKeeps,
     AttemptStepKeeps, DeliverStepKeeps, YieldStepKeeps DEF ThreadStep
<1> QED
  BY <1>1, <1>2 DEF Next

\* A client used by one thread obeys the stack discipline, whatever the
\* application and its handlers call, however deep, and whatever the network
\* does: each compare-and-set that restores a state finds the state its call
\* set, and hands it to a call that is still there.
THEOREM SingleThreadDiscipline ==
    ASSUME OneThread
    PROVE  Spec => []StackDiscipline
<1>1. Init => StackDiscipline
  BY DEF Init, StackDiscipline, Disciplined, LostReported, Quiescent
<1>2. TypeOK /\ StackDiscipline /\ [Next]_vars => StackDiscipline'
  BY StepKeepsDiscipline
<1> QED
  BY <1>1, <1>2, TypeCorrect, PTL DEF Spec

\* A client used by one thread never gets stuck in the state of an operation
\* that nobody executes: after every outermost call it is idle, disconnected or
\* waiting to reconnect.  (Two threads lose this.)
THEOREM SingleThreadNotStuck ==
    ASSUME OneThread
    PROVE  Spec => []NotIdleMeansInProgress
<1>1. TypeOK /\ StackDiscipline => NotIdleMeansInProgress
  <2> SUFFICES ASSUME TypeOK, StackDiscipline, \A t \in Threads : Depth(t) = 0
               PROVE  clientState \in Quiescent
    BY DEF NotIdleMeansInProgress
  <2> QED
    BY SessionAssumption DEF StackDiscipline, Disciplined, Depth
<1> QED
  BY <1>1, TypeCorrect, SingleThreadDiscipline, PTL

=============================================================================
