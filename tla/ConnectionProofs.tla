-------------------------- MODULE ConnectionProofs --------------------------
(***************************************************************************)
(* MqttSession keeps the contract of its connection: client state and TLS  *)
(* context agree, and the session implements Connection.                   *)
(*                                                                         *)
(* First for a client used by one thread, however deep message handlers    *)
(* call the API; then what handlers, and a client that does not reconnect  *)
(* by itself, add to it; and last for any number of threads, of which one  *)
(* connects and yields and the others send requests.                       *)
(*                                                                         *)
(* The disconnect handler is taken to call nothing.  One that reconnects   *)
(* has its new state overwritten when it returns.                          *)
(***************************************************************************)
EXTENDS SessionProofs

HandlerSilent == HandlerCalls = {}

-----------------------------------------------------------------------------
(* The inductive invariant *)

\* The application may call any function from a message handler; a function
\* of the client calls a certain one from a certain place.
CallSites ==
    { << "wait", "deliver" >>, << "delivered", "deliver" >>,
      << "after_connect", "connect" >>, << "after_resubscribe", "resubscribe" >>,
      << "reconnected", "attempt_reconnect" >>, << "after_disconnect", "disconnect" >> }

\* May g be waiting for f.  Yield does not disconnect a client that waits for
\* its next attempt.
Caller(g, f) ==
    /\ g.pc = "callback" \/ << g.pc, f.op >> \in CallSites
    /\ g.pc = "after_disconnect" => f.saved # "PENDING_RECONNECT"

\* A function that was not refused has read one of these states.
SavedFits(f) ==
    /\ f.op = "connect" => ValidForConnect(f.saved)
    /\ f.op \in Requests \cup { "deliver" } => f.saved \in ConnectedStates
    /\ f.op = "disconnect" /\ f.pc # "check" => f.saved \in ConnectedStates

Nested(s) ==
    /\ \A i \in 1..Len(s) : SavedFits(s[i])
    /\ \A i \in 1..(Len(s) - 1) : Caller(s[i], s[i + 1])

\* A client that has never connected is in no call that needs a connection.
BeforeConnect == { "connect", "disconnect", "attempt_reconnect" }

NeverConnected(s, state) ==
    /\ state # "INVALID"
    /\ state = "INITIALIZED" => \A i \in 1..Len(s) : s[i].op \in BeforeConnect

\* Between the steps that set up or give up a connection there is a TLS
\* context just when the state says connected.
Settled(state, context) ==
    /\ state \notin { "CONNECTING", "DISCONNECTING" }
    /\ context <=> state \in ConnectedStates

InTransit(op, pc) ==
    \/ op = "connect" /\ pc # "cas"
    \/ op = "disconnect" /\ pc \notin { "check", "cas" }
    \/ pc = "force"

\* What the innermost call knows of state and context.
TopFits(op, pc, state, context) ==
    /\ op = "connect" /\ pc # "cas" =>
          state = "CONNECTING" /\ (context <=> pc \in { "connack", "ok" })
    /\ op = "disconnect" /\ pc \notin { "check", "cas" } =>
          state = "DISCONNECTING" /\ (context <=> pc # "done")
    /\ pc = "force" => state = "DISCONNECTED_ERROR"
    /\ ~InTransit(op, pc) => Settled(state, context)

\* What yield knows of the state on its way from a read to a lost connection.
YieldFits(pc, rc, state) ==
    /\ \/ pc \in { "read", "keep_alive", "disconnect", "after_disconnect" }
       \/ pc = "delivered" /\ rc = "SUCCESS"
       => state # "PENDING_RECONNECT"
    /\ pc = "after_disconnect" /\ rc = "SUCCESS" => state = "DISCONNECTED_MANUALLY"
    /\ pc = "handler" => state \in { "DISCONNECTED_MANUALLY", "DISCONNECTED_ERROR" }
    /\ pc = "lost" => state = "DISCONNECTED_ERROR"

FrameFits(f, state, context) ==
    TopFits(f.op, f.pc, state, context) /\ YieldFits(f.pc, f.rc, state)

Agrees(s, state, context) ==
    /\ Nested(s) /\ NeverConnected(s, state)
    /\ IF Len(s) = 0 THEN Settled(state, context)
       ELSE FrameFits(s[Len(s)], state, context)

LinkAgrees == \A t \in Threads : Agrees(stack[t], clientState, tls)

-----------------------------------------------------------------------------
(* The ways a stack changes *)

\* The innermost call goes on.
LEMMA GotoNested ==
    ASSUME NEW s \in Seq(Frames), Len(s) > 0, NEW state, NEW new,
           Nested(s), NeverConnected(s, state),
           NEW pc \in PcsOf(s[Len(s)].op), NEW rc \in Rcs,
           new # "INVALID", new = "INITIALIZED" => state = "INITIALIZED",
           s[Len(s)].op = "disconnect" /\ pc # "check" =>
              s[Len(s)].saved \in ConnectedStates
    PROVE  Nested(WithTop(s, pc, rc)) /\ NeverConnected(WithTop(s, pc, rc), new)
<1> DEFINE n == Len(s)
           w == WithTop(s, pc, rc)
<1>1. /\ n \in Nat /\ n > 0 /\ Len(w) = n
      /\ \A i \in 1..(n - 1) : w[i] = s[i]
      /\ w[n].op = s[n].op /\ w[n].saved = s[n].saved
      /\ w[n].pc = pc /\ w[n].rc = rc
  BY WithTopFacts
<1>2. \A i \in 1..n : w[i].op = s[i].op /\ w[i].saved = s[i].saved
  BY <1>1
<1> HIDE DEF w
<1>3. \A i \in 1..n : SavedFits(w[i])
  <2>1. ASSUME NEW i \in 1..n, i # n PROVE SavedFits(w[i])
    BY <1>1, <2>1 DEF Nested
  <2>2. SavedFits(s[n])
    BY <1>1 DEF Nested
  <2>3. SavedFits(w[n])
    BY <1>1, <2>2 DEF SavedFits
  <2> QED
    BY <2>1, <2>3
<1>4. \A i \in 1..(n - 1) : Caller(w[i], w[i + 1])
  <2> SUFFICES ASSUME NEW i \in 1..(n - 1) PROVE Caller(w[i], w[i + 1])
    OBVIOUS
  <2>1. Caller(s[i], s[i + 1]) /\ i + 1 \in 1..n
    BY <1>1 DEF Nested
  <2> QED
    BY <1>1, <1>2, <2>1 DEF Caller
<1>5. NeverConnected(w, new)
  BY <1>1, <1>2 DEF NeverConnected
<1> QED
  BY <1>1, <1>3, <1>4, <1>5 DEF Nested, w

\* A new call.
LEMMA PushAgrees ==
    ASSUME NEW s \in Seq(Frames), NEW state, NEW context,
           Nested(s), NeverConnected(s, state), NEW f \in Frames,
           SavedFits(f), Len(s) > 0 => Caller(s[Len(s)], f),
           state = "INITIALIZED" => f.op \in BeforeConnect,
           FrameFits(f, state, context)
    PROVE  Agrees(Append(s, f), state, context)
<1> DEFINE n == Len(s)
           a == Append(s, f)
<1>1. /\ n \in Nat /\ Len(a) = n + 1 /\ a[n + 1] = f
      /\ \A i \in 1..n : a[i] = s[i]
  BY AppendFacts
<1> HIDE DEF a
<1>2. \A i \in 1..(n + 1) : i \in 1..n \/ i = n + 1
  BY <1>1
<1>3. \A i \in 1..(n + 1) : SavedFits(a[i])
  BY <1>1, <1>2 DEF Nested
<1>4. \A i \in 1..n : Caller(a[i], a[i + 1])
  <2>1. ASSUME NEW i \in 1..(n - 1) PROVE Caller(a[i], a[i + 1])
    <3>1. i \in 1..n /\ i + 1 \in 1..n
      BY <1>1
    <3> QED
      BY <1>1, <3>1 DEF Nested
  <2>2. n > 0 => Caller(a[n], a[n + 1])
    BY <1>1
  <2> QED
    BY <1>1, <2>1, <2>2
<1>5. NeverConnected(a, state)
  BY <1>1, <1>2 DEF NeverConnected
<1> QED
  BY <1>1, <1>3, <1>4, <1>5 DEF Agrees, Nested, a

\* A function that waits gets the result of the one it has called.
LEMMA ReturnedResult ==
    ASSUME NEW s \in Seq(Frames), NEW n \in Nat, n > 0, Len(s) = n + 1, NEW rc \in Rcs,
           s[n].pc \notin { "callback", "handler" }
    PROVE  Returned(s, rc)[n].rc = rc
<1> DEFINE rest == Pop(s)
<1>1. rest \in Seq(Frames) /\ Len(rest) = n /\ \A i \in 1..n : rest[i] = s[i]
  BY PopFacts
<1> HIDE DEF rest
<1>2. rest[n] = s[n] /\ rest[n] \in Frames
  BY <1>1
<1>3. rest[n].pc \in PcsOf(rest[n].op)
  BY <1>2 DEF Frames
<1>4. Returned(s, rc) = WithTop(rest, rest[n].pc, rc)
  BY <1>1, <1>2 DEF Returned, rest
<1> QED
  BY <1>1, <1>3, <1>4, WithTopFacts

\* A return.  The caller is a handler, which takes no notice of the result, or
\* the function that was waiting for it.
LEMMA ReturnAgrees ==
    ASSUME NEW s \in Seq(Frames), Len(s) > 0, NEW state, NEW new, NEW context,
           Nested(s), NeverConnected(s, state), NEW rc \in Rcs,
           new # "INVALID", new = "INITIALIZED" => state = "INITIALIZED",
           Settled(new, context),
           s[Len(s)].op = "deliver" /\ rc = "SUCCESS" => new \in ConnectedStates,
           s[Len(s)].op = "disconnect" =>
              /\ new \in { s[Len(s)].saved, "DISCONNECTED_MANUALLY" }
              /\ rc = "SUCCESS" => new = "DISCONNECTED_MANUALLY"
    PROVE  Agrees(Returned(s, rc), new, context)
<1> DEFINE n == Len(s) - 1
           r == Returned(s, rc)
<1>1. /\ n \in Nat /\ Len(r) = n /\ Len(s) = n + 1 /\ r \in Seq(Frames)
      /\ \A i \in 1..n : /\ r[i].op = s[i].op /\ r[i].pc = s[i].pc
                         /\ r[i].saved = s[i].saved
                         /\ \/ r[i].rc = s[i].rc
                            \/ /\ i = n /\ r[i].rc = rc
                               /\ s[i].pc \notin {"callback", "handler"}
  BY ReturnedFacts
<1> HIDE DEF r, n
<1>2. \A i \in 1..n : SavedFits(r[i])
  BY <1>1 DEF Nested, SavedFits
<1>3. \A i \in 1..(n - 1) : Caller(r[i], r[i + 1])
  <2> SUFFICES ASSUME NEW i \in 1..(n - 1) PROVE Caller(r[i], r[i + 1])
    OBVIOUS
  <2>1. Caller(s[i], s[i + 1]) /\ i \in 1..n /\ i + 1 \in 1..n
    BY <1>1 DEF Nested
  <2> QED
    BY <1>1, <2>1 DEF Caller
<1>4. NeverConnected(r, new)
  BY <1>1 DEF NeverConnected
<1>5. n > 0 => FrameFits(r[n], new, context)
  <2> SUFFICES ASSUME n > 0 PROVE FrameFits(r[n], new, context)
    OBVIOUS
  <2>1. n \in 1..n /\ n \in 1..(Len(s) - 1)
    BY <1>1
  <2>2. Caller(s[n], s[n + 1]) /\ r[n].pc = s[n].pc
    BY <1>1, <2>1 DEF Nested
  <2>3. r[n] \in Frames
    BY <1>1, <2>1, ElementOfSeq
  <2>4. r[n].op \in Ops /\ r[n].pc \in PcsOf(r[n].op)
    BY <2>3 DEF Frames
  <2>5. r[n].pc \in { "callback", "wait", "delivered", "after_connect",
                      "after_resubscribe", "reconnected", "after_disconnect" }
    BY <2>2 DEF Caller, CallSites
  <2>6. r[n].op \notin { "connect", "disconnect" } /\ r[n].pc # "force"
    BY <2>4, <2>5, PcsFacts
  <2>7. TopFits(r[n].op, r[n].pc, new, context)
    BY <2>6 DEF TopFits
  <2>8. new \in ConnectedStates => new # "PENDING_RECONNECT"
    BY DEF ConnectedStates
  <2>9. r[n].pc # "callback" => r[n].rc = rc
    BY <1>1, <2>2, <2>5, ReturnedResult DEF r
  <2>10. /\ r[n].pc = "delivered" => s[n + 1].op = "deliver"
         /\ r[n].pc = "after_disconnect" => /\ s[n + 1].op = "disconnect"
                                            /\ s[n + 1].saved # "PENDING_RECONNECT"
    BY <2>2 DEF Caller, CallSites
  <2>11. YieldFits(r[n].pc, r[n].rc, new)
    BY <1>1, <2>5, <2>8, <2>9, <2>10 DEF YieldFits
  <2> QED
    BY <2>7, <2>11 DEF FrameFits
<1> QED
  BY <1>1, <1>2, <1>3, <1>4, <1>5 DEF Agrees, Nested, r

-----------------------------------------------------------------------------
(* The same for the only thread *)

\* What the agreement says about the innermost call.
LEMMA TopAgrees ==
    ASSUME TypeOK, LinkAgrees, NEW t \in Threads, Depth(t) > 0
    PROVE  /\ SavedFits(Top(t))
           /\ TopFits(Top(t).op, Top(t).pc, clientState, tls)
           /\ YieldFits(Top(t).pc, Top(t).rc, clientState)
           /\ clientState # "INVALID"
           /\ clientState = "INITIALIZED" => Top(t).op \in BeforeConnect
<1>1. Depth(t) \in 1..Len(stack[t]) /\ Len(stack[t]) # 0
  BY DEF TypeOK, Depth
<1>2. Agrees(stack[t], clientState, tls)
  BY DEF LinkAgrees
<1> QED
  BY <1>1, <1>2 DEF Agrees, Nested, NeverConnected, FrameFits, Depth, Top

LEMMA LinkGoto ==
    ASSUME TypeOK, LinkAgrees, OneThread, NEW t \in Threads, Depth(t) > 0,
           NEW pc \in PcsOf(Top(t).op), NEW rc \in Rcs, Goto(t, pc, rc),
           clientState' # "INVALID",
           clientState' = "INITIALIZED" => clientState = "INITIALIZED",
           Top(t).op = "disconnect" /\ pc # "check" => Top(t).saved \in ConnectedStates,
           TopFits(Top(t).op, pc, clientState', tls'), YieldFits(pc, rc, clientState')
    PROVE  LinkAgrees'
<1> DEFINE s == stack[t]
           w == WithTop(s, pc, rc)
           new == clientState'
           context == tls'
<1>1. s \in Seq(Frames) /\ Nested(s) /\ NeverConnected(s, clientState) /\ Len(s) > 0
  BY DEF TypeOK, LinkAgrees, Agrees, Depth
<1>2. /\ Len(w) = Len(s) /\ Len(w) # 0
      /\ w[Len(w)].op = Top(t).op /\ w[Len(w)].pc = pc /\ w[Len(w)].rc = rc
  BY <1>1, WithTopFacts DEF Depth, Top
<1>3. stack'[t] = w
  BY DEF Goto, TypeOK
<1> HIDE DEF new, context
<1>4. Nested(w) /\ NeverConnected(w, new)
  BY <1>1, GotoNested DEF Depth, Top, new
<1> HIDE DEF w
<1>5. Agrees(w, new, context)
  BY <1>2, <1>4 DEF Agrees, FrameFits, new, context
<1> QED
  BY <1>3, <1>5 DEF LinkAgrees, OneThread, new, context

LEMMA LinkReturn ==
    ASSUME TypeOK, LinkAgrees, OneThread, NEW t \in Threads, Depth(t) > 0,
           NEW rc \in Rcs, Return(t, rc),
           clientState' # "INVALID",
           clientState' = "INITIALIZED" => clientState = "INITIALIZED",
           Settled(clientState', tls'),
           Top(t).op = "deliver" /\ rc = "SUCCESS" => clientState' \in ConnectedStates,
           Top(t).op = "disconnect" =>
              /\ clientState' \in { Top(t).saved, "DISCONNECTED_MANUALLY" }
              /\ rc = "SUCCESS" => clientState' = "DISCONNECTED_MANUALLY"
    PROVE  LinkAgrees'
<1> DEFINE s == stack[t]
           new == clientState'
           context == tls'
<1>1. s \in Seq(Frames) /\ Nested(s) /\ NeverConnected(s, clientState) /\ Len(s) > 0
  BY DEF TypeOK, LinkAgrees, Agrees, Depth
<1>2. stack'[t] = Returned(s, rc)
  BY DEF Return, TypeOK
<1>3. Agrees(Returned(s, rc), new, context)
  <2> HIDE DEF new, context
  <2> QED
    BY <1>1, ReturnAgrees DEF Depth, Top, new, context
<1> QED
  BY <1>2, <1>3 DEF LinkAgrees, OneThread

\* The application calls a function: from outside, or from a message handler.
LEMMA LinkPush ==
    ASSUME TypeOK, LinkAgrees, OneThread, NEW t \in Threads,
           NEW f \in Frames, Push(t, f), UNCHANGED << clientState, tls >>,
           Depth(t) > 0 => Top(t).pc = "callback",
           SavedFits(f), clientState = "INITIALIZED" => f.op \in BeforeConnect,
           FrameFits(f, clientState, tls)
    PROVE  LinkAgrees'
<1> DEFINE s == stack[t]
<1>1. s \in Seq(Frames) /\ Nested(s) /\ NeverConnected(s, clientState)
  BY DEF TypeOK, LinkAgrees, Agrees
<1>2. stack'[t] = Append(s, f)
  BY DEF Push, TypeOK
<1>3. Len(s) > 0 => Caller(s[Len(s)], f)
  BY DEF Caller, Depth, Top
<1>4. Agrees(Append(s, f), clientState, tls)
  BY <1>1, <1>3, PushAgrees
<1> QED
  BY <1>2, <1>4 DEF LinkAgrees, OneThread

\* A function of the client calls another one.
LEMMA LinkInvoke ==
    ASSUME TypeOK, LinkAgrees, OneThread, NEW t \in Threads, Depth(t) > 0,
           NEW pc \in PcsOf(Top(t).op), NEW f \in Frames,
           Invoke(t, pc, f), UNCHANGED << clientState, tls >>,
           Top(t).op # "disconnect", << pc, f.op >> \in CallSites,
           pc = "after_disconnect" => f.saved # "PENDING_RECONNECT",
           SavedFits(f), clientState = "INITIALIZED" => f.op \in BeforeConnect,
           FrameFits(f, clientState, tls)
    PROVE  LinkAgrees'
<1> DEFINE s == stack[t]
           w == WithTop(s, pc, "SUCCESS")
<1>1. /\ s \in Seq(Frames) /\ Nested(s) /\ NeverConnected(s, clientState)
      /\ Len(s) > 0 /\ "SUCCESS" \in Rcs
  BY DEF TypeOK, LinkAgrees, Agrees, Depth, Rcs
<1>2. w \in Seq(Frames) /\ Len(w) = Len(s) /\ w[Len(w)].pc = pc
  BY <1>1, WithTopFacts DEF Depth, Top
<1>3. clientState # "INVALID"
  BY <1>1 DEF NeverConnected
<1>4. Nested(w) /\ NeverConnected(w, clientState)
  BY <1>1, <1>3, GotoNested DEF Depth, Top
<1>5. stack'[t] = Append(w, f)
  BY DEF Invoke, TypeOK
<1> HIDE DEF w
<1>6. Len(w) > 0 => Caller(w[Len(w)], f)
  BY <1>2 DEF Caller
<1>7. Agrees(Append(w, f), clientState, tls)
  BY <1>2, <1>4, <1>6, PushAgrees
<1> QED
  BY <1>5, <1>7 DEF LinkAgrees, OneThread

-----------------------------------------------------------------------------
(* Every step keeps the agreement *)

\* What the provers need of the client states.
LEMMA StateFacts ==
    /\ Busy("connect") = "CONNECTING" /\ Busy("disconnect") = "DISCONNECTING"
    /\ Busy("yield") \in ConnectedStates /\ Busy("deliver") \in ConnectedStates
    /\ \A op \in Requests : Busy(op) \in ConnectedStates
    /\ "CONNECTED_IDLE" \in ConnectedStates
    /\ \A s \in ConnectedStates :
          s \notin { "INVALID", "INITIALIZED", "CONNECTING", "DISCONNECTING",
                     "DISCONNECTED_ERROR", "DISCONNECTED_MANUALLY", "PENDING_RECONNECT" }
    /\ \A s \in ClientStates :
          s \in { "INVALID", "INITIALIZED", "CONNECTING", "DISCONNECTING",
                  "DISCONNECTED_ERROR", "DISCONNECTED_MANUALLY", "PENDING_RECONNECT" }
             \cup ConnectedStates
    /\ \A s : ValidForConnect(s) => s \notin ConnectedStates /\ s # "INVALID"
                                    /\ s \notin { "CONNECTING", "DISCONNECTING" }
BY DEF Busy, ConnectedStates, ClientStates, Requests, ValidForConnect

\* The steps of connect,
LEMMA ConnectStepLinks ==
    ASSUME TypeOK, StackDiscipline, LinkAgrees, OneThread, NEW t \in Threads, ConnectStep(t)
    PROVE  LinkAgrees'
<1>0. /\ Depth(t) > 0 /\ Top(t).op = "connect"
      /\ Top(t).pc = "cas" => clientState = Top(t).saved
      /\ ValidForConnect(Top(t).saved)
      /\ TopFits("connect", Top(t).pc, clientState, tls)
      /\ tls \in BOOLEAN
  <2>1. Depth(t) > 0 /\ Top(t).op = "connect"
    BY DEF ConnectStep, At, ConnectStart, ConnectTls, ConnectAck, ConnectDone,
       ConnectFailed
  <2> QED
    BY <2>1, TopSound, OwnedFacts, TopAgrees DEF SavedFits, TypeOK
<1>1. CASE ConnectStart(t)
  <2>1. clientState' = "CONNECTING" /\ tls' = tls /\ ~tls
    BY <1>0, <1>1, StateFacts DEF ConnectStart, At, SetClientState, TopFits, InTransit,
       Settled
  <2> QED
    BY <1>0, <1>1, <2>1, LinkGoto, PcsFacts
       DEF ConnectStart, At, Rcs, TopFits, InTransit, YieldFits
<1>2. CASE ConnectTls(t)
  <2>1. clientState' = clientState /\ clientState = "CONNECTING"
    BY <1>0, <1>2 DEF ConnectTls, At, TopFits
  <2> QED
    BY <1>0, <1>2, <2>1, LinkGoto, PcsFacts
       DEF ConnectTls, At, Rcs, TopFits, InTransit, YieldFits
<1>3. CASE ConnectAck(t)
  <2>1. clientState' = clientState /\ clientState = "CONNECTING"
    BY <1>0, <1>3 DEF ConnectAck, At, TopFits
  <2>2. \/ tls' = TRUE /\ Goto(t, "ok", "SUCCESS")
        \/ tls' = FALSE /\ Goto(t, "failed", "SUCCESS")
    BY <1>0, <1>3 DEF ConnectAck
  <2> QED
    BY <1>0, <2>1, <2>2, LinkGoto, PcsFacts
       DEF Rcs, TopFits, InTransit, YieldFits
<1>4. CASE ConnectDone(t)
  <2>1. clientState' = "CONNECTED_IDLE" /\ tls' /\ clientState' \in ConnectedStates
    BY <1>0, <1>4, StateFacts DEF ConnectDone, At, TopFits, SetClientState
  <2> QED
    BY <1>0, <1>4, <2>1, LinkReturn, StateFacts DEF ConnectDone, At, Rcs, Settled
<1>5. CASE ConnectFailed(t)
  <2>1. clientState' = "DISCONNECTED_ERROR" /\ ~tls' /\ clientState' \notin ConnectedStates
    BY <1>0, <1>5, StateFacts DEF ConnectFailed, At, TopFits, SetClientState
  <2> QED
    BY <1>0, <1>5, <2>1, LinkReturn DEF ConnectFailed, At, Rcs, Settled
<1> QED
  BY <1>1, <1>2, <1>3, <1>4, <1>5 DEF ConnectStep

\* of disconnect, which gives up the context only with the connection,
LEMMA DisconnectStepLinks ==
    ASSUME TypeOK, StackDiscipline, LinkAgrees, OneThread, NEW t \in Threads, DisconnectStep(t)
    PROVE  LinkAgrees'
<1>0. /\ Depth(t) > 0 /\ Top(t).op = "disconnect"
      /\ Top(t).pc \in { "check", "cas" } => clientState = Top(t).saved
      /\ Top(t).pc # "check" => Top(t).saved \in ConnectedStates
      /\ TopFits("disconnect", Top(t).pc, clientState, tls)
      /\ tls \in BOOLEAN /\ clientState # "INVALID"
  <2>1. Depth(t) > 0 /\ Top(t).op = "disconnect"
    BY DEF DisconnectStep, At, DisconnectCheck, DisconnectStart, DisconnectSend,
       DisconnectDone, DisconnectUndo
  <2> QED
    BY <2>1, TopSound, OwnedFacts, TopAgrees DEF SavedFits, TypeOK
<1>1. CASE DisconnectCheck(t)
  <2>1. /\ clientState' = clientState /\ tls' = tls /\ Settled(clientState', tls')
        /\ clientState' = Top(t).saved
    BY <1>0, <1>1 DEF DisconnectCheck, At, TopFits, InTransit
  <2>2. CASE clientState \in ConnectedStates
    BY <1>0, <1>1, <2>1, <2>2, LinkGoto, PcsFacts
       DEF DisconnectCheck, At, IsClientConnected, Rcs, TopFits, InTransit, YieldFits
  <2>3. CASE clientState \notin ConnectedStates
    BY <1>0, <1>1, <2>1, <2>3, LinkReturn
       DEF DisconnectCheck, At, IsClientConnected, Rcs
  <2> QED
    BY <2>2, <2>3
<1>2. CASE DisconnectStart(t)
  <2>1. /\ clientState' = "DISCONNECTING" /\ tls' = TRUE /\ Top(t).saved \in ConnectedStates
        /\ Goto(t, "send", "SUCCESS")
    BY <1>0, <1>2, StateFacts DEF DisconnectStart, At, SetClientState, TopFits,
       InTransit, Settled
  <2> QED
    BY <1>0, <2>1, LinkGoto, PcsFacts
       DEF Rcs, TopFits, InTransit, YieldFits
<1>3. CASE DisconnectSend(t)
  <2>1. clientState' = clientState /\ clientState = "DISCONNECTING" /\ tls
    BY <1>0, <1>3 DEF DisconnectSend, At, TopFits
  <2> QED
    BY <1>0, <1>3, <2>1, LinkGoto, PcsFacts
       DEF DisconnectSend, At, Rcs, TopFits, InTransit, YieldFits
<1>4. CASE DisconnectDone(t)
  <2>1. clientState' = "DISCONNECTED_MANUALLY" /\ ~tls' /\ clientState' \notin ConnectedStates
    BY <1>0, <1>4, StateFacts DEF DisconnectDone, At, TopFits
  <2> QED
    BY <1>0, <1>4, <2>1, LinkReturn DEF DisconnectDone, At, Rcs, Settled
<1>5. CASE DisconnectUndo(t)
  <2>1. clientState' = Top(t).saved /\ tls' /\ clientState' \in ConnectedStates
    BY <1>0, <1>5 DEF DisconnectUndo, At, TopFits
  <2> QED
    BY <1>0, <1>5, <2>1, LinkReturn, StateFacts DEF DisconnectUndo, At, Rcs, Settled
<1> QED
  BY <1>1, <1>2, <1>3, <1>4, <1>5 DEF DisconnectStep

\* of the requests,
LEMMA RequestStepLinks ==
    ASSUME TypeOK, StackDiscipline, LinkAgrees, OneThread, NEW t \in Threads, RequestStep(t)
    PROVE  LinkAgrees'
<1>0. /\ Depth(t) > 0 /\ Top(t).op \in Requests
      /\ Top(t).pc = "cas" => clientState = Top(t).saved
      /\ Top(t).saved \in ConnectedStates /\ Busy(Top(t).op) \in ConnectedStates
      /\ Settled(clientState, tls)
      /\ clientState # "INVALID"
      /\ Top(t).op \notin { "connect", "disconnect", "deliver" }
      /\ Top(t).rc \in Rcs
  <2>1. Depth(t) > 0 /\ Top(t).op \in Requests
    BY DEF RequestStep, At, RequestStart, UnsubscribeRollback, RequestSend,
       RequestWait, RequestRestore, Requests
  <2>2. Top(t).pc # "force"
    BY <2>1, TopType, PcsFacts
  <2>3. Top(t).op \notin { "connect", "disconnect", "deliver" }
    BY <2>1 DEF Requests
  <2> QED
    BY <2>1, <2>2, <2>3, TopType, TopSound, OwnedFacts, TopAgrees, StateFacts
       DEF SavedFits, TopFits, InTransit
<1>1. ASSUME NEW pc \in { "send", "wait", "restore" }, NEW rc \in Rcs, Goto(t, pc, rc),
             clientState' # "INVALID", Settled(clientState', tls'),
             clientState' = "INITIALIZED" => clientState = "INITIALIZED"
      PROVE  LinkAgrees'
  BY <1>0, <1>1, LinkGoto, PcsFacts DEF TopFits, InTransit, YieldFits
<1>2. ASSUME NEW rc \in Rcs, Return(t, rc), Settled(clientState', tls'),
             clientState' \in ConnectedStates \cup { clientState }
      PROVE  LinkAgrees'
  BY <1>0, <1>2, LinkReturn, StateFacts
<1>3. CASE RequestStart(t)
  <2>1. /\ clientState' = Busy(Top(t).op) /\ Goto(t, "send", "SUCCESS")
        /\ clientState' \in ConnectedStates /\ clientState \in ConnectedStates
    BY <1>0, <1>3 DEF RequestStart, At, SetClientState
  <2>2. Settled(clientState', tls')
    BY <1>0, <1>3, <2>1, StateFacts DEF RequestStart, Settled
  <2> QED
    BY <1>1, <2>1, <2>2, StateFacts DEF Rcs
<1>4. CASE UnsubscribeRollback(t)
  <2> DEFINE rc == RestoreRc("SUCCESS", Busy("unsubscribe"))
  <2>1. Return(t, rc) /\ rc \in Rcs
    BY <1>4 DEF UnsubscribeRollback, RestoreRc, Rcs
  <2>2. /\ tls' = tls
        /\ \/ clientState' = clientState
           \/ clientState \in ConnectedStates /\ clientState' \in ConnectedStates
    BY <1>0, <1>4, StateFacts DEF UnsubscribeRollback, SetClientState, Requests
  <2>3. Settled(clientState', tls') /\ clientState' \in ConnectedStates \cup { clientState }
    BY <1>0, <2>2, StateFacts DEF Settled
  <2> QED
    BY <1>2, <2>1, <2>3, Zenon
<1>5. CASE RequestSend(t)
  <2>1. clientState' = clientState /\ Settled(clientState', tls')
    BY <1>0, <1>5 DEF RequestSend
  <2> QED
    BY <1>0, <1>1, <1>5, <2>1 DEF RequestSend, Rcs
<1>6. CASE RequestWait(t)
  <2>1. clientState' = clientState /\ tls' = tls /\ Settled(clientState', tls')
    BY <1>0, <1>6 DEF RequestWait
  <2>2. CASE \E pc \in { "send", "restore" }, rc \in { "SUCCESS", "ERROR" } : Goto(t, pc, rc)
    BY <1>0, <1>1, <2>1, <2>2 DEF Rcs
  <2>3. CASE tls /\ Invoke(t, "wait", Frame("deliver", "cas", clientState))
    <3> DEFINE f == Frame("deliver", "cas", clientState)
    <3>1. clientState \in ConnectedStates
      BY <1>0, <2>3 DEF Settled
    <3>2. f \in Frames /\ f.rc = "SUCCESS" /\ f.op = "deliver" /\ f.pc = "cas"
          /\ f.saved = clientState
      BY FrameFacts, PcsFacts DEF Ops, Requests, ClientStates, TypeOK
    <3> HIDE DEF f
    <3>3. SavedFits(f)
      BY <3>1, <3>2 DEF SavedFits
    <3>4. FrameFits(f, clientState, tls)
      BY <1>0, <3>2 DEF FrameFits, TopFits, InTransit, YieldFits
    <3>5. << "wait", f.op >> \in CallSites /\ "wait" \in PcsOf(Top(t).op)
      BY <1>0, <3>2, PcsFacts DEF CallSites
    <3> QED
      BY <1>0, <2>1, <2>3, <3>1, <3>2, <3>3, <3>4, <3>5, LinkInvoke, StateFacts DEF f
  <2> QED
    BY <1>6, <2>2, <2>3 DEF RequestWait
<1>7. CASE RequestRestore(t)
  <2> DEFINE rc == RestoreRc(Top(t).rc, Busy(Top(t).op))
  <2>1. Return(t, rc) /\ rc \in Rcs
    BY <1>0, <1>7 DEF RequestRestore, RestoreRc, Rcs
  <2>2. /\ tls' = tls
        /\ \/ clientState' = clientState
           \/ clientState \in ConnectedStates /\ clientState' \in ConnectedStates
    BY <1>0, <1>7 DEF RequestRestore, SetClientState
  <2>3. Settled(clientState', tls') /\ clientState' \in ConnectedStates \cup { clientState }
    BY <1>0, <2>2, StateFacts DEF Settled
  <2> QED
    BY <1>2, <2>1, <2>3, Zenon
<1> QED
  BY <1>3, <1>4, <1>5, <1>6, <1>7 DEF RequestStep

\* of attempt_reconnect,
LEMMA AttemptStepLinks ==
    ASSUME TypeOK, StackDiscipline, LinkAgrees, OneThread, NEW t \in Threads, AttemptStep(t)
    PROVE  LinkAgrees'
<1>0. /\ Depth(t) > 0 /\ Top(t).op = "attempt_reconnect"
      /\ Settled(clientState, tls) /\ clientState # "INVALID" /\ Top(t).rc \in Rcs
  <2>1. Depth(t) > 0 /\ Top(t).op = "attempt_reconnect"
    BY DEF AttemptStep, At, AttemptConnect, AttemptAfterConnect, AttemptPending,
       AttemptResubscribe, AttemptAfterResubscribe
  <2>2. Top(t).pc # "force"
    BY <2>1, TopType, PcsFacts
  <2> QED
    BY <2>1, <2>2, TopType, TopAgrees DEF TopFits, InTransit
<1>1. ASSUME NEW pc \in { "after_connect", "resubscribe", "pending" },
             Goto(t, pc, "SUCCESS"), UNCHANGED << clientState, tls >>
      PROVE  LinkAgrees'
  <2>1. Settled(clientState', tls') /\ clientState' = clientState
    BY <1>0, <1>1
  <2> QED
    BY <1>0, <1>1, <2>1, LinkGoto, PcsFacts DEF TopFits, InTransit, YieldFits, Rcs
<1>2. ASSUME NEW rc \in Rcs, Return(t, rc), UNCHANGED << clientState, tls >>
      PROVE  LinkAgrees'
  <2>1. Settled(clientState', tls') /\ clientState' = clientState
    BY <1>0, <1>2
  <2> QED
    BY <1>0, <1>2, <2>1, LinkReturn
<1>3. CASE AttemptConnect(t)
  <2>1. CASE ~ValidForConnect(clientState)
    BY <1>1, <1>3, <2>1 DEF AttemptConnect
  <2>2. CASE ValidForConnect(clientState)
    <3> DEFINE f == Frame("connect", "cas", clientState)
    <3>1. f \in Frames /\ f.rc = "SUCCESS" /\ f.op = "connect" /\ f.pc = "cas"
          /\ f.saved = clientState
      BY FrameFacts, PcsFacts DEF Ops, Requests, ClientStates, TypeOK
    <3>2. Invoke(t, "after_connect", f) /\ UNCHANGED << clientState, tls >>
      BY <1>3, <2>2 DEF AttemptConnect
    <3> HIDE DEF f
    <3>3. SavedFits(f)
      BY <2>2, <3>1 DEF SavedFits, Requests
    <3>4. FrameFits(f, clientState, tls)
      BY <1>0, <3>1 DEF FrameFits, TopFits, InTransit, YieldFits
    <3>5. /\ << "after_connect", f.op >> \in CallSites /\ f.op \in BeforeConnect
          /\ "after_connect" \in PcsOf(Top(t).op)
      BY <1>0, <3>1, PcsFacts DEF CallSites, BeforeConnect
    <3> QED
      BY <1>0, <3>1, <3>2, <3>3, <3>4, <3>5, LinkInvoke
  <2> QED
    BY <2>1, <2>2
<1>4. CASE AttemptAfterConnect(t)
  BY <1>1, <1>4 DEF AttemptAfterConnect
<1>5. CASE AttemptPending(t)
  <2>1. \/ clientState' = clientState /\ tls' = tls
        \/ clientState = "DISCONNECTED_ERROR" /\ clientState' = "PENDING_RECONNECT" /\ tls' = tls
    BY <1>5 DEF AttemptPending, SetClientState
  <2>2. Settled(clientState', tls')
    BY <1>0, <2>1, StateFacts DEF Settled
  <2> QED
    BY <1>0, <1>5, <2>1, <2>2, LinkReturn DEF AttemptPending, Rcs
<1>6. CASE AttemptResubscribe(t)
  <2>1. CASE clientState # "CONNECTED_IDLE"
    BY <1>2, <1>6, <2>1 DEF AttemptResubscribe, Rcs
  <2>2. CASE clientState = "CONNECTED_IDLE"
    <3> DEFINE f == Frame("resubscribe", "cas", "CONNECTED_IDLE")
    <3>1. f \in Frames /\ f.rc = "SUCCESS" /\ f.op = "resubscribe" /\ f.pc = "cas"
          /\ f.saved = "CONNECTED_IDLE"
      BY FrameFacts, PcsFacts DEF Ops, Requests, ClientStates
    <3>2. Invoke(t, "after_resubscribe", f) /\ UNCHANGED << clientState, tls >>
      BY <1>6, <2>2 DEF AttemptResubscribe
    <3> HIDE DEF f
    <3>3. SavedFits(f)
      BY <3>1, StateFacts DEF SavedFits
    <3>4. FrameFits(f, clientState, tls)
      BY <1>0, <3>1 DEF FrameFits, TopFits, InTransit, YieldFits
    <3>5. /\ << "after_resubscribe", f.op >> \in CallSites
          /\ "after_resubscribe" \in PcsOf(Top(t).op)
      BY <1>0, <3>1, PcsFacts DEF CallSites
    <3> QED
      BY <1>0, <2>2, <3>1, <3>2, <3>3, <3>4, <3>5, LinkInvoke
  <2> QED
    BY <2>1, <2>2
<1>7. CASE AttemptAfterResubscribe(t)
  BY <1>0, <1>2, <1>7 DEF AttemptAfterResubscribe, Rcs
<1> QED
  BY <1>3, <1>4, <1>5, <1>6, <1>7 DEF AttemptStep

\* of a delivery,
LEMMA DeliverStepLinks ==
    ASSUME TypeOK, StackDiscipline, LinkAgrees, OneThread, NEW t \in Threads, DeliverStep(t)
    PROVE  LinkAgrees'
<1>0. /\ Depth(t) > 0 /\ Top(t).op = "deliver"
      /\ Top(t).pc = "cas" => clientState = Top(t).saved
      /\ Top(t).saved \in ConnectedStates /\ Busy("deliver") \in ConnectedStates
      /\ Settled(clientState, tls) /\ clientState # "INVALID"
  <2>1. Depth(t) > 0 /\ Top(t).op = "deliver"
    BY DEF DeliverStep, At, DeliverStart, DeliverReturn
  <2>2. Top(t).pc # "force"
    BY <2>1, TopType, PcsFacts
  <2> QED
    BY <2>1, <2>2, TopSound, OwnedFacts, TopAgrees, StateFacts
       DEF SavedFits, TopFits, InTransit
<1>1. CASE DeliverStart(t)
  <2>1. clientState' = Busy("deliver") /\ clientState \in ConnectedStates /\ tls' = tls
    BY <1>0, <1>1 DEF DeliverStart, At, SetClientState
  <2>2. Settled(clientState', tls')
    BY <1>0, <2>1, StateFacts DEF Settled
  <2> QED
    BY <1>0, <1>1, <2>1, <2>2, LinkGoto, PcsFacts, StateFacts
       DEF DeliverStart, Rcs, TopFits, InTransit, YieldFits
<1>2. CASE DeliverReturn(t)
  <2> DEFINE rc == RestoreRc("SUCCESS", Busy("deliver"))
  <2>1. Return(t, rc) /\ rc \in Rcs
    BY <1>2 DEF DeliverReturn, RestoreRc, Rcs
  <2>2. /\ tls' = tls
        /\ \/ clientState' = clientState
           \/ clientState \in ConnectedStates /\ clientState' \in ConnectedStates
        /\ rc = "SUCCESS" => clientState' \in ConnectedStates
    BY <1>0, <1>2 DEF DeliverReturn, SetClientState, RestoreRc
  <2>3. Settled(clientState', tls')
    BY <1>0, <2>2, StateFacts DEF Settled
  <2> HIDE DEF rc
  <2> QED
    BY <1>0, <2>1, <2>2, <2>3, LinkReturn, StateFacts
<1> QED
  BY <1>1, <1>2 DEF DeliverStep

\* of yield, which gives up the context of a connection it has lost,
LEMMA YieldStepLinks ==
    ASSUME TypeOK, StackDiscipline, LinkAgrees, OneThread, NEW t \in Threads, YieldStep(t)
    PROVE  LinkAgrees'
<1>0. /\ Depth(t) > 0 /\ Top(t).op = "yield" /\ Top(t).rc \in Rcs
      /\ Top(t).pc = "cas" => clientState = Top(t).saved
      /\ Top(t).pc # "force" => Settled(clientState, tls)
      /\ Top(t).pc = "force" => clientState = "DISCONNECTED_ERROR"
      /\ YieldFits(Top(t).pc, Top(t).rc, clientState)
      /\ clientState \notin { "INVALID", "INITIALIZED" }
  <2>1. Depth(t) > 0 /\ Top(t).op = "yield"
    BY DEF YieldStep, At, YieldStart, YieldLoop, YieldReconnect, YieldReconnected,
       YieldRead, YieldDelivered, KeepAlive, HandleDisconnect, HandleDisconnectResult,
       ForceClientDisconnect, DisconnectHandlerReturn, YieldLost, YieldAgain, YieldExit
  <2> QED
    BY <2>1, TopType, TopSound, OwnedFacts, TopAgrees DEF TopFits, InTransit,
       BeforeConnect
<1>1. ASSUME NEW pc \in PcsOf("yield"), NEW rc \in Rcs, Goto(t, pc, rc), pc # "force",
             clientState' \notin { "INVALID", "INITIALIZED" },
             Settled(clientState', tls'), YieldFits(pc, rc, clientState')
      PROVE  LinkAgrees'
  BY <1>0, <1>1, LinkGoto DEF TopFits, InTransit
\* a step that only moves on, to a place that knows nothing of the state
<1>2. ASSUME NEW pc \in { "loop", "reconnect", "reconnected", "again", "exit" },
             NEW rc \in Rcs, Goto(t, pc, rc), UNCHANGED << clientState, tls >>,
             Top(t).pc # "force"
      PROVE  LinkAgrees'
  <2>1. Settled(clientState', tls') /\ clientState' = clientState
    BY <1>0, <1>2
  <2>2. YieldFits(pc, rc, clientState') /\ pc \in PcsOf("yield") /\ pc # "force"
    BY PcsFacts DEF YieldFits
  <2> QED
    BY <1>0, <1>1, <1>2, <2>1, <2>2
\* a step that moves on to a place from which the connection may be given up
<1>3. ASSUME NEW pc \in { "read", "keep_alive", "disconnect" },
             Goto(t, pc, "SUCCESS"), UNCHANGED << clientState, tls >>,
             Top(t).pc # "force", clientState # "PENDING_RECONNECT"
      PROVE  LinkAgrees'
  <2>1. Settled(clientState', tls') /\ clientState' = clientState
    BY <1>0, <1>3
  <2>2. YieldFits(pc, "SUCCESS", clientState') /\ pc \in PcsOf("yield") /\ pc # "force"
    BY <1>3, <2>1, PcsFacts DEF YieldFits
  <2> QED
    BY <1>0, <1>1, <1>3, <2>1, <2>2 DEF Rcs
<1>4. ASSUME NEW rc \in Rcs, Return(t, rc), Settled(clientState', tls'),
             clientState' \in ConnectedStates \cup { clientState }
      PROVE  LinkAgrees'
  BY <1>0, <1>4, LinkReturn, StateFacts
<1>5. CASE YieldStart(t)
  <2>1. CASE clientState = "CONNECTED_IDLE"
    <3>1. /\ clientState' = Busy("yield") /\ tls' = tls /\ Goto(t, "loop", "SUCCESS")
          /\ Top(t).pc # "force"
      BY <1>5, <2>1 DEF YieldStart, At, SetClientState
    <3>2. Settled(clientState', tls') /\ clientState' \notin { "INVALID", "INITIALIZED" }
      BY <1>0, <2>1, <3>1, StateFacts DEF Settled
    <3>3. YieldFits("loop", "SUCCESS", clientState') /\ "loop" \in PcsOf("yield")
      BY PcsFacts DEF YieldFits
    <3> QED
      BY <1>1, <3>1, <3>2, <3>3 DEF Rcs
  <2>2. CASE clientState # "CONNECTED_IDLE"
    <3>1. clientState' = clientState /\ tls' = tls /\ Return(t, "ERROR") /\ Top(t).pc # "force"
      BY <1>5, <2>2 DEF YieldStart, At, SetClientState
    <3>2. Settled(clientState', tls')
      BY <1>0, <3>1
    <3> QED
      BY <1>4, <3>1, <3>2 DEF Rcs
  <2> QED
    BY <2>1, <2>2
<1>6. CASE YieldLoop(t)
  BY <1>2, <1>3, <1>6 DEF YieldLoop, At, Rcs
<1>7. CASE YieldReconnect(t)
  <2>1. CASE IsClientConnected(clientState)
    BY <1>2, <1>7, <2>1 DEF YieldReconnect, At, Rcs
  <2>2. CASE ~IsClientConnected(clientState)
    <3> DEFINE f == Frame("attempt_reconnect", "connect", "CONNECTED_IDLE")
    <3>1. f \in Frames /\ f.rc = "SUCCESS" /\ f.op = "attempt_reconnect" /\ f.pc = "connect"
          /\ f.saved = "CONNECTED_IDLE"
      BY FrameFacts, PcsFacts DEF Ops, Requests, ClientStates
    <3>2. Invoke(t, "reconnected", f) /\ UNCHANGED << clientState, tls >> /\ Top(t).pc # "force"
      BY <1>7, <2>2 DEF YieldReconnect, At
    <3> HIDE DEF f
    <3>3. SavedFits(f) /\ f.op \in BeforeConnect
      BY <3>1 DEF SavedFits, Requests, BeforeConnect
    <3>4. FrameFits(f, clientState, tls)
      BY <1>0, <3>1, <3>2 DEF FrameFits, TopFits, InTransit, YieldFits
    <3>5. << "reconnected", f.op >> \in CallSites /\ "reconnected" \in PcsOf(Top(t).op)
      BY <1>0, <3>1, PcsFacts DEF CallSites
    <3> QED
      BY <1>0, <3>1, <3>2, <3>3, <3>4, <3>5, LinkInvoke
  <2> QED
    BY <2>1, <2>2
<1>8. CASE YieldReconnected(t)
  <2>1. /\ \/ clientState' = clientState
           \/ clientState = "CONNECTED_IDLE" /\ clientState' = Busy("yield")
        /\ tls' = tls /\ Top(t).pc # "force"
    BY <1>8 DEF YieldReconnected, At, SetClientState
  <2>2. Settled(clientState', tls') /\ clientState' \notin { "INVALID", "INITIALIZED" }
    BY <1>0, <2>1, StateFacts DEF Settled
  <2>3. PICK rc \in Rcs : Goto(t, "again", rc)
    BY <1>0, <1>8 DEF YieldReconnected, Rcs
  <2>4. YieldFits("again", rc, clientState') /\ "again" \in PcsOf("yield")
    BY PcsFacts DEF YieldFits
  <2> QED
    BY <1>1, <2>2, <2>3, <2>4
<1>9. CASE YieldRead(t)
  <2>1. /\ clientState # "PENDING_RECONNECT" /\ Top(t).pc # "force"
        /\ UNCHANGED << clientState, tls >> /\ Settled(clientState, tls)
    BY <1>0, <1>9 DEF YieldRead, At, YieldFits
  <2>2. CASE \/ Goto(t, "keep_alive", "SUCCESS") \/ Goto(t, "disconnect", "SUCCESS")
             \/ Goto(t, "exit", "ERROR")
    BY <1>2, <1>3, <2>1, <2>2 DEF Rcs
  <2>3. CASE tls /\ Invoke(t, "delivered", Frame("deliver", "cas", clientState))
    <3> DEFINE f == Frame("deliver", "cas", clientState)
    <3>1. clientState \in ConnectedStates
      BY <2>1, <2>3 DEF Settled
    <3>2. f \in Frames /\ f.rc = "SUCCESS" /\ f.op = "deliver" /\ f.pc = "cas"
          /\ f.saved = clientState
      BY FrameFacts, PcsFacts DEF Ops, Requests, ClientStates, TypeOK
    <3> HIDE DEF f
    <3>3. SavedFits(f)
      BY <3>1, <3>2 DEF SavedFits
    <3>4. FrameFits(f, clientState, tls)
      BY <2>1, <3>2 DEF FrameFits, TopFits, InTransit, YieldFits
    <3>5. << "delivered", f.op >> \in CallSites /\ "delivered" \in PcsOf(Top(t).op)
      BY <1>0, <3>2, PcsFacts DEF CallSites
    <3> QED
      BY <1>0, <2>1, <2>3, <3>2, <3>3, <3>4, <3>5, LinkInvoke DEF f
  <2> QED
    BY <1>9, <2>2, <2>3 DEF YieldRead
<1>10. CASE YieldDelivered(t)
  <2>1. CASE Top(t).rc = "SUCCESS"
    <3>1. /\ clientState # "PENDING_RECONNECT" /\ Top(t).pc # "force"
          /\ UNCHANGED << clientState, tls >>
      BY <1>0, <1>10, <2>1 DEF YieldDelivered, At, YieldFits
    <3> QED
      BY <1>2, <1>3, <1>10, <2>1, <3>1 DEF YieldDelivered, Rcs
  <2>2. CASE Top(t).rc # "SUCCESS"
    BY <1>0, <1>2, <1>10, <2>2 DEF YieldDelivered, At
  <2> QED
    BY <2>1, <2>2
<1>11. CASE KeepAlive(t)
  <2>1. clientState # "PENDING_RECONNECT" /\ Top(t).pc # "force" /\ UNCHANGED << clientState, tls >>
    BY <1>0, <1>11 DEF KeepAlive, At, YieldFits
  <2> QED
    BY <1>2, <1>3, <1>11, <2>1 DEF KeepAlive, Rcs
<1>12. CASE HandleDisconnect(t)
  <2> DEFINE f == Frame("disconnect", "check", clientState)
  <2>1. f \in Frames /\ f.rc = "SUCCESS" /\ f.op = "disconnect" /\ f.pc = "check"
        /\ f.saved = clientState
    BY FrameFacts, PcsFacts DEF Ops, Requests, ClientStates, TypeOK
  <2>2. /\ Invoke(t, "after_disconnect", f) /\ UNCHANGED << clientState, tls >>
        /\ clientState # "PENDING_RECONNECT" /\ Top(t).pc # "force"
    BY <1>0, <1>12 DEF HandleDisconnect, At, YieldFits
  <2> HIDE DEF f
  <2>3. SavedFits(f) /\ f.op \in BeforeConnect
    BY <2>1 DEF SavedFits, Requests, BeforeConnect
  <2>4. FrameFits(f, clientState, tls)
    BY <1>0, <2>1, <2>2 DEF FrameFits, TopFits, InTransit, YieldFits
  <2>5. << "after_disconnect", f.op >> \in CallSites /\ "after_disconnect" \in PcsOf(Top(t).op)
    BY <1>0, <2>1, PcsFacts DEF CallSites
  <2> QED
    BY <1>0, <2>1, <2>2, <2>3, <2>4, <2>5, LinkInvoke
<1>13. CASE HandleDisconnectResult(t)
  <2>1. CASE Top(t).rc = "SUCCESS"
    <3>1. /\ Goto(t, "handler", "SUCCESS") /\ tls' = tls /\ clientState' = clientState
          /\ clientState = "DISCONNECTED_MANUALLY" /\ Top(t).pc # "force"
      BY <1>0, <1>13, <2>1 DEF HandleDisconnectResult, At, YieldFits
    <3>2. YieldFits("handler", "SUCCESS", clientState') /\ "handler" \in PcsOf("yield")
      BY <3>1, PcsFacts DEF YieldFits
    <3>3. Settled(clientState', tls')
      BY <1>0, <3>1
    <3> QED
      BY <1>0, <1>1, <3>1, <3>2, <3>3 DEF Rcs
  <2>2. CASE Top(t).rc # "SUCCESS"
    <3>1. Goto(t, "force", "SUCCESS") /\ clientState' = "DISCONNECTED_ERROR"
      BY <1>13, <2>2 DEF HandleDisconnectResult
    <3> QED
      BY <1>0, <3>1, LinkGoto, PcsFacts DEF TopFits, InTransit, YieldFits, Rcs
  <2> QED
    BY <2>1, <2>2
<1>14. CASE ForceClientDisconnect(t)
  <2>1. Goto(t, "handler", "SUCCESS") /\ ~tls' /\ clientState' = "DISCONNECTED_ERROR"
    BY <1>0, <1>14 DEF ForceClientDisconnect, At
  <2>2. Settled(clientState', tls')
    BY <2>1, StateFacts DEF Settled
  <2>3. YieldFits("handler", "SUCCESS", clientState') /\ "handler" \in PcsOf("yield")
    BY <2>1, PcsFacts DEF YieldFits
  <2> QED
    BY <1>1, <2>1, <2>2, <2>3 DEF Rcs
<1>15. CASE DisconnectHandlerReturn(t)
  <2>1. /\ Goto(t, "lost", "SUCCESS") /\ tls' = tls /\ clientState' = "DISCONNECTED_ERROR"
        /\ clientState \in { "DISCONNECTED_MANUALLY", "DISCONNECTED_ERROR" }
        /\ Top(t).pc # "force"
    BY <1>0, <1>15 DEF DisconnectHandlerReturn, At, YieldFits
  <2>2. Settled(clientState', tls')
    BY <1>0, <2>1, StateFacts DEF Settled
  <2>3. YieldFits("lost", "SUCCESS", clientState') /\ "lost" \in PcsOf("yield")
    BY <2>1, PcsFacts DEF YieldFits
  <2> QED
    BY <1>1, <2>1, <2>2, <2>3 DEF Rcs
<1>16. CASE YieldLost(t)
  <2>1. /\ clientState = "DISCONNECTED_ERROR" /\ tls' = tls /\ Top(t).pc # "force"
        /\ clientState' \in { "DISCONNECTED_ERROR", "PENDING_RECONNECT" }
    BY <1>0, <1>16 DEF YieldLost, At, YieldFits, SetClientState
  <2>2. Settled(clientState', tls') /\ clientState' \notin { "INVALID", "INITIALIZED" }
    BY <1>0, <2>1, StateFacts DEF Settled
  <2>3. \/ Goto(t, "again", "NETWORK_ATTEMPTING_RECONNECT")
        \/ Goto(t, "exit", "NETWORK_DISCONNECTED_ERROR")
    BY <1>16, <2>1 DEF YieldLost
  <2>4. \A pc \in { "again", "exit" }, rc \in Rcs :
           YieldFits(pc, rc, clientState') /\ pc \in PcsOf("yield")
    BY PcsFacts DEF YieldFits
  <2> QED
    BY <1>1, <2>2, <2>3, <2>4 DEF Rcs
<1>17. CASE YieldAgain(t)
  BY <1>0, <1>2, <1>17 DEF YieldAgain, At, Rcs
<1>18. CASE YieldExit(t)
  <2>1. PICK rc \in Rcs : Return(t, rc)
    BY <1>0, <1>18 DEF YieldExit, RestoreRc, Rcs
  <2>2. /\ tls' = tls /\ Top(t).pc # "force"
        /\ \/ clientState' = clientState
           \/ clientState = Busy("yield") /\ clientState' = "CONNECTED_IDLE"
    BY <1>18 DEF YieldExit, At, SetClientState
  <2>3. Settled(clientState', tls') /\ clientState' \in ConnectedStates \cup { clientState }
    BY <1>0, <2>2, StateFacts DEF Settled
  <2> QED
    BY <1>4, <2>1, <2>3
<1> QED
  BY <1>5, <1>6, <1>7, <1>8, <1>9, <1>10, <1>11, <1>12, <1>13, <1>14, <1>15, <1>16,
     <1>17, <1>18 DEF YieldStep

\* and the calls the application makes from outside or from a message handler.
LEMMA AppCallLinks ==
    ASSUME TypeOK, StackDiscipline, LinkAgrees, OneThread, HandlerSilent,
           NEW t \in Threads, AppCall(t)
    PROVE  LinkAgrees'
<1>0. ASSUME NEW op, MayCall(t, op)
      PROVE  Depth(t) > 0 => Top(t).pc = "callback"
  BY <1>0 DEF MayCall, HandlerSilent, TypeOK, Depth
<1>1. ASSUME NEW op, MayCall(t, op)
      PROVE  Settled(clientState, tls)
  <2>1. CASE Depth(t) = 0
    BY <2>1 DEF LinkAgrees, Agrees, Depth
  <2>2. CASE Depth(t) > 0
    <3>1. Top(t).pc = "callback"
      BY <1>0, <1>1, <2>2
    <3>2. ~InTransit(Top(t).op, Top(t).pc)
      BY <2>2, <3>1, TopType, PcsFacts DEF InTransit
    <3> QED
      BY <2>2, <3>2, TopAgrees DEF TopFits
  <2>3. Depth(t) \in Nat
    BY DEF TypeOK, Depth
  <2> QED
    BY <2>1, <2>2, <2>3
\* a call starts before anything has changed
<1>2. ASSUME NEW op \in Ops, NEW pc \in PcsOf(op), NEW saved \in ClientStates,
             MayCall(t, op), Push(t, Frame(op, pc, saved)),
             UNCHANGED << clientState, tls >>, pc \in { "check", "cas", "connect", "loop" },
             SavedFits(Frame(op, pc, saved)),
             clientState = "INITIALIZED" => op \in BeforeConnect
      PROVE  LinkAgrees'
  <2> DEFINE f == Frame(op, pc, saved)
  <2>1. f \in Frames /\ f.rc = "SUCCESS" /\ f.op = op /\ f.pc = pc
    BY FrameFacts
  <2> HIDE DEF f
  <2>2. Settled(clientState, tls) /\ (Depth(t) > 0 => Top(t).pc = "callback")
    BY <1>0, <1>1, <1>2
  <2>3. ~InTransit(op, pc)
    BY <1>2, PcsFacts DEF InTransit
  <2>4. TopFits(op, pc, clientState, tls) /\ YieldFits(pc, f.rc, clientState)
    BY <1>2, <2>2, <2>3 DEF TopFits, YieldFits, InTransit
  <2>5. FrameFits(f, clientState, tls)
    BY <2>1, <2>4 DEF FrameFits
  <2> QED
    BY <1>2, <2>1, <2>2, <2>5, LinkPush DEF f
<1>3. ASSUME NEW op \in Ops, NEW pc \in PcsOf(op), NEW saved \in ClientStates
      PROVE  SavedFits(Frame(op, pc, saved)) <=>
                /\ op = "connect" => ValidForConnect(saved)
                /\ op \in Requests \cup { "deliver" } => saved \in ConnectedStates
                /\ op = "disconnect" /\ pc # "check" => saved \in ConnectedStates
  BY FrameFacts DEF SavedFits
<1>4. /\ clientState \in ClientStates /\ "CONNECTED_IDLE" \in ClientStates
      /\ ReadyForRequest(clientState) => clientState \in ConnectedStates
      /\ clientState \in ConnectedStates => clientState # "INITIALIZED"
  BY StateFacts DEF TypeOK, ClientStates, ReadyForRequest, ConnectedStates
<1>5. /\ "connect" \in Ops /\ "disconnect" \in Ops /\ "attempt_reconnect" \in Ops
      /\ "yield" \in Ops /\ Requests \subseteq Ops
      /\ "publish" \in Requests /\ "subscribe" \in Requests
      /\ "unsubscribe" \in Requests /\ "resubscribe" \in Requests
      /\ "connect" \notin Requests /\ "disconnect" \notin Requests
      /\ "attempt_reconnect" \notin Requests /\ "yield" \notin Requests
  BY DEF Ops, Requests
<1>6. CASE CallConnect(t)
  BY <1>2, <1>3, <1>4, <1>5, <1>6, PcsFacts DEF CallConnect, BeforeConnect
<1>7. CASE CallDisconnect(t)
  BY <1>2, <1>3, <1>4, <1>5, <1>7, PcsFacts DEF CallDisconnect, BeforeConnect
<1>8. CASE CallAttemptReconnect(t)
  <2> DEFINE f == Frame("attempt_reconnect", "connect", "CONNECTED_IDLE")
  <2>1. MayCall(t, "attempt_reconnect") /\ Push(t, f) /\ UNCHANGED << clientState, tls >>
    BY <1>8 DEF CallAttemptReconnect
  <2>2. "connect" \in PcsOf("attempt_reconnect") /\ "attempt_reconnect" \in BeforeConnect
    BY PcsFacts DEF BeforeConnect
  <2>3. SavedFits(f)
    BY <1>3, <1>4, <1>5, <2>2
  <2> QED
    BY <1>2, <1>4, <1>5, <2>1, <2>2, <2>3
<1>9. CASE CallPublish(t)
  BY <1>2, <1>3, <1>4, <1>5, <1>9, PcsFacts DEF CallPublish
<1>10. CASE CallSubscribe(t)
  BY <1>2, <1>3, <1>4, <1>5, <1>10, PcsFacts DEF CallSubscribe
<1>11. CASE CallUnsubscribe(t)
  BY <1>2, <1>3, <1>4, <1>5, <1>11, PcsFacts DEF CallUnsubscribe
<1>12. CASE CallResubscribe(t)
  <2>1. /\ MayCall(t, "resubscribe") /\ clientState = "CONNECTED_IDLE"
        /\ Push(t, Frame("resubscribe", "cas", "CONNECTED_IDLE"))
        /\ UNCHANGED << clientState, tls >>
    BY <1>12 DEF CallResubscribe
  <2>2. "resubscribe" \in Ops /\ "cas" \in PcsOf("resubscribe")
    BY <1>5, PcsFacts
  <2>3. SavedFits(Frame("resubscribe", "cas", "CONNECTED_IDLE"))
    BY <1>3, <1>4, <2>2, StateFacts
  <2> QED
    BY <1>2, <1>4, <2>1, <2>2, <2>3
<1>13. CASE CallYield(t)
  <2>1. PICK pc \in { "cas", "loop" } : Push(t, Frame("yield", pc, "CONNECTED_IDLE"))
    BY <1>13 DEF CallYield
  <2>2. /\ MayCall(t, "yield") /\ clientState # "INITIALIZED"
        /\ UNCHANGED << clientState, tls >>
    BY <1>13 DEF CallYield
  <2>3. "yield" \in Ops /\ pc \in PcsOf("yield")
    BY <1>5, PcsFacts
  <2>4. SavedFits(Frame("yield", pc, "CONNECTED_IDLE"))
    BY <1>3, <1>4, <1>5, <2>3
  <2> QED
    BY <1>2, <1>4, <2>1, <2>2, <2>3, <2>4
<1>14. CASE SetAutoReconnect(t)
  BY <1>14 DEF SetAutoReconnect, LinkAgrees
<1> QED
  BY <1>6, <1>7, <1>8, <1>9, <1>10, <1>11, <1>12, <1>13, <1>14 DEF AppCall

\* These are all the steps.
LEMMA StepLinks ==
    ASSUME TypeOK, StackDiscipline, LinkAgrees, OneThread, HandlerSilent, [Next]_vars
    PROVE  LinkAgrees'
<1>1. CASE UNCHANGED vars
  BY <1>1 DEF LinkAgrees, vars
<1>2. ASSUME NEW t \in Threads, ThreadStep(t)
      PROVE  LinkAgrees'
  BY <1>2, AppCallLinks, ConnectStepLinks, DisconnectStepLinks, RequestStepLinks,
     AttemptStepLinks, DeliverStepLinks, YieldStepLinks DEF ThreadStep
<1> QED
  BY <1>1, <1>2 DEF Next

\* With one thread, client state and TLS context agree in every call.
THEOREM StateAndContextAgree ==
    ASSUME OneThread, HandlerSilent
    PROVE  Spec => []LinkAgrees
<1>1. Init => LinkAgrees
  BY DEF Init, LinkAgrees, Agrees, Nested, NeverConnected, Settled, ConnectedStates
<1>2. TypeOK /\ StackDiscipline /\ LinkAgrees /\ [Next]_vars => LinkAgrees'
  BY StepLinks
<1> QED
  BY <1>1, <1>2, TypeCorrect, SingleThreadDiscipline, PTL DEF Spec

\* A client used by one thread has given up its TLS context whenever it reports
\* itself disconnected between calls: disconnect, a failed connect and a lost
\* connection all release it, however deep they happened in handlers.
THEOREM ContextReleased ==
    ASSUME OneThread, HandlerSilent
    PROVE  Spec => []TlsClosedWhileDisconnected
<1>1. TypeOK /\ LinkAgrees => TlsClosedWhileDisconnected
  <2> SUFFICES ASSUME TypeOK, LinkAgrees, \A t \in Threads : Depth(t) = 0,
                      ~IsClientConnected(clientState)
               PROVE  ~tls
    BY DEF TlsClosedWhileDisconnected
  <2> QED
    BY SessionAssumption DEF LinkAgrees, Agrees, Depth, Settled, IsClientConnected
<1> QED
  BY <1>1, TypeCorrect, StateAndContextAgree, PTL

-----------------------------------------------------------------------------
(* The steps of a connection's life *)

\* Each step of the client is one of these, in the words of Connection.
StaySame == PhaseOf(clientState') = PhaseOf(clientState) /\ tls' = tls

OpenStep == ValidForConnect(clientState) /\ tls = FALSE /\ clientState' = "CONNECTING" /\ tls' = tls

HandshakeStep == clientState = "CONNECTING" /\ clientState' = clientState /\ tls' \in BOOLEAN

OpenedStep ==
    clientState = "CONNECTING" /\ clientState' = "CONNECTED_IDLE" /\ tls' = TRUE

OpenFailedStep ==
    clientState = "CONNECTING" /\ clientState' = "DISCONNECTED_ERROR" /\ tls' = FALSE

CloseStep ==
    clientState \in ConnectedStates /\ clientState' = "DISCONNECTING" /\ tls' = tls

ReleaseStep ==
    /\ clientState \in { "DISCONNECTING", "DISCONNECTED_ERROR" }
    /\ clientState' = clientState /\ tls' = FALSE

ClosedStep ==
    /\ clientState = "DISCONNECTING" /\ clientState' = "DISCONNECTED_MANUALLY"
    /\ tls = FALSE /\ tls' = tls

CloseFailedStep ==
    /\ clientState = "DISCONNECTING" /\ clientState' \in ConnectedStates
    /\ tls = TRUE /\ tls' = tls

LoseStep ==
    /\ clientState \in ConnectedStates \cup { "DISCONNECTED_MANUALLY" }
    /\ clientState' = "DISCONNECTED_ERROR" /\ tls' = tls

WaitStep ==
    /\ clientState = "DISCONNECTED_ERROR" /\ clientState' = "PENDING_RECONNECT"
    /\ tls = FALSE /\ tls' = tls

\* The application asks for a connection.
AskStep ==
    /\ clientState \in { "INITIALIZED", "DISCONNECTED_ERROR", "DISCONNECTED_MANUALLY",
                         "PENDING_RECONNECT" }
    /\ UNCHANGED << clientState, tls >> /\ appDisconnected' = FALSE

LifeStep ==
    \/ /\ UNCHANGED appDisconnected
       /\ \/ StaySame \/ OpenStep \/ HandshakeStep \/ OpenedStep \/ OpenFailedStep
          \/ CloseStep \/ ReleaseStep \/ CloseFailedStep \/ LoseStep \/ WaitStep
    \/ ClosedStep /\ appDisconnected' \in { appDisconnected, TRUE }
    \/ AskStep

\* The phase of each state.
LEMMA PhaseFacts ==
    /\ \A s \in ConnectedStates : PhaseOf(s) = "open"
    /\ PhaseOf("CONNECTING") = "opening" /\ PhaseOf("DISCONNECTING") = "closing"
    /\ PhaseOf("DISCONNECTED_ERROR") = "lost" /\ PhaseOf("DISCONNECTED_MANUALLY") = "closed"
    /\ PhaseOf("PENDING_RECONNECT") = "waiting" /\ PhaseOf("INITIALIZED") = "new"
BY DEF PhaseOf, IsClientConnected, ConnectedStates

\* A step that stays within the states of a connected client.
LEMMA StaysConnected ==
    ASSUME \/ clientState' = clientState
           \/ clientState \in ConnectedStates /\ clientState' \in ConnectedStates,
           tls' = tls, UNCHANGED appDisconnected
    PROVE  LifeStep
BY PhaseFacts DEF LifeStep, StaySame

\* connect opens a connection only where there is none,
LEMMA ConnectLife ==
    ASSUME TypeOK, StackDiscipline, LinkAgrees, NEW t \in Threads, ConnectStep(t)
    PROVE  LifeStep
<1>0. /\ Depth(t) > 0 /\ Top(t).op = "connect"
      /\ Top(t).pc = "cas" => clientState = Top(t).saved
      /\ ValidForConnect(Top(t).saved)
      /\ TopFits("connect", Top(t).pc, clientState, tls)
      /\ tls \in BOOLEAN
  <2>1. Depth(t) > 0 /\ Top(t).op = "connect"
    BY DEF ConnectStep, At, ConnectStart, ConnectTls, ConnectAck, ConnectDone,
       ConnectFailed
  <2> QED
    BY <2>1, TopSound, OwnedFacts, TopAgrees DEF SavedFits, TypeOK
<1>1. CASE ConnectStart(t)
  <2>1. /\ clientState' = "CONNECTING" /\ tls' = tls /\ tls = FALSE
        /\ ValidForConnect(clientState) /\ UNCHANGED appDisconnected
    BY <1>0, <1>1, StateFacts DEF ConnectStart, At, SetClientState, TopFits, InTransit,
       Settled
  <2> QED
    BY <2>1 DEF LifeStep, OpenStep
<1>2. CASE ConnectTls(t)
  BY <1>0, <1>2 DEF ConnectTls, At, TopFits, LifeStep, HandshakeStep
<1>3. CASE ConnectAck(t)
  BY <1>0, <1>3 DEF ConnectAck, At, TopFits, LifeStep, HandshakeStep
<1>4. CASE ConnectDone(t)
  BY <1>0, <1>4 DEF ConnectDone, At, TopFits, SetClientState, LifeStep, OpenedStep
<1>5. CASE ConnectFailed(t)
  BY <1>0, <1>5 DEF ConnectFailed, At, TopFits, SetClientState, LifeStep, OpenFailedStep
<1> QED
  BY <1>1, <1>2, <1>3, <1>4, <1>5 DEF ConnectStep

\* disconnect closes it or leaves it as it was,
LEMMA DisconnectLife ==
    ASSUME TypeOK, StackDiscipline, LinkAgrees, NEW t \in Threads, DisconnectStep(t)
    PROVE  LifeStep
<1>0. /\ Depth(t) > 0 /\ Top(t).op = "disconnect"
      /\ Top(t).pc \in { "check", "cas" } => clientState = Top(t).saved
      /\ Top(t).pc # "check" => Top(t).saved \in ConnectedStates
      /\ TopFits("disconnect", Top(t).pc, clientState, tls)
      /\ tls \in BOOLEAN /\ appDisconnected \in BOOLEAN
  <2>1. Depth(t) > 0 /\ Top(t).op = "disconnect"
    BY DEF DisconnectStep, At, DisconnectCheck, DisconnectStart, DisconnectSend,
       DisconnectDone, DisconnectUndo
  <2> QED
    BY <2>1, TopSound, OwnedFacts, TopAgrees DEF SavedFits, TypeOK
<1>1. CASE DisconnectCheck(t)
  BY <1>1, StaysConnected DEF DisconnectCheck
<1>2. CASE DisconnectStart(t)
  BY <1>0, <1>2 DEF DisconnectStart, At, SetClientState, LifeStep, CloseStep
<1>3. CASE DisconnectSend(t)
  <2>1. CASE tls' = FALSE
    BY <1>0, <1>3, <2>1 DEF DisconnectSend, At, TopFits, LifeStep, ReleaseStep
  <2>2. CASE tls' = tls
    BY <1>3, <2>2, StaysConnected DEF DisconnectSend
  <2> QED
    BY <1>3, <2>1, <2>2 DEF DisconnectSend
<1>4. CASE DisconnectDone(t)
  <2>1. ClosedStep
    BY <1>0, <1>4 DEF DisconnectDone, At, TopFits, ClosedStep
  <2>2. appDisconnected' = appDisconnected \/ appDisconnected' = TRUE
    BY <1>0, <1>4, Zenon DEF DisconnectDone
  <2> QED
    BY <2>1, <2>2 DEF LifeStep
<1>5. CASE DisconnectUndo(t)
  BY <1>0, <1>5 DEF DisconnectUndo, At, TopFits, LifeStep, CloseFailedStep
<1> QED
  BY <1>1, <1>2, <1>3, <1>4, <1>5 DEF DisconnectStep

\* requests and deliveries do not touch it,
LEMMA RequestLife ==
    ASSUME TypeOK, StackDiscipline, LinkAgrees, NEW t \in Threads,
           RequestStep(t) \/ DeliverStep(t)
    PROVE  LifeStep
<1>0. /\ Depth(t) > 0 /\ Top(t).op \in Requests \cup { "deliver" }
      /\ Top(t).saved \in ConnectedStates /\ Busy(Top(t).op) \in ConnectedStates
  <2>1. Depth(t) > 0 /\ Top(t).op \in Requests \cup { "deliver" }
    BY DEF RequestStep, DeliverStep, At, RequestStart, UnsubscribeRollback, RequestSend,
       RequestWait, RequestRestore, DeliverStart, DeliverReturn, Requests
  <2> QED
    BY <2>1, TopAgrees, StateFacts DEF SavedFits
<1>1. CASE RequestStart(t)
  BY <1>0, <1>1, StaysConnected DEF RequestStart, SetClientState
<1>2. CASE UnsubscribeRollback(t)
  BY <1>0, <1>2, StaysConnected DEF UnsubscribeRollback, At, SetClientState
<1>3. CASE RequestSend(t)
  BY <1>3, StaysConnected DEF RequestSend
<1>4. CASE RequestWait(t)
  BY <1>4, StaysConnected DEF RequestWait
<1>5. CASE RequestRestore(t)
  BY <1>0, <1>5, StaysConnected DEF RequestRestore, SetClientState
<1>6. CASE DeliverStart(t)
  BY <1>0, <1>6, StaysConnected DEF DeliverStart, At, SetClientState
<1>7. CASE DeliverReturn(t)
  BY <1>0, <1>7, StaysConnected DEF DeliverReturn, At, SetClientState
<1> QED
  BY <1>1, <1>2, <1>3, <1>4, <1>5, <1>6, <1>7 DEF RequestStep, DeliverStep

\* attempt_reconnect waits only for a connection that is gone,
LEMMA AttemptLife ==
    ASSUME TypeOK, StackDiscipline, LinkAgrees, NEW t \in Threads, AttemptStep(t)
    PROVE  LifeStep
<1>1. CASE AttemptPending(t)
  <2>1. Depth(t) > 0 /\ Top(t).op = "attempt_reconnect" /\ Top(t).pc = "pending"
    BY <1>1 DEF AttemptPending, At
  <2>2. Settled(clientState, tls) /\ tls \in BOOLEAN
    BY <2>1, TopAgrees DEF TopFits, InTransit, TypeOK
  <2>3. CASE clientState = "DISCONNECTED_ERROR"
    <3>1. tls = FALSE
      BY <2>2, <2>3, StateFacts DEF Settled
    <3> QED
      BY <1>1, <2>3, <3>1 DEF AttemptPending, SetClientState, LifeStep, WaitStep
  <2>4. CASE clientState # "DISCONNECTED_ERROR"
    BY <1>1, <2>4, StaysConnected DEF AttemptPending, SetClientState
  <2> QED
    BY <2>3, <2>4
<1>2. CASE AttemptConnect(t)
  BY <1>2, StaysConnected DEF AttemptConnect
<1>3. CASE AttemptAfterConnect(t)
  BY <1>3, StaysConnected DEF AttemptAfterConnect
<1>4. CASE AttemptResubscribe(t)
  BY <1>4, StaysConnected DEF AttemptResubscribe
<1>5. CASE AttemptAfterResubscribe(t)
  BY <1>5, StaysConnected DEF AttemptAfterResubscribe
<1> QED
  BY <1>1, <1>2, <1>3, <1>4, <1>5 DEF AttemptStep

\* and yield loses it and gives up its context.
LEMMA YieldLife ==
    ASSUME TypeOK, StackDiscipline, LinkAgrees, NEW t \in Threads, YieldStep(t)
    PROVE  LifeStep
<1>0. /\ Depth(t) > 0 /\ Top(t).op = "yield"
      /\ Top(t).pc # "force" => Settled(clientState, tls)
      /\ Top(t).pc = "force" => clientState = "DISCONNECTED_ERROR"
      /\ YieldFits(Top(t).pc, Top(t).rc, clientState)
      /\ clientState \notin { "INVALID", "INITIALIZED" }
      /\ tls \in BOOLEAN /\ clientState \in ClientStates
  <2>1. Depth(t) > 0 /\ Top(t).op = "yield"
    BY DEF YieldStep, At, YieldStart, YieldLoop, YieldReconnect, YieldReconnected,
       YieldRead, YieldDelivered, KeepAlive, HandleDisconnect, HandleDisconnectResult,
       ForceClientDisconnect, DisconnectHandlerReturn, YieldLost, YieldAgain, YieldExit
  <2> QED
    BY <2>1, TopAgrees DEF TopFits, InTransit, BeforeConnect, TypeOK
<1>1. CASE YieldStart(t)
  BY <1>1, StaysConnected, StateFacts DEF YieldStart, SetClientState
<1>2. CASE YieldReconnected(t)
  <2>1. \/ clientState' = clientState
        \/ clientState \in ConnectedStates /\ clientState' \in ConnectedStates
    BY <1>2, StateFacts DEF YieldReconnected, SetClientState
  <2> QED
    BY <1>2, <2>1, StaysConnected DEF YieldReconnected
<1>3. CASE HandleDisconnectResult(t)
  <2>1. CASE Top(t).rc = "SUCCESS"
    BY <1>3, <2>1, StaysConnected DEF HandleDisconnectResult
  <2>2. CASE Top(t).rc # "SUCCESS"
    <3>1. /\ clientState' = "DISCONNECTED_ERROR" /\ tls' = tls /\ UNCHANGED appDisconnected
          /\ clientState # "PENDING_RECONNECT" /\ Settled(clientState, tls)
      BY <1>0, <1>3, <2>2 DEF HandleDisconnectResult, At, YieldFits
    <3>2. \/ clientState = "DISCONNECTED_ERROR"
          \/ clientState \in ConnectedStates \cup { "DISCONNECTED_MANUALLY" }
      BY <1>0, <3>1, StateFacts DEF Settled
    <3> QED
      BY <3>1, <3>2, StaysConnected DEF LifeStep, LoseStep
  <2> QED
    BY <2>1, <2>2
<1>4. CASE ForceClientDisconnect(t)
  BY <1>0, <1>4 DEF ForceClientDisconnect, At, LifeStep, ReleaseStep
<1>5. CASE DisconnectHandlerReturn(t)
  <2>1. /\ clientState' = "DISCONNECTED_ERROR" /\ tls' = tls /\ UNCHANGED appDisconnected
        /\ clientState \in { "DISCONNECTED_MANUALLY", "DISCONNECTED_ERROR" }
    BY <1>0, <1>5 DEF DisconnectHandlerReturn, At, YieldFits
  <2> QED
    BY <2>1, StaysConnected DEF LifeStep, LoseStep
<1>6. CASE YieldLost(t)
  <2>1. clientState = "DISCONNECTED_ERROR" /\ tls = FALSE
    BY <1>0, <1>6, StateFacts DEF YieldLost, At, YieldFits, Settled
  <2> QED
    BY <1>6, <2>1, StaysConnected DEF YieldLost, SetClientState, LifeStep, WaitStep
<1>7. CASE YieldExit(t)
  BY <1>7, StaysConnected, StateFacts DEF YieldExit, SetClientState
<1>8. CASE YieldLoop(t)
  BY <1>8, StaysConnected DEF YieldLoop
<1>9. CASE YieldReconnect(t)
  BY <1>9, StaysConnected DEF YieldReconnect
<1>10. CASE YieldRead(t)
  BY <1>10, StaysConnected DEF YieldRead
<1>11. CASE YieldDelivered(t)
  BY <1>11, StaysConnected DEF YieldDelivered
<1>12. CASE KeepAlive(t)
  BY <1>12, StaysConnected DEF KeepAlive
<1>13. CASE HandleDisconnect(t)
  BY <1>13, StaysConnected DEF HandleDisconnect
<1>14. CASE YieldAgain(t)
  BY <1>14, StaysConnected DEF YieldAgain
<1> QED
  BY <1>1, <1>2, <1>3, <1>4, <1>5, <1>6, <1>7, <1>8, <1>9, <1>10, <1>11, <1>12, <1>13,
     <1>14 DEF YieldStep

\* A call of the application changes nothing, or says that it wants a connection.
LEMMA AppCallLife ==
    ASSUME TypeOK, StackDiscipline, LinkAgrees, HandlerSilent, NEW t \in Threads, AppCall(t)
    PROVE  LifeStep
<1>1. CASE CallConnect(t)
  BY <1>1 DEF CallConnect, ValidForConnect, LifeStep, AskStep
<1>2. CASE CallAttemptReconnect(t)
  <2>1. Settled(clientState, tls) /\ clientState # "INVALID"
    <3>1. CASE Depth(t) = 0
      BY <3>1 DEF LinkAgrees, Agrees, NeverConnected, Depth
    <3>2. CASE Depth(t) > 0
      <4>1. Top(t).pc = "callback"
        BY <1>2, <3>2 DEF CallAttemptReconnect, MayCall, HandlerSilent
      <4>2. ~InTransit(Top(t).op, Top(t).pc)
        BY <3>2, <4>1, TopType, PcsFacts DEF InTransit
      <4> QED
        BY <3>2, <4>2, TopAgrees DEF TopFits
    <3>3. Depth(t) \in Nat
      BY DEF TypeOK, Depth
    <3> QED
      BY <3>1, <3>2, <3>3
  <2>2. clientState \in ClientStates /\ clientState \notin ConnectedStates
    BY <1>2 DEF CallAttemptReconnect, IsClientConnected, TypeOK
  <2>3. clientState \in { "INITIALIZED", "DISCONNECTED_ERROR", "DISCONNECTED_MANUALLY",
                          "PENDING_RECONNECT" }
    BY <2>1, <2>2, StateFacts DEF Settled
  <2> QED
    BY <1>2, <2>3 DEF CallAttemptReconnect, LifeStep, AskStep
<1>3. CASE CallDisconnect(t)
  BY <1>3, StaysConnected DEF CallDisconnect
<1>4. CASE CallPublish(t)
  BY <1>4, StaysConnected DEF CallPublish
<1>5. CASE CallSubscribe(t)
  BY <1>5, StaysConnected DEF CallSubscribe
<1>6. CASE CallUnsubscribe(t)
  BY <1>6, StaysConnected DEF CallUnsubscribe
<1>7. CASE CallResubscribe(t)
  BY <1>7, StaysConnected DEF CallResubscribe
<1>8. CASE CallYield(t)
  BY <1>8, StaysConnected DEF CallYield
<1>9. CASE SetAutoReconnect(t)
  BY <1>9, StaysConnected DEF SetAutoReconnect
<1> QED
  BY <1>1, <1>2, <1>3, <1>4, <1>5, <1>6, <1>7, <1>8, <1>9 DEF AppCall

LEMMA StepLife ==
    ASSUME TypeOK, StackDiscipline, LinkAgrees, HandlerSilent, [Next]_vars
    PROVE  LifeStep
<1>1. CASE UNCHANGED vars
  BY <1>1, StaysConnected DEF vars
<1>2. ASSUME NEW t \in Threads, ThreadStep(t)
      PROVE  LifeStep
  BY <1>2, AppCallLife, ConnectLife, DisconnectLife, RequestLife, AttemptLife, YieldLife
     DEF ThreadStep
<1> QED
  BY <1>1, <1>2 DEF Next

\* Each of these steps is one of the contract.
LEMMA LifeRefines ==
    ASSUME LifeStep, tls \in BOOLEAN
    PROVE  [Contract!Next]_Contract!connectionVars
<1> DEFINE p == PhaseOf(clientState)
           q == PhaseOf(clientState')
<1> USE PhaseFacts
<1>1. CASE StaySame
  BY <1>1 DEF StaySame, Contract!connectionVars
<1>2. CASE OpenStep
  <2>1. p \in Contract!Down /\ q = "opening" /\ tls' = tls /\ ~tls
    BY <1>2 DEF OpenStep, ValidForConnect, Contract!Down
  <2> QED
    BY <2>1 DEF Contract!Open, Contract!Next
<1>3. CASE HandshakeStep
  <2>1. p = "opening" /\ q = p /\ tls' \in BOOLEAN
    BY <1>3 DEF HandshakeStep
  <2> QED
    BY <2>1 DEF Contract!Handshake, Contract!Next
<1>4. CASE OpenedStep
  <2>1. p = "opening" /\ q = "open" /\ tls' = TRUE
    BY <1>4, StateFacts DEF OpenedStep
  <2> QED
    BY <2>1 DEF Contract!Opened, Contract!Next
<1>5. CASE OpenFailedStep
  <2>1. p = "opening" /\ q = "lost" /\ tls' = FALSE
    BY <1>5 DEF OpenFailedStep
  <2> QED
    BY <2>1 DEF Contract!OpenFailed, Contract!Next
<1>6. CASE CloseStep
  <2>1. p = "open" /\ q = "closing" /\ tls' = tls
    BY <1>6 DEF CloseStep
  <2> QED
    BY <2>1 DEF Contract!Close, Contract!Next
<1>7. CASE ReleaseStep
  <2>1. p \in { "closing", "lost" } /\ q = p /\ tls' = FALSE
    BY <1>7 DEF ReleaseStep
  <2> QED
    BY <2>1 DEF Contract!Release, Contract!Next
<1>8. CASE ClosedStep
  <2>1. p = "closing" /\ q = "closed" /\ tls' = tls /\ ~tls
    BY <1>8 DEF ClosedStep
  <2> QED
    BY <2>1 DEF Contract!Closed, Contract!Next
<1>9. CASE CloseFailedStep
  <2>1. p = "closing" /\ q = "open" /\ tls' = tls /\ tls
    BY <1>9 DEF CloseFailedStep
  <2> QED
    BY <2>1 DEF Contract!CloseFailed, Contract!Next
<1>10. CASE LoseStep
  <2>1. p \in { "open", "closed" } /\ q = "lost" /\ tls' = tls
    BY <1>10 DEF LoseStep
  <2> QED
    BY <2>1 DEF Contract!Lose, Contract!Next
<1>11. CASE WaitStep
  <2>1. p = "lost" /\ q = "waiting" /\ tls' = tls /\ ~tls
    BY <1>11 DEF WaitStep
  <2> QED
    BY <2>1 DEF Contract!Wait, Contract!Next
<1>12. CASE AskStep
  BY <1>12 DEF AskStep, Contract!connectionVars
<1> QED
  BY <1>1, <1>2, <1>3, <1>4, <1>5, <1>6, <1>7, <1>8, <1>9, <1>10, <1>11, <1>12
     DEF LifeStep

\* A client used by one thread keeps the contract of its connection, whatever
\* the application and its message handlers call: connect never sets up a TLS
\* context over a live one, a connected client has one, a disconnect is
\* complete or undone, and a lost connection gives up its context before the
\* next attempt.
THEOREM SingleThreadContract ==
    ASSUME OneThread, HandlerSilent
    PROVE  Spec => ImplementsConnection
<1>1. Init => Contract!Init
  BY PhaseFacts DEF Init, Contract!Init
<1>2. TypeOK /\ StackDiscipline /\ LinkAgrees /\ [Next]_vars
      => [Contract!Next]_Contract!connectionVars
  <2> SUFFICES ASSUME TypeOK, StackDiscipline, LinkAgrees, [Next]_vars
               PROVE  [Contract!Next]_Contract!connectionVars
    OBVIOUS
  <2>1. LifeStep /\ tls \in BOOLEAN
    BY StepLife DEF TypeOK
  <2> QED
    BY <2>1, LifeRefines
<1> QED
  BY <1>1, <1>2, TypeCorrect, SingleThreadDiscipline, StateAndContextAgree, PTL
     DEF Spec, ImplementsConnection, Contract!Spec

-----------------------------------------------------------------------------
(* Handlers that do not connect *)

\* The message handlers may call anything that does not open a connection.
HandlersDoNotConnect == CallbackCalls \cap { "connect", "attempt_reconnect" } = {}

\* The states in which yield may be called or runs.
Yielding == { "CONNECTED_IDLE", "CONNECTED_YIELD_IN_PROGRESS", "PENDING_RECONNECT" }

\* What can run above a message handler, since yield, resubscribe and the
\* functions that connect are refused or not called there.
AboveHandlers == { "publish", "subscribe", "unsubscribe", "disconnect", "deliver" }

Shielded(s, state) ==
    \A i \in 1..Len(s) : s[i].pc = "callback" =>
        /\ state \notin Yielding
        /\ \A j \in 1..Len(s) : j > i => s[j].op \in AboveHandlers /\ s[j].saved \notin Yielding

CallbacksShielded == \A t \in Threads : Shielded(stack[t], clientState)

\* Is the innermost call made, in the end, by a message handler.
UnderHandler(s) == \E i \in 1..Len(s) : i < Len(s) /\ s[i].pc = "callback"

\* What the shield says about the innermost call.
LEMMA TopShielded ==
    ASSUME TypeOK, CallbacksShielded, NEW t \in Threads, Depth(t) > 0
    PROVE  /\ UnderHandler(stack[t]) => /\ Top(t).op \in AboveHandlers
                                        /\ Top(t).saved \notin Yielding
                                        /\ clientState \notin Yielding
           /\ Top(t).pc = "callback" => clientState \notin Yielding
<1>1. Len(stack[t]) \in 1..Len(stack[t]) /\ Shielded(stack[t], clientState)
  BY DEF TypeOK, Depth, CallbacksShielded
<1> QED
  BY <1>1 DEF Shielded, UnderHandler, Depth, Top

\* The innermost call goes on,
LEMMA GotoShielded ==
    ASSUME TypeOK, CallbacksShielded, OneThread, NEW t \in Threads, Depth(t) > 0,
           NEW pc \in PcsOf(Top(t).op), NEW rc \in Rcs, Goto(t, pc, rc),
           UnderHandler(stack[t]) \/ pc = "callback" => clientState' \notin Yielding
    PROVE  CallbacksShielded'
<1> DEFINE s == stack[t]
           n == Len(s)
           w == WithTop(s, pc, rc)
           new == clientState'
<1>1. s \in Seq(Frames) /\ Shielded(s, clientState) /\ n \in Nat /\ n > 0
  BY DEF TypeOK, CallbacksShielded, Depth
<1>2. /\ Len(w) = n /\ \A i \in 1..(n - 1) : w[i] = s[i]
      /\ w[n].op = s[n].op /\ w[n].saved = s[n].saved /\ w[n].pc = pc
  BY <1>1, WithTopFacts DEF Depth, Top
<1>3. stack'[t] = w
  BY DEF Goto, TypeOK
<1>4. UnderHandler(s) \/ pc = "callback" => new \notin Yielding
  OBVIOUS
<1> HIDE DEF w, new
<1>5. Shielded(w, new)
  <2> SUFFICES ASSUME NEW i \in 1..n, w[i].pc = "callback"
               PROVE  /\ new \notin Yielding
                      /\ \A j \in 1..n : j > i => w[j].op \in AboveHandlers
                                                  /\ w[j].saved \notin Yielding
    BY <1>2 DEF Shielded
  <2>1. CASE i = n
    BY <1>1, <1>2, <1>4, <2>1
  <2>2. CASE i < n
    <3>1. s[i].pc = "callback" /\ UnderHandler(s)
      BY <1>1, <1>2, <2>2 DEF UnderHandler
    <3>2. \A j \in 1..n : j > i => s[j].op \in AboveHandlers /\ s[j].saved \notin Yielding
      BY <1>1, <3>1 DEF Shielded
    <3>3. \A j \in 1..n : w[j].op = s[j].op /\ w[j].saved = s[j].saved
      BY <1>1, <1>2
    <3> QED
      BY <1>4, <3>1, <3>2, <3>3
  <2> QED
    BY <1>1, <2>1, <2>2
<1> QED
  BY <1>3, <1>5 DEF CallbacksShielded, OneThread, new

\* returns,
LEMMA ReturnShielded ==
    ASSUME TypeOK, CallbacksShielded, OneThread, NEW t \in Threads, Depth(t) > 0,
           NEW rc \in Rcs, Return(t, rc),
           UnderHandler(stack[t]) => clientState' \notin Yielding
    PROVE  CallbacksShielded'
<1> DEFINE s == stack[t]
           n == Len(s) - 1
           r == Returned(s, rc)
           new == clientState'
<1>1. s \in Seq(Frames) /\ Shielded(s, clientState) /\ Len(s) > 0
  BY DEF TypeOK, CallbacksShielded, Depth
<1>2. /\ n \in Nat /\ Len(r) = n /\ Len(s) = n + 1
      /\ \A i \in 1..n : /\ r[i].op = s[i].op /\ r[i].pc = s[i].pc
                         /\ r[i].saved = s[i].saved
  <2>1. Len(s) - 1 \in Nat /\ Len(s) = Len(s) - 1 + 1
    BY <1>1
  <2>2. Len(r) = n
    BY <1>1, ReturnedFacts
  <2>3. \A i \in 1..n : /\ r[i].op = s[i].op /\ r[i].pc = s[i].pc
                        /\ r[i].saved = s[i].saved
    <3> HIDE DEF s
    <3> QED
      BY <1>1, ReturnedFacts
  <2> QED
    BY <2>1, <2>2, <2>3
<1>3. stack'[t] = r
  BY DEF Return, TypeOK
<1>4. UnderHandler(s) => new \notin Yielding
  OBVIOUS
<1> HIDE DEF r, n, new
<1>5. Shielded(r, new)
  <2> SUFFICES ASSUME NEW i \in 1..n, r[i].pc = "callback"
               PROVE  /\ new \notin Yielding
                      /\ \A j \in 1..n : j > i => r[j].op \in AboveHandlers
                                                  /\ r[j].saved \notin Yielding
    BY <1>2 DEF Shielded
  <2>1. s[i].pc = "callback" /\ UnderHandler(s)
    BY <1>2 DEF UnderHandler
  <2>2. \A j \in 1..n : j \in 1..Len(s)
    BY <1>2
  <2>3. \A j \in 1..n : j > i => s[j].op \in AboveHandlers /\ s[j].saved \notin Yielding
    BY <1>1, <2>1, <2>2 DEF Shielded
  <2> QED
    BY <1>2, <1>4, <2>1, <2>3
<1> QED
  BY <1>3, <1>5 DEF CallbacksShielded, OneThread, new

\* and a new call is added to a stack.
LEMMA AppendShielded ==
    ASSUME NEW s \in Seq(Frames), NEW state, Shielded(s, state), NEW f \in Frames,
           f.pc # "callback",
           (\E i \in 1..Len(s) : s[i].pc = "callback") =>
              f.op \in AboveHandlers /\ f.saved \notin Yielding
    PROVE  Shielded(Append(s, f), state)
<1> DEFINE n == Len(s)
           a == Append(s, f)
<1>1. /\ n \in Nat /\ Len(a) = n + 1 /\ a[n + 1] = f
      /\ \A i \in 1..n : a[i] = s[i]
  BY AppendFacts
<1> HIDE DEF a
<1>2. \A i \in 1..(n + 1) : i \in 1..n \/ i = n + 1
  BY <1>1
<1> SUFFICES ASSUME NEW i \in 1..(n + 1), a[i].pc = "callback"
             PROVE  /\ state \notin Yielding
                    /\ \A j \in 1..(n + 1) : j > i => a[j].op \in AboveHandlers
                                                      /\ a[j].saved \notin Yielding
  BY <1>1 DEF Shielded, a
<1>3. i \in 1..n /\ s[i].pc = "callback"
  BY <1>1, <1>2
<1>4. \A j \in 1..n : j > i => s[j].op \in AboveHandlers /\ s[j].saved \notin Yielding
  BY <1>3 DEF Shielded
<1> QED
  BY <1>1, <1>2, <1>3, <1>4 DEF Shielded

LEMMA PushShielded ==
    ASSUME TypeOK, CallbacksShielded, OneThread, NEW t \in Threads,
           NEW f \in Frames, Push(t, f), UNCHANGED clientState,
           f.pc # "callback", Depth(t) > 0 => f.op \in AboveHandlers /\ f.saved \notin Yielding
    PROVE  CallbacksShielded'
<1> DEFINE s == stack[t]
<1>1. s \in Seq(Frames) /\ Shielded(s, clientState) /\ Len(s) \in Nat
  BY DEF TypeOK, CallbacksShielded
<1>2. (\E i \in 1..Len(s) : s[i].pc = "callback") => Len(s) > 0
  BY <1>1
<1>3. Shielded(Append(s, f), clientState)
  BY <1>1, <1>2, AppendShielded DEF Depth
<1>4. stack'[t] = Append(s, f)
  BY DEF Push, TypeOK
<1> QED
  BY <1>3, <1>4 DEF CallbacksShielded, OneThread

LEMMA InvokeShielded ==
    ASSUME TypeOK, CallbacksShielded, OneThread, NEW t \in Threads, Depth(t) > 0,
           NEW pc \in PcsOf(Top(t).op), NEW f \in Frames, Invoke(t, pc, f),
           UNCHANGED clientState, pc # "callback", f.pc # "callback",
           UnderHandler(stack[t]) => f.op \in AboveHandlers /\ f.saved \notin Yielding
    PROVE  CallbacksShielded'
<1> DEFINE s == stack[t]
           n == Len(s)
           w == WithTop(s, pc, "SUCCESS")
<1>1. s \in Seq(Frames) /\ Shielded(s, clientState) /\ n \in Nat /\ n > 0 /\ "SUCCESS" \in Rcs
  BY DEF TypeOK, CallbacksShielded, Depth, Rcs
<1>2. /\ w \in Seq(Frames) /\ Len(w) = n /\ \A i \in 1..(n - 1) : w[i] = s[i]
      /\ w[n].op = s[n].op /\ w[n].saved = s[n].saved /\ w[n].pc = pc
  BY <1>1, WithTopFacts DEF Depth, Top
<1>3. stack'[t] = Append(w, f)
  BY DEF Invoke, TypeOK
<1> HIDE DEF w
<1>4. \A i \in 1..n : w[i].pc = "callback" => i < n /\ s[i].pc = "callback"
  BY <1>1, <1>2
<1>5. \A j \in 1..n : w[j].op = s[j].op /\ w[j].saved = s[j].saved
  BY <1>1, <1>2
<1>6. Shielded(w, clientState)
  BY <1>1, <1>2, <1>4, <1>5 DEF Shielded
<1>7. (\E i \in 1..Len(w) : w[i].pc = "callback") => UnderHandler(s)
  BY <1>2, <1>4 DEF UnderHandler
<1>8. Shielded(Append(w, f), clientState)
  BY <1>2, <1>6, <1>7, AppendShielded
<1> QED
  BY <1>3, <1>8 DEF CallbacksShielded, OneThread

\* The functions that never run above a handler may do what they like,
LEMMA OutsideShielded ==
    ASSUME TypeOK, CallbacksShielded, OneThread, NEW t \in Threads, Depth(t) > 0,
           Top(t).op \notin AboveHandlers,
           \/ \E pc \in PcsOf(Top(t).op), rc \in Rcs : Goto(t, pc, rc)
           \/ \E rc \in Rcs : Return(t, rc)
           \/ \E pc \in PcsOf(Top(t).op), f \in Frames :
                 Invoke(t, pc, f) /\ f.pc # "callback" /\ UNCHANGED clientState
    PROVE  CallbacksShielded'
<1>1. ~UnderHandler(stack[t])
  BY TopShielded
<1>2. \A pc \in PcsOf(Top(t).op) : pc # "callback"
  BY TopType, PcsFacts DEF AboveHandlers, Ops, Requests
<1>3. CASE \E pc \in PcsOf(Top(t).op), rc \in Rcs : Goto(t, pc, rc)
  BY <1>1, <1>2, <1>3, GotoShielded
<1>4. CASE \E rc \in Rcs : Return(t, rc)
  BY <1>1, <1>4, ReturnShielded
<1>5. CASE \E pc \in PcsOf(Top(t).op), f \in Frames :
              Invoke(t, pc, f) /\ f.pc # "callback" /\ UNCHANGED clientState
  BY <1>1, <1>2, <1>5, InvokeShielded
<1> QED
  BY <1>3, <1>4, <1>5

\* which are connect,
LEMMA ConnectShielded ==
    ASSUME TypeOK, CallbacksShielded, OneThread, NEW t \in Threads, ConnectStep(t)
    PROVE  CallbacksShielded'
<1>1. Depth(t) > 0 /\ Top(t).op = "connect"
  BY DEF ConnectStep, At, ConnectStart, ConnectTls, ConnectAck, ConnectDone,
     ConnectFailed
<1>2. \/ \E pc \in PcsOf(Top(t).op), rc \in Rcs : Goto(t, pc, rc)
      \/ \E rc \in Rcs : Return(t, rc)
  BY <1>1, PcsFacts DEF ConnectStep, ConnectStart, ConnectTls, ConnectAck, ConnectDone,
     ConnectFailed, Rcs
<1> QED
  BY <1>1, <1>2, OutsideShielded DEF AboveHandlers

\* attempt_reconnect
LEMMA AttemptShielded ==
    ASSUME TypeOK, CallbacksShielded, OneThread, NEW t \in Threads, AttemptStep(t)
    PROVE  CallbacksShielded'
<1>1. Depth(t) > 0 /\ Top(t).op = "attempt_reconnect" /\ Top(t).rc \in Rcs
  <2>1. Depth(t) > 0 /\ Top(t).op = "attempt_reconnect"
    BY DEF AttemptStep, At, AttemptConnect, AttemptAfterConnect, AttemptPending,
       AttemptResubscribe, AttemptAfterResubscribe
  <2> QED
    BY <2>1, TopType
<1>2. ASSUME NEW pc \in PcsOf("attempt_reconnect"), NEW op \in { "connect", "resubscribe" },
             NEW saved \in ClientStates, Invoke(t, pc, Frame(op, "cas", saved)),
             UNCHANGED clientState
      PROVE  CallbacksShielded'
  <2>0. op \in Ops /\ "cas" \in PcsOf(op)
    BY PcsFacts DEF Ops, Requests
  <2>1. Frame(op, "cas", saved) \in Frames /\ Frame(op, "cas", saved).pc # "callback"
    BY <2>0, FrameFacts
  <2> QED
    BY <1>1, <1>2, <2>1, OutsideShielded DEF AboveHandlers
<1>3. ASSUME \/ \E pc \in PcsOf("attempt_reconnect"), rc \in Rcs : Goto(t, pc, rc)
             \/ \E rc \in Rcs : Return(t, rc)
      PROVE  CallbacksShielded'
  BY <1>1, <1>3, OutsideShielded DEF AboveHandlers
<1>4. CASE AttemptConnect(t)
  BY <1>2, <1>3, <1>4, PcsFacts DEF AttemptConnect, Rcs, TypeOK
<1>5. CASE AttemptAfterConnect(t)
  BY <1>3, <1>5, PcsFacts DEF AttemptAfterConnect, Rcs
<1>6. CASE AttemptPending(t)
  BY <1>3, <1>6 DEF AttemptPending, Rcs
<1>7. CASE AttemptResubscribe(t)
  BY <1>2, <1>3, <1>7, PcsFacts DEF AttemptResubscribe, Rcs, ClientStates
<1>8. CASE AttemptAfterResubscribe(t)
  BY <1>1, <1>3, <1>8 DEF AttemptAfterResubscribe, Rcs
<1> QED
  BY <1>4, <1>5, <1>6, <1>7, <1>8 DEF AttemptStep

\* and yield.
LEMMA YieldShielded ==
    ASSUME TypeOK, CallbacksShielded, OneThread, NEW t \in Threads, YieldStep(t)
    PROVE  CallbacksShielded'
<1>1. Depth(t) > 0 /\ Top(t).op = "yield" /\ Top(t).rc \in Rcs
  <2>1. Depth(t) > 0 /\ Top(t).op = "yield"
    BY DEF YieldStep, At, YieldStart, YieldLoop, YieldReconnect, YieldReconnected,
       YieldRead, YieldDelivered, KeepAlive, HandleDisconnect, HandleDisconnectResult,
       ForceClientDisconnect, DisconnectHandlerReturn, YieldLost, YieldAgain, YieldExit
  <2> QED
    BY <2>1, TopType
<1>2. ASSUME NEW pc \in PcsOf("yield"),
             NEW op \in { "deliver", "disconnect", "attempt_reconnect" },
             NEW from \in { "cas", "check", "connect" } \cap PcsOf(op),
             NEW saved \in ClientStates, Invoke(t, pc, Frame(op, from, saved)),
             UNCHANGED clientState
      PROVE  CallbacksShielded'
  <2>1. Frame(op, from, saved) \in Frames /\ Frame(op, from, saved).pc # "callback"
    BY FrameFacts DEF Ops, Requests
  <2> QED
    BY <1>1, <1>2, <2>1, OutsideShielded DEF AboveHandlers
<1>3. ASSUME \/ \E pc \in PcsOf("yield"), rc \in Rcs : Goto(t, pc, rc)
             \/ \E rc \in Rcs : Return(t, rc)
      PROVE  CallbacksShielded'
  BY <1>1, <1>3, OutsideShielded DEF AboveHandlers
<1>4. CASE YieldStart(t)
  BY <1>3, <1>4, PcsFacts DEF YieldStart, Rcs
<1>5. CASE YieldLoop(t)
  BY <1>3, <1>5, PcsFacts DEF YieldLoop, Rcs
<1>6. CASE YieldReconnect(t)
  BY <1>2, <1>3, <1>6, PcsFacts DEF YieldReconnect, Rcs, ClientStates
<1>7. CASE YieldReconnected(t)
  BY <1>1, <1>3, <1>7, PcsFacts DEF YieldReconnected, Rcs
<1>8. CASE YieldRead(t)
  BY <1>2, <1>3, <1>8, PcsFacts DEF YieldRead, Rcs, TypeOK
<1>9. CASE YieldDelivered(t)
  BY <1>1, <1>3, <1>9, PcsFacts DEF YieldDelivered, Rcs
<1>10. CASE KeepAlive(t)
  BY <1>3, <1>10, PcsFacts DEF KeepAlive, Rcs
<1>11. CASE HandleDisconnect(t)
  BY <1>2, <1>11, PcsFacts DEF HandleDisconnect, TypeOK
<1>12. CASE HandleDisconnectResult(t)
  BY <1>3, <1>12, PcsFacts DEF HandleDisconnectResult, Rcs
<1>13. CASE ForceClientDisconnect(t)
  BY <1>3, <1>13, PcsFacts DEF ForceClientDisconnect, Rcs
<1>14. CASE DisconnectHandlerReturn(t)
  BY <1>3, <1>14, PcsFacts DEF DisconnectHandlerReturn, Rcs
<1>15. CASE YieldLost(t)
  BY <1>3, <1>15, PcsFacts DEF YieldLost, Rcs
<1>16. CASE YieldAgain(t)
  BY <1>1, <1>3, <1>16, PcsFacts DEF YieldAgain, Rcs
<1>17. CASE YieldExit(t)
  BY <1>1, <1>3, <1>17 DEF YieldExit, RestoreRc, Rcs
<1> QED
  BY <1>4, <1>5, <1>6, <1>7, <1>8, <1>9, <1>10, <1>11, <1>12, <1>13, <1>14, <1>15,
     <1>16, <1>17 DEF YieldStep

\* disconnect puts the client in states that are not yield's, or back in the
\* one it was called in,
LEMMA DisconnectShielded ==
    ASSUME TypeOK, CallbacksShielded, OneThread, NEW t \in Threads, DisconnectStep(t)
    PROVE  CallbacksShielded'
<1>1. Depth(t) > 0 /\ Top(t).op = "disconnect"
  BY DEF DisconnectStep, At, DisconnectCheck, DisconnectStart, DisconnectSend,
     DisconnectDone, DisconnectUndo
<1>2. /\ UnderHandler(stack[t]) => Top(t).saved \notin Yielding /\ clientState \notin Yielding
      /\ "DISCONNECTING" \notin Yielding /\ "DISCONNECTED_MANUALLY" \notin Yielding
  BY <1>1, TopShielded DEF Yielding
<1>3. clientState' \in { clientState, "DISCONNECTING", "DISCONNECTED_MANUALLY", Top(t).saved }
  BY DEF DisconnectStep, DisconnectCheck, DisconnectStart, DisconnectSend,
     DisconnectDone, DisconnectUndo, SetClientState
<1>4. \/ \E pc \in PcsOf("disconnect"), rc \in Rcs : Goto(t, pc, rc)
      \/ \E rc \in Rcs : Return(t, rc)
  BY PcsFacts DEF DisconnectStep, DisconnectCheck, DisconnectStart, DisconnectSend,
     DisconnectDone, DisconnectUndo, Rcs
<1>5. UnderHandler(stack[t]) => clientState' \notin Yielding
  BY <1>2, <1>3
<1>6. \A pc \in PcsOf("disconnect") : pc # "callback"
  BY PcsFacts
<1> QED
  BY <1>1, <1>4, <1>5, <1>6, GotoShielded, ReturnShielded

\* so do the requests, resubscribe among them since it does not run there,
LEMMA RequestShielded ==
    ASSUME TypeOK, CallbacksShielded, OneThread, NEW t \in Threads, RequestStep(t)
    PROVE  CallbacksShielded'
<1>1. Depth(t) > 0 /\ Top(t).op \in Requests /\ Top(t).rc \in Rcs
  <2>1. Depth(t) > 0 /\ Top(t).op \in Requests
    BY DEF RequestStep, At, RequestStart, UnsubscribeRollback, RequestSend,
       RequestWait, RequestRestore, Requests
  <2> QED
    BY <2>1, TopType
<1>2. UnderHandler(stack[t]) => Top(t).saved \notin Yielding /\ clientState \notin Yielding
  BY <1>1, TopShielded
<1>3. Busy(Top(t).op) \notin Yielding
  BY <1>1 DEF Yielding, Busy, Requests
<1>4. clientState' \in { clientState, Busy(Top(t).op), Top(t).saved }
  BY DEF RequestStep, RequestStart, UnsubscribeRollback, RequestSend, RequestWait,
     RequestRestore, SetClientState
<1>5. UnderHandler(stack[t]) => clientState' \notin Yielding
  BY <1>2, <1>3, <1>4
<1>6. PcsOf(Top(t).op) = { "cas", "rollback", "send", "wait", "restore" }
  BY <1>1, PcsFacts
<1>7. ASSUME \/ \E pc \in PcsOf(Top(t).op), rc \in Rcs : Goto(t, pc, rc)
             \/ \E rc \in Rcs : Return(t, rc)
      PROVE  CallbacksShielded'
  BY <1>1, <1>5, <1>6, <1>7, GotoShielded, ReturnShielded
<1>8. CASE RequestStart(t)
  BY <1>6, <1>7, <1>8 DEF RequestStart, Rcs
<1>9. CASE UnsubscribeRollback(t)
  BY <1>7, <1>9 DEF UnsubscribeRollback, RestoreRc, Rcs
<1>10. CASE RequestSend(t)
  BY <1>6, <1>7, <1>10 DEF RequestSend, Rcs
<1>11. CASE RequestWait(t)
  <2> DEFINE f == Frame("deliver", "cas", clientState)
  <2>1. CASE \E pc \in { "send", "restore" }, rc \in { "SUCCESS", "ERROR" } : Goto(t, pc, rc)
    BY <1>6, <1>7, <2>1 DEF Rcs
  <2>2. CASE Invoke(t, "wait", f)
    <3>1. f \in Frames /\ f.op = "deliver" /\ f.pc = "cas" /\ f.saved = clientState
      BY FrameFacts, PcsFacts DEF Ops, Requests, ClientStates, TypeOK
    <3>2. f.op \in AboveHandlers /\ UNCHANGED clientState
      BY <1>11, <3>1 DEF AboveHandlers, RequestWait
    <3> HIDE DEF f
    <3> QED
      BY <1>1, <1>2, <1>6, <2>2, <3>1, <3>2, InvokeShielded
  <2> QED
    BY <1>11, <2>1, <2>2 DEF RequestWait
<1>12. CASE RequestRestore(t)
  BY <1>1, <1>7, <1>12 DEF RequestRestore, RestoreRc, Rcs
<1> QED
  BY <1>8, <1>9, <1>10, <1>11, <1>12 DEF RequestStep

\* and a delivery announces the handlers before it runs them.
LEMMA DeliverShielded ==
    ASSUME TypeOK, StackDiscipline, CallbacksShielded, OneThread, NEW t \in Threads,
           DeliverStep(t)
    PROVE  CallbacksShielded'
<1>1. Depth(t) > 0 /\ Top(t).op = "deliver"
  BY DEF DeliverStep, At, DeliverStart, DeliverReturn
<1>2. UnderHandler(stack[t]) => Top(t).saved \notin Yielding /\ clientState \notin Yielding
  BY <1>1, TopShielded
<1>3. Busy("deliver") \notin Yielding
  BY DEF Yielding, Busy
<1>4. CASE DeliverStart(t)
  <2>1. clientState = Top(t).saved
    BY <1>1, <1>4, TopSound, OwnedFacts DEF DeliverStart, At
  <2>2. clientState' = Busy("deliver") /\ Goto(t, "callback", "SUCCESS")
    BY <1>4, <2>1 DEF DeliverStart, SetClientState
  <2> QED
    BY <1>1, <1>3, <2>2, GotoShielded, PcsFacts DEF Rcs
<1>5. CASE DeliverReturn(t)
  <2>1. clientState' \in { clientState, Top(t).saved }
    BY <1>5 DEF DeliverReturn, SetClientState
  <2>2. \E rc \in Rcs : Return(t, rc)
    BY <1>5 DEF DeliverReturn, RestoreRc, Rcs
  <2> QED
    BY <1>1, <1>2, <2>1, <2>2, ReturnShielded
<1> QED
  BY <1>4, <1>5 DEF DeliverStep

\* A handler's calls of yield and resubscribe are refused.
LEMMA AppCallShielded ==
    ASSUME TypeOK, CallbacksShielded, OneThread, HandlerSilent, HandlersDoNotConnect,
           NEW t \in Threads, AppCall(t)
    PROVE  CallbacksShielded'
<1>1. ASSUME Depth(t) # 0, NEW op, MayCall(t, op)
      PROVE  op \notin { "connect", "attempt_reconnect" } /\ clientState \notin Yielding
  <2>1. Depth(t) > 0 /\ Top(t).pc = "callback" /\ op \in CallbackCalls
    BY <1>1 DEF MayCall, HandlerSilent
  <2> QED
    BY <2>1, TopShielded DEF HandlersDoNotConnect
<1>2. ASSUME NEW op \in Ops, NEW pc \in PcsOf(op), pc # "callback",
             NEW saved \in ClientStates, MayCall(t, op), Push(t, Frame(op, pc, saved)),
             UNCHANGED clientState,
             Depth(t) # 0 => op \in AboveHandlers /\ saved = clientState
      PROVE  CallbacksShielded'
  <2> DEFINE f == Frame(op, pc, saved)
  <2>1. f \in Frames /\ f.op = op /\ f.pc = pc /\ f.saved = saved
    BY FrameFacts
  <2> HIDE DEF f
  <2>2. Depth(t) > 0 => f.op \in AboveHandlers /\ f.saved \notin Yielding
    BY <1>1, <1>2, <2>1
  <2> QED
    BY <1>2, <2>1, <2>2, PushShielded DEF f
<1>3. clientState \in ClientStates /\ "CONNECTED_IDLE" \in ClientStates
  BY DEF TypeOK, ClientStates
<1>4. /\ Ops = Requests \cup { "connect", "disconnect", "attempt_reconnect", "yield", "deliver" }
      /\ Requests = { "publish", "subscribe", "unsubscribe", "resubscribe" }
  BY DEF Ops, Requests
<1>5. CASE CallConnect(t)
  BY <1>1, <1>2, <1>3, <1>4, <1>5, PcsFacts DEF CallConnect
<1>6. CASE CallDisconnect(t)
  BY <1>2, <1>3, <1>4, <1>6, PcsFacts DEF CallDisconnect, AboveHandlers
<1>7. CASE CallAttemptReconnect(t)
  BY <1>1, <1>2, <1>3, <1>4, <1>7, PcsFacts DEF CallAttemptReconnect
<1>8. CASE CallPublish(t)
  BY <1>2, <1>3, <1>4, <1>8, PcsFacts DEF CallPublish, AboveHandlers
<1>9. CASE CallSubscribe(t)
  BY <1>2, <1>3, <1>4, <1>9, PcsFacts DEF CallSubscribe, AboveHandlers
<1>10. CASE CallUnsubscribe(t)
  BY <1>2, <1>3, <1>4, <1>10, PcsFacts DEF CallUnsubscribe, AboveHandlers
<1>11. CASE CallResubscribe(t)
  <2>1. Depth(t) = 0
    BY <1>1, <1>11 DEF CallResubscribe, Yielding
  <2> QED
    BY <1>2, <1>3, <1>4, <1>11, <2>1, PcsFacts DEF CallResubscribe
<1>12. CASE CallYield(t)
  <2>1. Depth(t) = 0
    BY <1>1, <1>12 DEF CallYield, Yielding
  <2>2. PICK pc \in { "cas", "loop" } : Push(t, Frame("yield", pc, "CONNECTED_IDLE"))
    BY <1>12 DEF CallYield
  <2>3. "yield" \in Ops /\ pc \in PcsOf("yield") /\ pc # "callback"
    BY <1>4, PcsFacts
  <2> QED
    BY <1>2, <1>3, <1>12, <2>1, <2>2, <2>3 DEF CallYield
<1>13. CASE SetAutoReconnect(t)
  BY <1>13 DEF SetAutoReconnect, CallbacksShielded
<1> QED
  BY <1>5, <1>6, <1>7, <1>8, <1>9, <1>10, <1>11, <1>12, <1>13 DEF AppCall

\* "while callback return is in progress, Yield should not be called" is kept
\* for a client used by one thread whose handlers do not connect: yield's state
\* is never entered while a message handler runs, however deep it has called the
\* API and whatever arrived meanwhile.
THEOREM HandlersKeepYieldOut ==
    ASSUME OneThread, HandlerSilent, HandlersDoNotConnect
    PROVE  Spec => []NoYieldDuringCallback
<1>1. Init => CallbacksShielded
  BY DEF Init, CallbacksShielded, Shielded
<1>2. TypeOK /\ StackDiscipline /\ CallbacksShielded /\ [Next]_vars => CallbacksShielded'
  <2> SUFFICES ASSUME TypeOK, StackDiscipline, CallbacksShielded, [Next]_vars
               PROVE  CallbacksShielded'
    OBVIOUS
  <2>1. CASE UNCHANGED vars
    BY <2>1 DEF CallbacksShielded, vars
  <2>2. ASSUME NEW t \in Threads, ThreadStep(t)
        PROVE  CallbacksShielded'
    BY <2>2, AppCallShielded, ConnectShielded, DisconnectShielded, RequestShielded,
       AttemptShielded, DeliverShielded, YieldShielded DEF ThreadStep
  <2> QED
    BY <2>1, <2>2 DEF Next
<1>3. CallbacksShielded => NoYieldDuringCallback
  BY DEF CallbacksShielded, Shielded, NoYieldDuringCallback, InCallback, Depth, Yielding
<1> QED
  BY <1>1, <1>2, <1>3, TypeCorrect, SingleThreadDiscipline, PTL DEF Spec

-----------------------------------------------------------------------------
(* A client that does not reconnect by itself, used by any number of threads *)

\* Reconnecting is left to yield, and the setting of init stays.  An application
\* that calls attempt_reconnect may leave any client pending.
ReconnectLeftToYield ==
    LET own == { "attempt_reconnect", "autoreconnect_set_status" }
    IN  /\ \A t \in Threads : Calls[t] \cap own = {}
        /\ CallbackCalls \cap own = {}
        /\ HandlerCalls \cap own = {}

\* Where yield makes an attempt to reconnect.
Reconnecting == { "reconnect", "reconnected" }

\* A call that neither reconnects nor remembers a pending client.
PlainFrame(f) ==
    /\ f.op # "attempt_reconnect" /\ f.pc \notin Reconnecting
    /\ f.saved # "PENDING_RECONNECT"

PlainStacks == \A t \in Threads : \A i \in 1..Len(stack[t]) : PlainFrame(stack[t][i])

StaysPlain == ~autoReconnect => clientState # "PENDING_RECONNECT" /\ PlainStacks

\* The innermost call of a thread goes on, returns, calls another function,
PlainMove(t) ==
    \/ \E pc \in PcsOf(Top(t).op), rc \in Rcs : pc \notin Reconnecting /\ Goto(t, pc, rc)
    \/ \E rc \in Rcs : Return(t, rc)
    \/ \E pc \in PcsOf(Top(t).op), f \in Frames :
          pc \notin Reconnecting /\ PlainFrame(f) /\ Invoke(t, pc, f)

LEMMA MovePlain ==
    ASSUME TypeOK, PlainStacks, NEW t \in Threads, Depth(t) > 0, PlainMove(t)
    PROVE  PlainStacks'
<1> DEFINE s == stack[t]
           n == Len(s)
<1>1. /\ s \in Seq(Frames) /\ n \in Nat /\ n > 0 /\ "SUCCESS" \in Rcs
      /\ \A i \in 1..n : PlainFrame(s[i])
  BY DEF TypeOK, Depth, PlainStacks, Rcs
<1>2. ASSUME NEW pc \in PcsOf(Top(t).op), NEW rc \in Rcs, pc \notin Reconnecting
      PROVE  /\ WithTop(s, pc, rc) \in Seq(Frames) /\ Len(WithTop(s, pc, rc)) = n
             /\ \A i \in 1..n : PlainFrame(WithTop(s, pc, rc)[i])
  <2> DEFINE w == WithTop(s, pc, rc)
  <2>1. /\ w \in Seq(Frames) /\ Len(w) = n /\ \A i \in 1..(n - 1) : w[i] = s[i]
        /\ w[n].op = s[n].op /\ w[n].saved = s[n].saved /\ w[n].pc = pc
    BY <1>1, WithTopFacts DEF Depth, Top
  <2> HIDE DEF w
  <2>2. \A i \in 1..n : PlainFrame(w[i])
    BY <1>1, <1>2, <2>1 DEF PlainFrame, Reconnecting
  <2> QED
    BY <2>1, <2>2 DEF w
<1>3. ASSUME NEW r, stack' = [stack EXCEPT ![t] = r],
             \A i \in 1..Len(r) : PlainFrame(r[i])
      PROVE  PlainStacks'
  BY <1>3 DEF PlainStacks, TypeOK
<1>4. CASE \E pc \in PcsOf(Top(t).op), rc \in Rcs : pc \notin Reconnecting /\ Goto(t, pc, rc)
  <2>1. PICK pc \in PcsOf(Top(t).op), rc \in Rcs : pc \notin Reconnecting /\ Goto(t, pc, rc)
    BY <1>4
  <2> QED
    BY <1>2, <1>3, <2>1 DEF Goto
<1>5. CASE \E rc \in Rcs : Return(t, rc)
  <2>1. PICK rc \in Rcs : Return(t, rc)
    BY <1>5
  <2> DEFINE r == Returned(s, rc)
  <2>2. /\ Len(r) = n - 1
        /\ \A i \in 1..(n - 1) : /\ r[i].op = s[i].op /\ r[i].pc = s[i].pc
                                 /\ r[i].saved = s[i].saved
    BY <1>1, ReturnedFacts
  <2> HIDE DEF r
  <2>3. \A i \in 1..Len(r) : PlainFrame(r[i])
    BY <1>1, <2>2 DEF PlainFrame, Reconnecting
  <2> QED
    BY <1>3, <2>1, <2>3 DEF Return, r
<1>6. CASE \E pc \in PcsOf(Top(t).op), f \in Frames :
              pc \notin Reconnecting /\ PlainFrame(f) /\ Invoke(t, pc, f)
  <2>1. PICK pc \in PcsOf(Top(t).op), f \in Frames :
                pc \notin Reconnecting /\ PlainFrame(f) /\ Invoke(t, pc, f)
    BY <1>6
  <2> DEFINE w == WithTop(s, pc, "SUCCESS")
             a == Append(w, f)
  <2>2. w \in Seq(Frames) /\ Len(w) = n /\ \A i \in 1..n : PlainFrame(w[i])
    BY <1>1, <1>2, <2>1
  <2> HIDE DEF w
  <2>3. Len(a) = n + 1 /\ a[n + 1] = f /\ \A i \in 1..n : a[i] = w[i]
    BY <2>2, AppendFacts
  <2> HIDE DEF a
  <2>4. \A i \in 1..Len(a) : i \in 1..n \/ i = n + 1
    BY <1>1, <2>3
  <2>5. \A i \in 1..Len(a) : PlainFrame(a[i])
    BY <2>1, <2>2, <2>3, <2>4
  <2> QED
    BY <1>3, <2>1, <2>5 DEF Invoke, a, w
<1> QED
  BY <1>4, <1>5, <1>6 DEF PlainMove, Reconnecting

\* or is new.
LEMMA PushPlain ==
    ASSUME TypeOK, PlainStacks, NEW t \in Threads,
           NEW f \in Frames, PlainFrame(f), Push(t, f)
    PROVE  PlainStacks'
<1> DEFINE s == stack[t]
           n == Len(s)
           a == Append(s, f)
<1>1. /\ s \in Seq(Frames) /\ n \in Nat /\ \A i \in 1..n : PlainFrame(s[i])
  BY DEF TypeOK, PlainStacks
<1>2. Len(a) = n + 1 /\ a[n + 1] = f /\ \A i \in 1..n : a[i] = s[i]
  BY <1>1, AppendFacts
<1> HIDE DEF a
<1>3. \A i \in 1..Len(a) : i \in 1..n \/ i = n + 1
  BY <1>1, <1>2
<1>4. \A i \in 1..Len(a) : PlainFrame(a[i])
  BY <1>1, <1>2, <1>3
<1>5. stack' = [stack EXCEPT ![t] = a]
  BY DEF Push, a
<1> QED
  BY <1>4, <1>5 DEF PlainStacks, TypeOK

\* The frames the functions of the client start for each other.
LEMMA PlainCalls ==
    ASSUME TypeOK, clientState # "PENDING_RECONNECT"
    PROVE  /\ Frame("deliver", "cas", clientState) \in Frames
           /\ PlainFrame(Frame("deliver", "cas", clientState))
           /\ Frame("disconnect", "check", clientState) \in Frames
           /\ PlainFrame(Frame("disconnect", "check", clientState))
<1>1. /\ "deliver" \in Ops /\ "disconnect" \in Ops /\ "cas" \in PcsOf("deliver")
      /\ "check" \in PcsOf("disconnect") /\ clientState \in ClientStates
  BY PcsFacts DEF Ops, TypeOK
<1> QED
  BY <1>1, FrameFacts DEF PlainFrame, Reconnecting

\* The steps of all calls but yield's,
LEMMA CallStepsPlain ==
    ASSUME TypeOK, ~autoReconnect, clientState # "PENDING_RECONNECT", PlainStacks,
           NEW t \in Threads,
           ConnectStep(t) \/ DisconnectStep(t) \/ RequestStep(t) \/ AttemptStep(t)
              \/ DeliverStep(t)
    PROVE  clientState' # "PENDING_RECONNECT" /\ PlainStacks'
<1>0. ASSUME Depth(t) > 0
      PROVE  PlainFrame(Top(t)) /\ Top(t).rc \in Rcs
  BY <1>0, TopType DEF PlainStacks, Depth, Top, TypeOK
<1>1. CASE ConnectStep(t)
  <2>1. Depth(t) > 0 /\ Top(t).op = "connect"
    BY <1>1 DEF ConnectStep, At, ConnectStart, ConnectTls, ConnectAck, ConnectDone,
       ConnectFailed
  <2>2. PlainMove(t)
    BY <1>1, <2>1, PcsFacts DEF ConnectStep, ConnectStart, ConnectTls, ConnectAck,
       ConnectDone, ConnectFailed, PlainMove, Reconnecting, Rcs
  <2>3. clientState' \in { clientState, "CONNECTING", "CONNECTED_IDLE", "DISCONNECTED_ERROR" }
    BY <1>1 DEF ConnectStep, ConnectStart, ConnectTls, ConnectAck, ConnectDone,
       ConnectFailed, SetClientState
  <2> QED
    BY <2>1, <2>2, <2>3, MovePlain
<1>2. CASE DisconnectStep(t)
  <2>1. Depth(t) > 0 /\ Top(t).op = "disconnect"
    BY <1>2 DEF DisconnectStep, At, DisconnectCheck, DisconnectStart, DisconnectSend,
       DisconnectDone, DisconnectUndo
  <2>2. PlainMove(t)
    BY <1>2, <2>1, PcsFacts DEF DisconnectStep, DisconnectCheck, DisconnectStart,
       DisconnectSend, DisconnectDone, DisconnectUndo, PlainMove, Reconnecting, Rcs
  <2>3. clientState' \in { clientState, "DISCONNECTING", "DISCONNECTED_MANUALLY",
                           Top(t).saved }
    BY <1>2 DEF DisconnectStep, DisconnectCheck, DisconnectStart, DisconnectSend,
       DisconnectDone, DisconnectUndo, SetClientState
  <2> QED
    BY <1>0, <2>1, <2>2, <2>3, MovePlain DEF PlainFrame, Reconnecting
<1>3. CASE RequestStep(t)
  <2>1. Depth(t) > 0 /\ Top(t).op \in Requests
    BY <1>3 DEF RequestStep, At, RequestStart, UnsubscribeRollback, RequestSend,
       RequestWait, RequestRestore, Requests
  <2>2. PcsOf(Top(t).op) = { "cas", "rollback", "send", "wait", "restore" }
    BY <2>1, PcsFacts
  <2>3. PlainMove(t)
    <3>1. CASE RequestStart(t)
      BY <2>2, <3>1 DEF RequestStart, PlainMove, Reconnecting, Rcs
    <3>2. CASE UnsubscribeRollback(t)
      BY <3>2 DEF UnsubscribeRollback, RestoreRc, PlainMove, Reconnecting, Rcs
    <3>3. CASE RequestSend(t)
      BY <2>2, <3>3 DEF RequestSend, PlainMove, Reconnecting, Rcs
    <3>4. CASE RequestWait(t)
      <4>1. CASE \E pc \in { "send", "restore" }, rc \in { "SUCCESS", "ERROR" } :
                    Goto(t, pc, rc)
        BY <2>2, <4>1 DEF PlainMove, Reconnecting, Rcs
      <4>2. CASE Invoke(t, "wait", Frame("deliver", "cas", clientState))
        BY <2>2, <4>2, PlainCalls DEF PlainMove, Reconnecting
      <4> QED
        BY <3>4, <4>1, <4>2 DEF RequestWait
    <3>5. CASE RequestRestore(t)
      BY <1>0, <2>1, <3>5 DEF RequestRestore, RestoreRc, PlainMove, Reconnecting, Rcs
    <3> QED
      BY <1>3, <3>1, <3>2, <3>3, <3>4, <3>5 DEF RequestStep
  <2>4. Busy(Top(t).op) # "PENDING_RECONNECT"
    BY <2>1 DEF Busy, Requests
  <2>5. clientState' \in { clientState, Busy(Top(t).op), Top(t).saved }
    BY <1>3 DEF RequestStep, RequestStart, UnsubscribeRollback, RequestSend,
       RequestWait, RequestRestore, SetClientState
  <2> QED
    BY <1>0, <2>1, <2>3, <2>4, <2>5, MovePlain DEF PlainFrame, Reconnecting
<1>4. CASE AttemptStep(t)
  <2>1. Depth(t) > 0 /\ Top(t).op = "attempt_reconnect"
    BY <1>4 DEF AttemptStep, At, AttemptConnect, AttemptAfterConnect, AttemptPending,
       AttemptResubscribe, AttemptAfterResubscribe
  <2> QED
    BY <1>0, <2>1 DEF PlainFrame, Reconnecting
<1>5. CASE DeliverStep(t)
  <2>1. Depth(t) > 0 /\ Top(t).op = "deliver"
    BY <1>5 DEF DeliverStep, At, DeliverStart, DeliverReturn
  <2>2. PlainMove(t)
    BY <1>5, <2>1, PcsFacts DEF DeliverStep, DeliverStart, DeliverReturn, RestoreRc,
       PlainMove, Reconnecting, Rcs
  <2>3. /\ clientState' \in { clientState, Busy("deliver"), Top(t).saved }
        /\ Busy("deliver") # "PENDING_RECONNECT"
    BY <1>5 DEF DeliverStep, DeliverStart, DeliverReturn, SetClientState, Busy
  <2> QED
    BY <1>0, <2>1, <2>2, <2>3, MovePlain DEF PlainFrame, Reconnecting
<1> QED
  BY <1>1, <1>2, <1>3, <1>4, <1>5

\* of yield, which finds no client to reconnect and leaves a lost one alone,
LEMMA YieldStepPlain ==
    ASSUME TypeOK, ~autoReconnect, clientState # "PENDING_RECONNECT", PlainStacks,
           NEW t \in Threads, YieldStep(t)
    PROVE  clientState' # "PENDING_RECONNECT" /\ PlainStacks'
<1>1. Depth(t) > 0 /\ Top(t).op = "yield"
  BY DEF YieldStep, At, YieldStart, YieldLoop, YieldReconnect, YieldReconnected,
     YieldRead, YieldDelivered, KeepAlive, HandleDisconnect, HandleDisconnectResult,
     ForceClientDisconnect, DisconnectHandlerReturn, YieldLost, YieldAgain, YieldExit
<1>2. PlainFrame(Top(t)) /\ Top(t).rc \in Rcs
  BY <1>1, TopType DEF PlainStacks, Depth, Top, TypeOK
<1>3. clientState' # "PENDING_RECONNECT"
  BY DEF YieldStep, YieldStart, YieldLoop, YieldReconnect, YieldReconnected, Busy,
     YieldRead, YieldDelivered, KeepAlive, HandleDisconnect, HandleDisconnectResult,
     ForceClientDisconnect, DisconnectHandlerReturn, YieldLost, YieldAgain, YieldExit,
     SetClientState
<1>4. ASSUME NEW pc \in PcsOf("yield") \ Reconnecting, NEW rc \in Rcs, Goto(t, pc, rc)
      PROVE  PlainMove(t)
  BY <1>1, <1>4 DEF PlainMove, Reconnecting
<1>5. PlainMove(t)
  <2>1. CASE YieldStart(t)
    BY <1>4, <2>1, PcsFacts DEF YieldStart, PlainMove, Reconnecting, Rcs, Reconnecting
  <2>2. CASE YieldLoop(t)
    BY <1>4, <2>2, PcsFacts DEF YieldLoop, Rcs, Reconnecting
  <2>3. CASE YieldReconnect(t)
    BY <1>2, <2>3 DEF YieldReconnect, At, PlainFrame, Reconnecting
  <2>4. CASE YieldReconnected(t)
    BY <1>2, <2>4 DEF YieldReconnected, At, PlainFrame, Reconnecting
  <2>5. CASE YieldRead(t)
    <3>1. CASE Invoke(t, "delivered", Frame("deliver", "cas", clientState))
      BY <1>1, <3>1, PlainCalls, PcsFacts DEF PlainMove, Reconnecting
    <3>2. CASE \E pc \in { "keep_alive", "disconnect", "exit" },
                  rc \in { "SUCCESS", "ERROR" } : Goto(t, pc, rc)
      BY <1>4, <3>2, PcsFacts DEF Rcs, Reconnecting
    <3> QED
      BY <2>5, <3>1, <3>2 DEF YieldRead
  <2>6. CASE YieldDelivered(t)
    BY <1>2, <1>4, <2>6, PcsFacts DEF YieldDelivered, Rcs, Reconnecting
  <2>7. CASE KeepAlive(t)
    BY <1>4, <2>7, PcsFacts DEF KeepAlive, Rcs, Reconnecting
  <2>8. CASE HandleDisconnect(t)
    BY <1>1, <2>8, PlainCalls, PcsFacts DEF HandleDisconnect, PlainMove, Reconnecting
  <2>9. CASE HandleDisconnectResult(t)
    BY <1>4, <2>9, PcsFacts DEF HandleDisconnectResult, Rcs, Reconnecting
  <2>10. CASE ForceClientDisconnect(t)
    BY <1>4, <2>10, PcsFacts DEF ForceClientDisconnect, Rcs, Reconnecting
  <2>11. CASE DisconnectHandlerReturn(t)
    BY <1>4, <2>11, PcsFacts DEF DisconnectHandlerReturn, Rcs, Reconnecting
  <2>12. CASE YieldLost(t)
    BY <1>4, <2>12, PcsFacts DEF YieldLost, Rcs, Reconnecting
  <2>13. CASE YieldAgain(t)
    BY <1>2, <1>4, <2>13, PcsFacts DEF YieldAgain, Rcs, Reconnecting
  <2>14. CASE YieldExit(t)
    BY <1>2, <2>14 DEF YieldExit, RestoreRc, PlainMove, Reconnecting, Rcs
  <2> QED
    BY <2>1, <2>2, <2>3, <2>4, <2>5, <2>6, <2>7, <2>8, <2>9, <2>10, <2>11, <2>12,
       <2>13, <2>14 DEF YieldStep
<1> QED
  BY <1>1, <1>3, <1>5, MovePlain

\* and the calls of the application.
LEMMA AppCallPlain ==
    ASSUME TypeOK, ~autoReconnect, clientState # "PENDING_RECONNECT", PlainStacks,
           ReconnectLeftToYield, NEW t \in Threads, AppCall(t)
    PROVE  /\ clientState' # "PENDING_RECONNECT" /\ PlainStacks'
           /\ UNCHANGED autoReconnect
<1>1. /\ ~MayCall(t, "attempt_reconnect") /\ ~MayCall(t, "autoreconnect_set_status")
  BY DEF MayCall, ReconnectLeftToYield
<1>2. ASSUME NEW op \in Ops, op # "attempt_reconnect", NEW pc \in PcsOf(op),
             pc \notin Reconnecting, NEW saved \in { clientState, "CONNECTED_IDLE" },
             Push(t, Frame(op, pc, saved))
      PROVE  PlainStacks'
  <2>1. saved \in ClientStates /\ saved # "PENDING_RECONNECT"
    BY DEF TypeOK, ClientStates
  <2>2. Frame(op, pc, saved) \in Frames /\ PlainFrame(Frame(op, pc, saved))
    BY <1>2, <2>1, FrameFacts DEF PlainFrame, Reconnecting
  <2> QED
    BY <1>2, <2>2, PushPlain
<1>3. Ops = Requests \cup { "connect", "disconnect", "attempt_reconnect", "yield", "deliver" }
      /\ Requests = { "publish", "subscribe", "unsubscribe", "resubscribe" }
  BY DEF Ops, Requests
<1>4. UNCHANGED << clientState, autoReconnect >>
  BY <1>1 DEF AppCall, CallConnect, CallDisconnect, CallAttemptReconnect, CallPublish,
     CallSubscribe, CallUnsubscribe, CallResubscribe, CallYield, SetAutoReconnect
<1>5. PlainStacks'
  <2>1. CASE CallConnect(t)
    BY <1>2, <1>3, <2>1, PcsFacts DEF CallConnect, Reconnecting
  <2>2. CASE CallDisconnect(t)
    BY <1>2, <1>3, <2>2, PcsFacts DEF CallDisconnect, Reconnecting
  <2>3. CASE CallPublish(t)
    BY <1>2, <1>3, <2>3, PcsFacts DEF CallPublish, Reconnecting
  <2>4. CASE CallSubscribe(t)
    BY <1>2, <1>3, <2>4, PcsFacts DEF CallSubscribe, Reconnecting
  <2>5. CASE CallUnsubscribe(t)
    BY <1>2, <1>3, <2>5, PcsFacts DEF CallUnsubscribe, Reconnecting
  <2>6. CASE CallResubscribe(t)
    BY <1>2, <1>3, <2>6, PcsFacts DEF CallResubscribe, Reconnecting
  <2>7. CASE CallYield(t)
    BY <1>2, <1>3, <2>7, PcsFacts DEF CallYield, Reconnecting
  <2> QED
    BY <1>1, <2>1, <2>2, <2>3, <2>4, <2>5, <2>6, <2>7
       DEF AppCall, CallAttemptReconnect, SetAutoReconnect
<1> QED
  BY <1>4, <1>5

LEMMA StepPlain ==
    ASSUME TypeOK, StaysPlain, ReconnectLeftToYield, [Next]_vars
    PROVE  StaysPlain' /\ (~autoReconnect => clientState' # "PENDING_RECONNECT")
                       /\ UNCHANGED autoReconnect
<1>1. CASE UNCHANGED vars
  BY <1>1 DEF StaysPlain, PlainStacks, vars
<1>2. ASSUME NEW t \in Threads, ThreadStep(t)
      PROVE  UNCHANGED autoReconnect
  <2>1. ~MayCall(t, "autoreconnect_set_status")
    BY DEF MayCall, ReconnectLeftToYield
  <2>2. CASE AppCall(t)
    BY <2>1, <2>2 DEF AppCall, CallConnect, CallDisconnect, CallAttemptReconnect,
       CallPublish, CallSubscribe, CallUnsubscribe, CallResubscribe, CallYield,
       SetAutoReconnect
  <2>3. CASE ~AppCall(t)
    BY <1>2, <2>3 DEF ThreadStep, ConnectStep, DisconnectStep, RequestStep, AttemptStep,
       DeliverStep, YieldStep, ConnectStart, ConnectTls, ConnectAck, ConnectDone,
       ConnectFailed, DisconnectCheck, DisconnectStart, DisconnectSend, DisconnectDone,
       DisconnectUndo, RequestStart, UnsubscribeRollback, RequestSend, RequestWait,
       RequestRestore, AttemptConnect, AttemptAfterConnect, AttemptPending,
       AttemptResubscribe, AttemptAfterResubscribe, DeliverStart, DeliverReturn,
       YieldStart, YieldLoop, YieldReconnect, YieldReconnected, YieldRead,
       YieldDelivered, KeepAlive, HandleDisconnect, HandleDisconnectResult,
       ForceClientDisconnect, DisconnectHandlerReturn, YieldLost, YieldAgain, YieldExit
  <2> QED
    BY <2>2, <2>3
<1>3. ASSUME NEW t \in Threads, ThreadStep(t), ~autoReconnect
      PROVE  clientState' # "PENDING_RECONNECT" /\ PlainStacks'
  BY <1>3, AppCallPlain, CallStepsPlain, YieldStepPlain DEF StaysPlain, ThreadStep
<1>4. CASE Next
  <2>1. PICK t \in Threads : ThreadStep(t)
    BY <1>4 DEF Next
  <2>2. UNCHANGED autoReconnect
    BY <1>2, <2>1
  <2>3. ~autoReconnect => clientState' # "PENDING_RECONNECT" /\ PlainStacks'
    BY <1>3, <2>1
  <2> QED
    BY <2>2, <2>3 DEF StaysPlain
<1> QED
  BY <1>1, <1>4

-----------------------------------------------------------------------------
(* Closed is closed: the connection of such a client, used by one thread *)

\* Where yield goes on only while it owns the client state.
YieldOwns(pc, rc) ==
    \/ pc \in { "loop", "read", "keep_alive", "disconnect", "again" }
    \/ pc = "delivered" /\ rc = "SUCCESS"

TopClosed(f, state, closed) ==
    /\ closed => f.op # "connect"
    /\ YieldOwns(f.pc, f.rc) => state = Busy("yield")

\* After the application has closed the connection, every yield in progress is on
\* its way out or waits for the handler that closed it.
ClosedFits(s, state, closed) ==
    /\ \A i \in 1..(Len(s) - 1) : s[i].pc = "delivered" => s[i + 1].saved = Busy("yield")
    /\ closed => /\ state = "DISCONNECTED_MANUALLY"
                 /\ \A i \in 1..Len(s) :
                       s[i].op = "yield" => s[i].pc \in { "delivered", "exit" }
    /\ Len(s) > 0 => TopClosed(s[Len(s)], state, closed)

StaysClosed == \A t \in Threads : ClosedFits(stack[t], clientState, appDisconnected)

\* What is known of the innermost call.
LEMMA TopStaysClosed ==
    ASSUME TypeOK, StaysClosed, NEW t \in Threads, Depth(t) > 0
    PROVE  /\ appDisconnected => /\ clientState = "DISCONNECTED_MANUALLY"
                                 /\ Top(t).op # "connect"
                                 /\ Top(t).op = "yield" => Top(t).pc \in { "delivered", "exit" }
           /\ YieldOwns(Top(t).pc, Top(t).rc) => clientState = Busy("yield")
<1>1. Len(stack[t]) \in 1..Len(stack[t]) /\ Len(stack[t]) > 0
  BY DEF TypeOK, Depth
<1>2. ClosedFits(stack[t], clientState, appDisconnected)
  BY DEF StaysClosed
<1> QED
  BY <1>1, <1>2 DEF ClosedFits, TopClosed, Depth, Top

\* The innermost call goes on,
LEMMA GotoClosed ==
    ASSUME TypeOK, StaysClosed, OneThread, NEW t \in Threads, Depth(t) > 0,
           NEW pc \in PcsOf(Top(t).op), NEW rc \in Rcs, Goto(t, pc, rc),
           UNCHANGED appDisconnected,
           appDisconnected => /\ clientState' = clientState
                              /\ Top(t).op = "yield" => pc \in { "delivered", "exit" },
           YieldOwns(pc, rc) => clientState' = Busy("yield")
    PROVE  StaysClosed'
<1> DEFINE s == stack[t]
           n == Len(s)
           w == WithTop(s, pc, rc)
           new == clientState'
           closed == appDisconnected
<1>1. /\ s \in Seq(Frames) /\ ClosedFits(s, clientState, closed) /\ n \in Nat /\ n > 0
  BY DEF TypeOK, StaysClosed, Depth
<1>2. /\ Len(w) = n /\ \A i \in 1..(n - 1) : w[i] = s[i]
      /\ w[n].op = s[n].op /\ w[n].saved = s[n].saved /\ w[n].pc = pc /\ w[n].rc = rc
  BY <1>1, WithTopFacts DEF Depth, Top
<1>3. stack'[t] = w
  BY DEF Goto, TypeOK
<1>4. /\ closed => /\ new = clientState
                   /\ s[n].op = "yield" => pc \in { "delivered", "exit" }
      /\ YieldOwns(pc, rc) => new = Busy("yield")
  BY DEF Depth, Top
<1> HIDE DEF w, new, closed
<1>5. \A i \in 1..n : w[i].op = s[i].op /\ w[i].saved = s[i].saved
  BY <1>1, <1>2
<1>6. \A i \in 1..(n - 1) : w[i].pc = "delivered" => w[i + 1].saved = Busy("yield")
  <2> SUFFICES ASSUME NEW i \in 1..(n - 1), w[i].pc = "delivered"
               PROVE  w[i + 1].saved = Busy("yield")
    OBVIOUS
  <2>1. s[i].pc = "delivered" /\ i + 1 \in 1..n
    BY <1>1, <1>2
  <2> QED
    BY <1>1, <1>5, <2>1 DEF ClosedFits
<1>7. closed => /\ new = "DISCONNECTED_MANUALLY"
                /\ \A i \in 1..n : w[i].op = "yield" => w[i].pc \in { "delivered", "exit" }
  <2>1. ASSUME closed, NEW i \in 1..n, w[i].op = "yield"
        PROVE  w[i].pc \in { "delivered", "exit" }
    <3>1. CASE i = n
      BY <1>2, <1>4, <2>1, <3>1
    <3>2. CASE i < n
      BY <1>1, <1>2, <2>1, <3>2 DEF ClosedFits
    <3> QED
      BY <1>1, <3>1, <3>2
  <2> QED
    BY <1>1, <1>4, <2>1 DEF ClosedFits
<1>8. TopClosed(w[n], new, closed)
  BY <1>1, <1>2, <1>4 DEF TopClosed, ClosedFits
<1>9. ClosedFits(w, new, closed)
  BY <1>2, <1>6, <1>7, <1>8 DEF ClosedFits
<1> QED
  BY <1>3, <1>9 DEF StaysClosed, OneThread, new, closed

\* Under a call of the application, every yield waits for a handler.
LEMMA YieldsWait ==
    ASSUME TypeOK, LinkAgrees, PlainStacks, NEW t \in Threads, Depth(t) > 0, CalledByApp(t),
           NEW i \in 1..(Len(stack[t]) - 1), stack[t][i].op = "yield"
    PROVE  stack[t][i].pc = "delivered"
<1> DEFINE s == stack[t]
           n == Len(s)
<1>1. s \in Seq(Frames) /\ Nested(s) /\ n \in Nat /\ n > 0 /\ i \in 1..n /\ i + 1 \in 1..n
  BY DEF TypeOK, LinkAgrees, Agrees, Depth
<1>2. \A j \in 1..n : s[j] \in Frames /\ s[j].op \in Ops /\ s[j].pc \in PcsOf(s[j].op)
  BY <1>1, ElementOfSeq DEF Frames
<1>3. Caller(s[i], s[i + 1])
  BY <1>1 DEF Nested
<1>4. s[i].pc \in PcsOf("yield") /\ s[i].pc # "callback"
  BY <1>1, <1>2, PcsFacts
<1>5. << s[i].pc, s[i + 1].op >> \in CallSites
  BY <1>3, <1>4 DEF Caller
<1>6. s[i + 1].op # "attempt_reconnect"
  BY <1>1 DEF PlainStacks, PlainFrame
<1>7. s[i + 1].op # "disconnect"
  <2> SUFFICES ASSUME s[i + 1].op = "disconnect" PROVE FALSE
    OBVIOUS
  <2>1. CASE i + 1 = n
    <3>1. s[i].pc \in { "callback", "handler" }
      BY <1>1, <2>1 DEF CalledByApp, Depth
    <3> QED
      BY <1>5, <3>1 DEF CallSites
  <2>2. CASE i + 1 < n
    <3>1. Caller(s[i + 1], s[i + 2]) /\ s[i + 1].pc \in PcsOf("disconnect")
      BY <1>1, <1>2, <2>2 DEF Nested
    <3> QED
      BY <3>1, PcsFacts DEF Caller, CallSites
  <2> QED
    BY <1>1, <2>1, <2>2
<1> QED
  BY <1>4, <1>5, <1>6, <1>7, PcsFacts DEF CallSites

\* returns,
LEMMA ReturnClosed ==
    ASSUME TypeOK, LinkAgrees, PlainStacks, StaysClosed, OneThread,
           NEW t \in Threads, Depth(t) > 0, NEW rc \in Rcs, Return(t, rc),
           \/ UNCHANGED appDisconnected
           \/ CalledByApp(t) /\ clientState' = "DISCONNECTED_MANUALLY",
           appDisconnected => clientState' = clientState,
           Top(t).op = "deliver" /\ rc = "SUCCESS" => clientState' = Top(t).saved
    PROVE  StaysClosed'
<1> DEFINE s == stack[t]
           n == Len(s) - 1
           r == Returned(s, rc)
           new == clientState'
           closed == appDisconnected'
<1>1. /\ s \in Seq(Frames) /\ ClosedFits(s, clientState, appDisconnected)
      /\ Len(s) > 0 /\ Nested(s)
  BY DEF TypeOK, StaysClosed, LinkAgrees, Agrees, Depth
<1>2. /\ n \in Nat /\ Len(r) = n /\ Len(s) = n + 1 /\ r \in Seq(Frames)
      /\ \A i \in 1..n : /\ r[i].op = s[i].op /\ r[i].pc = s[i].pc
                         /\ r[i].saved = s[i].saved
  BY <1>1, ReturnedFacts
<1>3. stack'[t] = r
  BY DEF Return, TypeOK
<1>4. closed => /\ new = "DISCONNECTED_MANUALLY"
                /\ \A i \in 1..n : s[i].op = "yield" => s[i].pc \in { "delivered", "exit" }
  <2>1. CASE UNCHANGED appDisconnected
    BY <1>1, <1>2, <2>1 DEF ClosedFits
  <2>2. CASE CalledByApp(t) /\ clientState' = "DISCONNECTED_MANUALLY"
    BY <1>2, <2>2, YieldsWait
  <2> QED
    BY <2>1, <2>2
<1>5. s[n + 1].op = "deliver" /\ rc = "SUCCESS" => new = s[n + 1].saved
  BY <1>2 DEF Depth, Top
<1> HIDE DEF r, n, new, closed
<1>6. \A i \in 1..(n - 1) : r[i].pc = "delivered" => r[i + 1].saved = Busy("yield")
  <2> SUFFICES ASSUME NEW i \in 1..(n - 1), r[i].pc = "delivered"
               PROVE  r[i + 1].saved = Busy("yield")
    OBVIOUS
  <2>1. s[i].pc = "delivered" /\ i + 1 \in 1..n /\ i \in 1..(Len(s) - 1)
    BY <1>2
  <2> QED
    BY <1>1, <1>2, <2>1 DEF ClosedFits
<1>7. n > 0 => TopClosed(r[n], new, closed)
  <2> SUFFICES ASSUME n > 0 PROVE TopClosed(r[n], new, closed)
    OBVIOUS
  <2>1. n \in 1..n /\ n \in 1..(Len(s) - 1)
    BY <1>2
  <2>2. Caller(s[n], s[n + 1]) /\ r[n].pc = s[n].pc
    BY <1>1, <1>2, <2>1 DEF Nested
  <2>3. r[n].pc \in PcsOf(r[n].op) /\ r[n].op \in Ops
    BY <1>2, <2>1, ElementOfSeq DEF Frames
  <2>4. /\ r[n].pc \in { "callback", "wait", "delivered", "after_connect",
                         "after_resubscribe", "reconnected", "after_disconnect" }
        /\ r[n].pc = "delivered" => s[n + 1].op = "deliver"
    BY <2>2 DEF Caller, CallSites
  <2>5. r[n].op # "connect"
    BY <2>3, <2>4, PcsFacts
  <2>6. r[n].pc = "delivered" => r[n].rc = rc /\ s[n + 1].saved = Busy("yield")
    BY <1>1, <1>2, <2>1, <2>2, ReturnedResult DEF r, ClosedFits
  <2>7. YieldOwns(r[n].pc, r[n].rc) => new = Busy("yield")
    BY <1>5, <2>4, <2>6 DEF YieldOwns
  <2> QED
    BY <2>5, <2>7 DEF TopClosed
<1>8. closed => /\ new = "DISCONNECTED_MANUALLY"
                /\ \A i \in 1..n : r[i].op = "yield" => r[i].pc \in { "delivered", "exit" }
  BY <1>2, <1>4
<1>9. ClosedFits(r, new, closed)
  BY <1>2, <1>6, <1>7, <1>8 DEF ClosedFits
<1> QED
  BY <1>3, <1>9 DEF StaysClosed, OneThread, new, closed

\* and a new call is added to a stack.
LEMMA AppendClosed ==
    ASSUME NEW s \in Seq(Frames), NEW state, NEW was, NEW closed, ClosedFits(s, state, was),
           NEW f \in Frames, closed => was /\ f.op \notin { "connect", "yield" },
           Len(s) > 0 /\ s[Len(s)].pc = "delivered" => f.saved = Busy("yield"),
           ~YieldOwns(f.pc, f.rc)
    PROVE  ClosedFits(Append(s, f), state, closed)
<1> DEFINE n == Len(s)
           a == Append(s, f)
<1>1. /\ n \in Nat /\ Len(a) = n + 1 /\ a[n + 1] = f
      /\ \A i \in 1..n : a[i] = s[i]
  BY AppendFacts
<1> HIDE DEF a
<1>2. \A i \in 1..(n + 1) : i \in 1..n \/ i = n + 1
  BY <1>1
<1>3. \A i \in 1..n : a[i].pc = "delivered" => a[i + 1].saved = Busy("yield")
  <2> SUFFICES ASSUME NEW i \in 1..n, a[i].pc = "delivered"
               PROVE  a[i + 1].saved = Busy("yield")
    OBVIOUS
  <2>1. CASE i = n
    BY <1>1, <2>1
  <2>2. CASE i < n
    <3>1. i \in 1..(n - 1) /\ i + 1 \in 1..n /\ s[i].pc = "delivered"
      BY <1>1, <2>2
    <3> QED
      BY <1>1, <3>1 DEF ClosedFits
  <2> QED
    BY <1>1, <2>1, <2>2
<1>4. closed => /\ state = "DISCONNECTED_MANUALLY"
                /\ \A i \in 1..(n + 1) :
                      a[i].op = "yield" => a[i].pc \in { "delivered", "exit" }
  BY <1>1, <1>2 DEF ClosedFits
<1>5. TopClosed(a[n + 1], state, closed)
  BY <1>1 DEF TopClosed
<1>6. Len(a) - 1 = n
  BY <1>1
<1> QED
  BY <1>1, <1>3, <1>4, <1>5, <1>6 DEF ClosedFits, a

LEMMA PushClosed ==
    ASSUME TypeOK, StaysClosed, OneThread, NEW t \in Threads, NEW f \in Frames, Push(t, f),
           UNCHANGED clientState, Depth(t) > 0 => Top(t).pc = "callback",
           appDisconnected' => appDisconnected /\ f.op \notin { "connect", "yield" },
           ~YieldOwns(f.pc, f.rc)
    PROVE  StaysClosed'
<1> DEFINE s == stack[t]
           closed == appDisconnected'
<1>1. s \in Seq(Frames) /\ ClosedFits(s, clientState, appDisconnected)
  BY DEF TypeOK, StaysClosed
<1>2. closed => appDisconnected /\ f.op \notin { "connect", "yield" }
  OBVIOUS
<1>3. stack'[t] = Append(s, f) /\ clientState' = clientState
  BY DEF Push, TypeOK
<1> HIDE DEF closed
<1>4. ClosedFits(Append(s, f), clientState, closed)
  BY <1>1, <1>2, AppendClosed DEF Depth, Top
<1> QED
  BY <1>3, <1>4 DEF StaysClosed, OneThread, closed

LEMMA InvokeClosed ==
    ASSUME TypeOK, StaysClosed, OneThread, NEW t \in Threads, Depth(t) > 0,
           NEW pc \in PcsOf(Top(t).op), NEW f \in Frames, Invoke(t, pc, f),
           UNCHANGED << clientState, appDisconnected >>,
           appDisconnected => Top(t).op # "yield" /\ f.op \notin { "connect", "yield" },
           pc = "delivered" => f.saved = Busy("yield") /\ clientState = Busy("yield"),
           pc \notin { "loop", "read", "keep_alive", "disconnect", "again" },
           ~YieldOwns(f.pc, f.rc)
    PROVE  StaysClosed'
<1> DEFINE s == stack[t]
           n == Len(s)
           w == WithTop(s, pc, "SUCCESS")
<1>1. /\ s \in Seq(Frames) /\ ClosedFits(s, clientState, appDisconnected)
      /\ n \in Nat /\ n > 0 /\ "SUCCESS" \in Rcs
  BY DEF TypeOK, StaysClosed, Depth, Rcs
<1>2. /\ w \in Seq(Frames) /\ Len(w) = n /\ \A i \in 1..(n - 1) : w[i] = s[i]
      /\ w[n].op = s[n].op /\ w[n].saved = s[n].saved
      /\ w[n].pc = pc /\ w[n].rc = "SUCCESS"
  BY <1>1, WithTopFacts DEF Depth, Top
<1>3. stack'[t] = Append(w, f) /\ clientState' = clientState /\ appDisconnected' = appDisconnected
  BY DEF Invoke, TypeOK
<1>4. appDisconnected => s[n].op # "yield"
  BY DEF Depth, Top
<1> HIDE DEF w
<1>5. \A i \in 1..n : w[i].op = s[i].op /\ w[i].saved = s[i].saved
  BY <1>1, <1>2
<1>6. \A i \in 1..(n - 1) : w[i].pc = "delivered" => w[i + 1].saved = Busy("yield")
  <2> SUFFICES ASSUME NEW i \in 1..(n - 1), w[i].pc = "delivered"
               PROVE  w[i + 1].saved = Busy("yield")
    OBVIOUS
  <2>1. s[i].pc = "delivered" /\ i + 1 \in 1..n
    BY <1>1, <1>2
  <2> QED
    BY <1>1, <1>5, <2>1 DEF ClosedFits
<1>7. appDisconnected => /\ clientState = "DISCONNECTED_MANUALLY"
                         /\ \A i \in 1..n :
                               w[i].op = "yield" => w[i].pc \in { "delivered", "exit" }
  <2>1. ASSUME appDisconnected, NEW i \in 1..n, w[i].op = "yield"
        PROVE  w[i].pc \in { "delivered", "exit" }
    <3>1. i < n /\ s[i].op = "yield"
      BY <1>1, <1>4, <1>5, <2>1
    <3> QED
      BY <1>1, <1>2, <2>1, <3>1 DEF ClosedFits
  <2> QED
    BY <1>1, <2>1 DEF ClosedFits
<1>8. TopClosed(w[n], clientState, appDisconnected)
  BY <1>1, <1>2 DEF TopClosed, ClosedFits, YieldOwns
<1>9. ClosedFits(w, clientState, appDisconnected)
  BY <1>2, <1>6, <1>7, <1>8 DEF ClosedFits
<1>10. ClosedFits(Append(w, f), clientState, appDisconnected)
  BY <1>2, <1>9, AppendClosed
<1> QED
  BY <1>3, <1>10 DEF StaysClosed, OneThread

\* The steps of all calls but yield's,
LEMMA CallStepsClosed ==
    ASSUME TypeOK, StackDiscipline, LinkAgrees, PlainStacks, StaysClosed, OneThread,
           NEW t \in Threads,
           ConnectStep(t) \/ DisconnectStep(t) \/ RequestStep(t) \/ AttemptStep(t)
              \/ DeliverStep(t)
    PROVE  StaysClosed'
<1>0. ASSUME Depth(t) > 0
      PROVE  /\ appDisconnected => clientState = "DISCONNECTED_MANUALLY" /\ Top(t).op # "connect"
             /\ "DISCONNECTED_MANUALLY" \notin ConnectedStates
  BY <1>0, TopStaysClosed DEF ConnectedStates
<1>1. CASE ConnectStep(t)
  <2>1. Depth(t) > 0 /\ Top(t).op = "connect"
    BY <1>1 DEF ConnectStep, At, ConnectStart, ConnectTls, ConnectAck, ConnectDone,
       ConnectFailed
  <2>2. UNCHANGED appDisconnected /\ ~appDisconnected
    BY <1>0, <1>1, <2>1 DEF ConnectStep, ConnectStart, ConnectTls, ConnectAck,
       ConnectDone,
       ConnectFailed
  <2>3. \/ \E pc \in PcsOf("connect"), rc \in Rcs : Goto(t, pc, rc)
        \/ \E rc \in Rcs : Return(t, rc)
    BY <1>1, PcsFacts DEF ConnectStep, ConnectStart, ConnectTls, ConnectAck,
       ConnectDone,
       ConnectFailed, Rcs
  <2>4. \A pc \in PcsOf("connect"), rc \in Rcs : ~YieldOwns(pc, rc)
    BY PcsFacts DEF YieldOwns
  <2> QED
    BY <2>1, <2>2, <2>3, <2>4, GotoClosed, ReturnClosed
<1>2. CASE DisconnectStep(t)
  <2>1. Depth(t) > 0 /\ Top(t).op = "disconnect"
    BY <1>2 DEF DisconnectStep, At, DisconnectCheck, DisconnectStart, DisconnectSend,
       DisconnectDone, DisconnectUndo
  <2>2. /\ Top(t).pc \in { "check", "cas" } => clientState = Top(t).saved
        /\ Top(t).pc # "check" => Top(t).saved \in ConnectedStates
        /\ Top(t).pc \notin { "check", "cas" } => clientState = "DISCONNECTING"
    BY <2>1, TopSound, OwnedFacts, TopAgrees DEF SavedFits, TopFits
  <2>3. appDisconnected => Top(t).pc = "check"
    BY <1>0, <2>1, <2>2
  <2>4. \A pc \in PcsOf("disconnect"), rc \in Rcs : ~YieldOwns(pc, rc)
    BY PcsFacts DEF YieldOwns
  <2>5. ASSUME NEW pc \in PcsOf("disconnect"), NEW rc \in Rcs, Goto(t, pc, rc),
               UNCHANGED appDisconnected, appDisconnected => clientState' = clientState
        PROVE  StaysClosed'
    BY <2>1, <2>4, <2>5, GotoClosed
  <2>6. CASE DisconnectCheck(t)
    BY <2>1, <2>5, <2>6, ReturnClosed, PcsFacts DEF DisconnectCheck, Rcs
  <2>7. CASE DisconnectStart(t)
    BY <2>1, <2>3, <2>5, <2>7, ReturnClosed, PcsFacts DEF DisconnectStart, At, Rcs
  <2>8. CASE DisconnectSend(t)
    BY <2>5, <2>8, PcsFacts DEF DisconnectSend, Rcs
  <2>9. CASE DisconnectDone(t)
    <3>1. ~appDisconnected /\ appDisconnected \in BOOLEAN
      BY <2>3, <2>9 DEF DisconnectDone, At, TypeOK
    <3>2. \/ UNCHANGED appDisconnected
          \/ CalledByApp(t) /\ clientState' = "DISCONNECTED_MANUALLY"
      <4>1. CASE CalledByApp(t)
        BY <2>9, <4>1 DEF DisconnectDone
      <4>2. CASE ~CalledByApp(t)
        BY <2>9, <3>1, <4>2, Zenon DEF DisconnectDone
      <4> QED
        BY <4>1, <4>2
    <3> QED
      BY <2>1, <2>9, <3>1, <3>2, ReturnClosed DEF DisconnectDone, Rcs
  <2>10. CASE DisconnectUndo(t)
    BY <2>1, <2>3, <2>10, ReturnClosed DEF DisconnectUndo, At, Rcs
  <2> QED
    BY <1>2, <2>6, <2>7, <2>8, <2>9, <2>10 DEF DisconnectStep
<1>3. CASE RequestStep(t)
  <2>1. Depth(t) > 0 /\ Top(t).op \in Requests
    BY <1>3 DEF RequestStep, At, RequestStart, UnsubscribeRollback, RequestSend,
       RequestWait, RequestRestore, Requests
  <2>2. /\ Top(t).saved \in ConnectedStates /\ Busy(Top(t).op) \in ConnectedStates
        /\ Top(t).rc \in Rcs /\ Top(t).op \notin { "yield", "deliver", "connect" }
        /\ PcsOf(Top(t).op) = { "cas", "rollback", "send", "wait", "restore" }
    BY <2>1, TopType, TopAgrees, StateFacts, PcsFacts DEF SavedFits, Requests
  <2>3. UNCHANGED appDisconnected /\ (appDisconnected => clientState' = clientState)
    <3>1. \/ clientState' = clientState
          \/ clientState \in { Busy(Top(t).op), Top(t).saved }
      BY <1>3 DEF RequestStep, RequestStart, UnsubscribeRollback, RequestSend,
         RequestWait, RequestRestore, SetClientState, At
    <3>2. UNCHANGED appDisconnected
      BY <1>3 DEF RequestStep, RequestStart, UnsubscribeRollback, RequestSend,
         RequestWait, RequestRestore
    <3> QED
      BY <1>0, <2>1, <2>2, <3>1, <3>2
  <2>4. ASSUME \/ \E pc \in { "rollback", "send", "wait", "restore" }, rc \in Rcs : Goto(t, pc, rc)
               \/ \E rc \in Rcs : Return(t, rc)
        PROVE  StaysClosed'
    BY <2>1, <2>2, <2>3, <2>4, GotoClosed, ReturnClosed DEF YieldOwns
  <2>5. CASE RequestStart(t)
    BY <2>4, <2>5 DEF RequestStart, Rcs
  <2>6. CASE UnsubscribeRollback(t)
    BY <2>4, <2>6 DEF UnsubscribeRollback, RestoreRc, Rcs
  <2>7. CASE RequestSend(t)
    BY <2>4, <2>7 DEF RequestSend, Rcs
  <2>8. CASE RequestWait(t)
    <3> DEFINE f == Frame("deliver", "cas", clientState)
    <3>1. CASE \E pc \in { "send", "restore" }, rc \in { "SUCCESS", "ERROR" } : Goto(t, pc, rc)
      BY <2>4, <3>1 DEF Rcs
    <3>2. CASE Invoke(t, "wait", f)
      <4>1. f \in Frames /\ f.op = "deliver" /\ f.pc = "cas"
        BY FrameFacts, PcsFacts DEF Ops, Requests, ClientStates, TypeOK
      <4>2. UNCHANGED << clientState, appDisconnected >>
        BY <2>8 DEF RequestWait
      <4> HIDE DEF f
      <4> QED
        BY <2>1, <2>2, <3>2, <4>1, <4>2, InvokeClosed DEF YieldOwns
    <3> QED
      BY <2>8, <3>1, <3>2 DEF RequestWait
  <2>9. CASE RequestRestore(t)
    BY <2>2, <2>4, <2>9 DEF RequestRestore, RestoreRc, Rcs
  <2> QED
    BY <1>3, <2>5, <2>6, <2>7, <2>8, <2>9 DEF RequestStep
<1>4. CASE AttemptStep(t)
  <2>1. Depth(t) > 0 /\ Top(t).op = "attempt_reconnect"
    BY <1>4 DEF AttemptStep, At, AttemptConnect, AttemptAfterConnect, AttemptPending,
       AttemptResubscribe, AttemptAfterResubscribe
  <2>2. PlainFrame(Top(t))
    BY <2>1 DEF PlainStacks, Depth, Top, TypeOK
  <2> QED
    BY <2>1, <2>2 DEF PlainFrame
<1>5. CASE DeliverStep(t)
  <2>1. Depth(t) > 0 /\ Top(t).op = "deliver"
    BY <1>5 DEF DeliverStep, At, DeliverStart, DeliverReturn
  <2>2. /\ Top(t).saved \in ConnectedStates /\ Busy("deliver") \in ConnectedStates
        /\ Top(t).pc = "cas" => clientState = Top(t).saved
    BY <2>1, TopSound, OwnedFacts, TopAgrees, StateFacts DEF SavedFits
  <2>3. CASE DeliverStart(t)
    <3>1. ~appDisconnected /\ UNCHANGED appDisconnected /\ Goto(t, "callback", "SUCCESS")
      BY <1>0, <2>1, <2>2, <2>3 DEF DeliverStart, At
    <3> QED
      BY <2>1, <3>1, GotoClosed, PcsFacts DEF Rcs, YieldOwns
  <2>4. CASE DeliverReturn(t)
    <3> DEFINE rc == RestoreRc("SUCCESS", Busy("deliver"))
    <3>1. /\ rc \in Rcs /\ Return(t, rc) /\ UNCHANGED appDisconnected
          /\ rc = "SUCCESS" => clientState' = Top(t).saved
          /\ appDisconnected => clientState' = clientState
      BY <1>0, <2>1, <2>2, <2>4 DEF DeliverReturn, RestoreRc, Rcs, SetClientState
    <3> HIDE DEF rc
    <3> QED
      BY <2>1, <3>1, ReturnClosed
  <2> QED
    BY <1>5, <2>3, <2>4 DEF DeliverStep
<1> QED
  BY <1>1, <1>2, <1>3, <1>4, <1>5

\* of yield,
LEMMA YieldStepClosed ==
    ASSUME TypeOK, StackDiscipline, LinkAgrees, PlainStacks, StaysClosed, OneThread,
           ~autoReconnect, clientState # "PENDING_RECONNECT", NEW t \in Threads, YieldStep(t)
    PROVE  StaysClosed'
<1>0. /\ Depth(t) > 0 /\ Top(t).op = "yield" /\ Top(t).rc \in Rcs
      /\ UNCHANGED appDisconnected
      /\ appDisconnected => Top(t).pc \in { "delivered", "exit" }
                            /\ clientState = "DISCONNECTED_MANUALLY"
      /\ YieldOwns(Top(t).pc, Top(t).rc) => clientState = Busy("yield")
      /\ Busy("yield") # "DISCONNECTED_MANUALLY"
      /\ Top(t).pc \notin { "reconnect", "reconnected" }
  <2>1. Depth(t) > 0 /\ Top(t).op = "yield"
    BY DEF YieldStep, At, YieldStart, YieldLoop, YieldReconnect, YieldReconnected,
       YieldRead, YieldDelivered, KeepAlive, HandleDisconnect, HandleDisconnectResult,
       ForceClientDisconnect, DisconnectHandlerReturn, YieldLost, YieldAgain, YieldExit
  <2>2. UNCHANGED appDisconnected
    BY DEF YieldStep, YieldStart, YieldLoop, YieldReconnect, YieldReconnected,
       YieldRead, YieldDelivered, KeepAlive, HandleDisconnect, HandleDisconnectResult,
       ForceClientDisconnect, DisconnectHandlerReturn, YieldLost, YieldAgain, YieldExit
  <2>3. PlainFrame(Top(t))
    BY <2>1 DEF PlainStacks, Depth, Top, TypeOK
  <2> QED
    BY <2>1, <2>2, <2>3, TopType, TopStaysClosed DEF Busy, PlainFrame, Reconnecting
\* yield goes on in its loop with the state it owns,
<1>1. ASSUME NEW pc \in { "loop", "read", "keep_alive", "disconnect", "again" },
             NEW rc \in Rcs, Goto(t, pc, rc), clientState' = Busy("yield"),
             Top(t).pc \notin { "exit" },
             appDisconnected => Top(t).pc # "delivered"
      PROVE  StaysClosed'
  <2>1. ~appDisconnected /\ pc \in PcsOf("yield")
    BY <1>0, <1>1, PcsFacts
  <2> QED
    BY <1>0, <1>1, <2>1, GotoClosed
\* leaves it, or gives up the connection,
<1>2. ASSUME NEW pc \in { "exit", "force", "handler", "lost" }, NEW rc \in Rcs, Goto(t, pc, rc),
             appDisconnected => pc = "exit" /\ UNCHANGED clientState
      PROVE  StaysClosed'
  <2>1. pc \in PcsOf("yield") /\ ~YieldOwns(pc, rc)
    BY PcsFacts DEF YieldOwns
  <2> QED
    BY <1>0, <1>2, <2>1, GotoClosed
\* or returns.
<1>3. ASSUME NEW rc \in Rcs, Return(t, rc), appDisconnected => UNCHANGED clientState
      PROVE  StaysClosed'
  BY <1>0, <1>3, ReturnClosed
<1>4. CASE YieldStart(t)
  BY <1>0, <1>1, <1>3, <1>4 DEF YieldStart, At, SetClientState, Rcs
<1>5. CASE YieldLoop(t)
  BY <1>0, <1>1, <1>5 DEF YieldLoop, At, YieldOwns, Rcs
<1>6. CASE YieldReconnect(t) \/ YieldReconnected(t)
  BY <1>0, <1>6 DEF YieldReconnect, YieldReconnected, At
<1>7. CASE YieldRead(t)
  <2>1. /\ clientState = Busy("yield") /\ Top(t).pc = "read" /\ ~appDisconnected
        /\ UNCHANGED clientState
    BY <1>0, <1>7 DEF YieldRead, At, YieldOwns
  <2>2. CASE \E pc \in { "keep_alive", "disconnect" } : Goto(t, pc, "SUCCESS")
    BY <1>1, <2>1, <2>2 DEF Rcs
  <2>3. CASE Goto(t, "exit", "ERROR")
    BY <1>2, <2>1, <2>3 DEF Rcs
  <2>4. CASE Invoke(t, "delivered", Frame("deliver", "cas", clientState))
    <3> DEFINE f == Frame("deliver", "cas", clientState)
    <3>1. f \in Frames /\ f.op = "deliver" /\ f.pc = "cas" /\ f.saved = clientState
      BY FrameFacts, PcsFacts DEF Ops, Requests, ClientStates, TypeOK
    <3>2. "delivered" \in PcsOf(Top(t).op)
      BY <1>0, PcsFacts
    <3> HIDE DEF f
    <3> QED
      BY <1>0, <2>1, <2>4, <3>1, <3>2, InvokeClosed DEF YieldOwns, f
  <2> QED
    BY <1>7, <2>2, <2>3, <2>4 DEF YieldRead
<1>8. CASE YieldDelivered(t)
  BY <1>0, <1>1, <1>2, <1>8 DEF YieldDelivered, At, YieldOwns, Rcs
<1>9. CASE KeepAlive(t)
  BY <1>0, <1>1, <1>9 DEF KeepAlive, At, YieldOwns, Rcs
<1>10. CASE HandleDisconnect(t)
  <2> DEFINE f == Frame("disconnect", "check", clientState)
  <2>1. f \in Frames /\ f.op = "disconnect" /\ f.pc = "check"
    BY FrameFacts, PcsFacts DEF Ops, Requests, ClientStates, TypeOK
  <2>2. /\ "after_disconnect" \in PcsOf(Top(t).op) /\ ~appDisconnected
        /\ Invoke(t, "after_disconnect", f) /\ UNCHANGED clientState
    BY <1>0, <1>10, PcsFacts DEF HandleDisconnect, At
  <2> HIDE DEF f
  <2> QED
    BY <1>0, <2>1, <2>2, InvokeClosed DEF YieldOwns
<1>11. CASE HandleDisconnectResult(t)
  BY <1>0, <1>2, <1>11 DEF HandleDisconnectResult, At, Rcs
<1>12. CASE ForceClientDisconnect(t)
  BY <1>0, <1>2, <1>12 DEF ForceClientDisconnect, At, Rcs
<1>13. CASE DisconnectHandlerReturn(t)
  BY <1>0, <1>2, <1>13 DEF DisconnectHandlerReturn, At, Rcs
<1>14. CASE YieldLost(t)
  BY <1>0, <1>2, <1>14 DEF YieldLost, At, Rcs
<1>15. CASE YieldAgain(t)
  BY <1>0, <1>1, <1>2, <1>15 DEF YieldAgain, At, YieldOwns, Rcs
<1>16. CASE YieldExit(t)
  BY <1>0, <1>3, <1>16 DEF YieldExit, SetClientState, RestoreRc, Rcs
<1> QED
  BY <1>4, <1>5, <1>6, <1>7, <1>8, <1>9, <1>10, <1>11, <1>12, <1>13, <1>14, <1>15,
     <1>16 DEF YieldStep

\* and the calls of the application, of which only connect reopens.
LEMMA AppCallClosed ==
    ASSUME TypeOK, StaysClosed, OneThread, HandlerSilent, ReconnectLeftToYield,
           clientState # "PENDING_RECONNECT", NEW t \in Threads, AppCall(t)
    PROVE  StaysClosed'
<1>1. /\ ~MayCall(t, "attempt_reconnect") /\ ~MayCall(t, "autoreconnect_set_status")
  BY DEF MayCall, ReconnectLeftToYield
<1>2. \A op : MayCall(t, op) /\ Depth(t) > 0 => Top(t).pc = "callback"
  BY DEF MayCall, HandlerSilent, TypeOK, Depth
<1>3. ASSUME NEW op \in Ops, NEW pc \in PcsOf(op) \cap { "cas", "check" },
             NEW saved \in ClientStates, MayCall(t, op), Push(t, Frame(op, pc, saved)),
             UNCHANGED clientState,
             appDisconnected' => appDisconnected /\ op \notin { "connect", "yield" }
      PROVE  StaysClosed'
  <2> DEFINE f == Frame(op, pc, saved)
  <2>1. f \in Frames /\ f.op = op /\ f.pc = pc
    BY FrameFacts
  <2> HIDE DEF f
  <2>2. ~YieldOwns(f.pc, f.rc)
    BY <2>1 DEF YieldOwns
  <2> QED
    BY <1>2, <1>3, <2>1, <2>2, PushClosed DEF f
<1>4. /\ clientState \in ClientStates /\ "CONNECTED_IDLE" \in ClientStates
      /\ Ops = Requests \cup { "connect", "disconnect", "attempt_reconnect", "yield", "deliver" }
      /\ Requests = { "publish", "subscribe", "unsubscribe", "resubscribe" }
  BY DEF TypeOK, ClientStates, Ops, Requests
<1>5. CASE CallConnect(t)
  BY <1>3, <1>4, <1>5, PcsFacts DEF CallConnect
<1>6. CASE CallDisconnect(t)
  BY <1>3, <1>4, <1>6, PcsFacts DEF CallDisconnect
<1>7. CASE CallPublish(t)
  BY <1>3, <1>4, <1>7, PcsFacts DEF CallPublish
<1>8. CASE CallSubscribe(t)
  BY <1>3, <1>4, <1>8, PcsFacts DEF CallSubscribe
<1>9. CASE CallUnsubscribe(t)
  BY <1>3, <1>4, <1>9, PcsFacts DEF CallUnsubscribe
<1>10. CASE CallResubscribe(t)
  BY <1>3, <1>4, <1>10, PcsFacts DEF CallResubscribe
<1>11. CASE CallYield(t)
  <2>1. clientState = "CONNECTED_IDLE" /\ Push(t, Frame("yield", "cas", "CONNECTED_IDLE"))
    BY <1>11 DEF CallYield
  <2>2. ~appDisconnected /\ UNCHANGED << clientState, appDisconnected >>
    BY <1>11, <2>1 DEF CallYield, StaysClosed, ClosedFits
  <2> QED
    BY <1>3, <1>4, <1>11, <2>1, <2>2, PcsFacts DEF CallYield
<1> QED
  BY <1>1, <1>5, <1>6, <1>7, <1>8, <1>9, <1>10, <1>11
     DEF AppCall, CallAttemptReconnect, SetAutoReconnect

LEMMA StepClosed ==
    ASSUME TypeOK, StackDiscipline, LinkAgrees, StaysPlain, ~autoReconnect, StaysClosed,
           OneThread, HandlerSilent, ReconnectLeftToYield, [Next]_vars
    PROVE  StaysClosed'
<1>1. CASE UNCHANGED vars
  BY <1>1 DEF StaysClosed, vars
<1>2. ASSUME NEW t \in Threads, ThreadStep(t)
      PROVE  StaysClosed'
  <2>1. clientState # "PENDING_RECONNECT" /\ PlainStacks
    BY DEF StaysPlain
  <2> QED
    BY <1>2, <2>1, AppCallClosed, CallStepsClosed, YieldStepClosed DEF ThreadStep
<1> QED
  BY <1>1, <1>2 DEF Next

\* The steps of the connection's life under the application's control.
LEMMA LifeRefinesManual ==
    ASSUME LifeStep, tls \in BOOLEAN, appDisconnected \in BOOLEAN,
           appDisconnected => clientState = "DISCONNECTED_MANUALLY",
           appDisconnected' => clientState' = "DISCONNECTED_MANUALLY"
    PROVE  [ManualContract!Next]_ManualContract!connectionVars
<1> DEFINE p == PhaseOf(clientState)
           q == PhaseOf(clientState')
<1> USE PhaseFacts
<1>1. CASE StaySame /\ UNCHANGED appDisconnected
  BY <1>1 DEF StaySame, ManualContract!connectionVars
<1>2. CASE OpenStep /\ UNCHANGED appDisconnected
  <2>1. p \in ManualContract!Down /\ q = "opening" /\ tls' = tls /\ ~tls /\ ~appDisconnected
    BY <1>2 DEF OpenStep, ValidForConnect, ManualContract!Down
  <2> QED
    BY <1>2, <2>1 DEF ManualContract!Open, ManualContract!Next
<1>3. CASE HandshakeStep /\ UNCHANGED appDisconnected
  <2>1. p = "opening" /\ q = p /\ tls' \in BOOLEAN
    BY <1>3 DEF HandshakeStep
  <2> QED
    BY <1>3, <2>1 DEF ManualContract!Handshake, ManualContract!Next
<1>4. CASE OpenedStep /\ UNCHANGED appDisconnected
  <2>1. p = "opening" /\ q = "open" /\ tls' = TRUE
    BY <1>4, StateFacts DEF OpenedStep
  <2> QED
    BY <1>4, <2>1 DEF ManualContract!Opened, ManualContract!Next
<1>5. CASE OpenFailedStep /\ UNCHANGED appDisconnected
  <2>1. p = "opening" /\ q = "lost" /\ tls' = FALSE
    BY <1>5 DEF OpenFailedStep
  <2> QED
    BY <1>5, <2>1 DEF ManualContract!OpenFailed, ManualContract!Next
<1>6. CASE CloseStep /\ UNCHANGED appDisconnected
  <2>1. p = "open" /\ q = "closing" /\ tls' = tls
    BY <1>6 DEF CloseStep
  <2> QED
    BY <1>6, <2>1 DEF ManualContract!Close, ManualContract!Next
<1>7. CASE ReleaseStep /\ UNCHANGED appDisconnected
  <2>1. p \in { "closing", "lost" } /\ q = p /\ tls' = FALSE
    BY <1>7 DEF ReleaseStep
  <2> QED
    BY <1>7, <2>1 DEF ManualContract!Release, ManualContract!Next
<1>8. CASE ClosedStep /\ appDisconnected' \in { appDisconnected, TRUE }
  <2>1. p = "closing" /\ q = "closed" /\ tls' = tls /\ ~tls
    BY <1>8 DEF ClosedStep
  <2> QED
    BY <1>8, <2>1 DEF ManualContract!Closed, ManualContract!Next
<1>9. CASE CloseFailedStep /\ UNCHANGED appDisconnected
  <2>1. p = "closing" /\ q = "open" /\ tls' = tls /\ tls
    BY <1>9 DEF CloseFailedStep
  <2> QED
    BY <1>9, <2>1 DEF ManualContract!CloseFailed, ManualContract!Next
<1>10. CASE LoseStep /\ UNCHANGED appDisconnected
  <2>1. p \in { "open", "closed" } /\ q = "lost" /\ tls' = tls /\ ~appDisconnected
    BY <1>10 DEF LoseStep
  <2> QED
    BY <1>10, <2>1 DEF ManualContract!Lose, ManualContract!Next
<1>11. CASE WaitStep /\ UNCHANGED appDisconnected
  <2>1. p = "lost" /\ q = "waiting" /\ tls' = tls /\ ~tls
    BY <1>11 DEF WaitStep
  <2> QED
    BY <1>11, <2>1 DEF ManualContract!Wait, ManualContract!Next
<1>12. CASE AskStep
  <2>1. p \in ManualContract!Down /\ q = p /\ tls' = tls /\ appDisconnected' = FALSE
    BY <1>12 DEF AskStep, ManualContract!Down
  <2> QED
    BY <2>1 DEF ManualContract!Ask, ManualContract!Next
<1> QED
  BY <1>1, <1>2, <1>3, <1>4, <1>5, <1>6, <1>7, <1>8, <1>9, <1>10, <1>11, <1>12
     DEF LifeStep

\* A client that does not reconnect by itself, used by one thread, keeps the
\* connection closed from the time the application closes it, in a message
\* handler deep in other calls or elsewhere, until it calls connect: no yield that
\* was under way takes the closed connection for a lost one.
THEOREM ManualContractKept ==
    ASSUME OneThread, HandlerSilent, ReconnectLeftToYield, EnableAutoReconnect \subseteq {FALSE}
    PROVE  Spec => ImplementsManualConnection
<1> DEFINE Off == ~autoReconnect
<1>1. Init => ManualContract!Init /\ StaysPlain /\ Off /\ StaysClosed
  <2> SUFFICES ASSUME Init PROVE ManualContract!Init /\ StaysPlain /\ Off /\ StaysClosed
    OBVIOUS
  <2>1. ManualContract!Init
    BY PhaseFacts DEF Init, ManualContract!Init
  <2>2. autoReconnect = FALSE /\ appDisconnected = FALSE
    BY DEF Init
  <2>3. clientState # "PENDING_RECONNECT" /\ \A t \in Threads : Len(stack[t]) = 0
    BY DEF Init
  <2>4. StaysPlain
    BY <2>3 DEF StaysPlain, PlainStacks
  <2>5. StaysClosed
    BY <2>2, <2>3 DEF StaysClosed, ClosedFits
  <2> QED
    BY <2>1, <2>2, <2>4, <2>5
<1>2. TypeOK /\ StaysPlain /\ Off /\ [Next]_vars => StaysPlain' /\ Off'
  BY StepPlain
<1>3. TypeOK /\ StackDiscipline /\ LinkAgrees /\ StaysPlain /\ Off /\ StaysClosed /\ [Next]_vars
      => StaysClosed'
  BY StepClosed
<1>4. TypeOK /\ StackDiscipline /\ LinkAgrees /\ StaysClosed /\ [Next]_vars /\ StaysClosed'
      => [ManualContract!Next]_ManualContract!connectionVars
  <2> SUFFICES ASSUME TypeOK, StackDiscipline, LinkAgrees, StaysClosed, [Next]_vars, StaysClosed'
               PROVE  [ManualContract!Next]_ManualContract!connectionVars
    OBVIOUS
  <2>1. LifeStep /\ tls \in BOOLEAN /\ appDisconnected \in BOOLEAN
    BY StepLife DEF TypeOK
  <2>2. PICK t \in Threads : TRUE
    BY SessionAssumption
  <2>3. /\ appDisconnected => clientState = "DISCONNECTED_MANUALLY"
        /\ appDisconnected' => clientState' = "DISCONNECTED_MANUALLY"
    BY <2>2 DEF StaysClosed, ClosedFits
  <2> QED
    BY <2>1, <2>3, LifeRefinesManual
<1> QED
  BY <1>1, <1>2, <1>3, <1>4, TypeCorrect, SingleThreadDiscipline, StateAndContextAgree,
     PTL
     DEF Spec, ImplementsManualConnection, ManualContract!Spec

-----------------------------------------------------------------------------
(* Several threads, one of which connects and yields *)

\* The use the porting guide suggests: one thread keeps the connection up, the
\* others send requests.  One of them at most unsubscribes, because a refused
\* unsubscribe also undoes the compare-and-set of another one; no message arrives,
\* because a delivery can leave the client in a state nobody restores; and
\* reconnecting is left to yield.
SharedUse(bg) ==
    /\ bg \in Threads
    /\ \A t \in Threads : Calls[t] \subseteq Requests \cup { "connect", "yield" }
    /\ \A t \in Threads : t # bg => Calls[t] \subseteq Requests
    /\ \A t, u \in Threads :
          "unsubscribe" \in Calls[t] /\ "unsubscribe" \in Calls[u] => t = u
    /\ ~Delivers /\ HandlerSilent /\ ReconnectLeftToYield

\* The states in which no call is under way.
Idle == { "INITIALIZED", "CONNECTED_IDLE", "DISCONNECTED_ERROR", "DISCONNECTED_MANUALLY" }

Resting(state, context) ==
    /\ state \in Idle
    /\ state = "CONNECTED_IDLE" => context = TRUE
    /\ state # "CONNECTED_IDLE" => context = FALSE

\* Has a call that stands at pc made its compare-and-set.
HoldsAt(op, pc) ==
    \/ op \in Requests /\ pc \in { "send", "wait", "restore" }
    \/ op \in { "connect", "yield" } /\ pc # "cas"

\* What client state and TLS context are while it goes on,
InYield(state, context) == state = Busy("yield") /\ context = TRUE

YieldHolds(pc, rc, state, context) ==
    /\ pc \notin { "delivered", "reconnect", "reconnected" }
    /\ pc \in { "loop", "read", "keep_alive", "disconnect", "again" } =>
          InYield(state, context)
    /\ pc = "again" => rc \notin LostRcs
    /\ pc = "after_disconnect" /\ rc = "SUCCESS" =>
          state = "DISCONNECTED_MANUALLY" /\ context = FALSE
    /\ pc = "after_disconnect" /\ rc # "SUCCESS" => InYield(state, context)
    /\ pc = "force" => state = "DISCONNECTED_ERROR"
    /\ pc = "handler" =>
          state \in { "DISCONNECTED_MANUALLY", "DISCONNECTED_ERROR" } /\ context = FALSE
    /\ pc = "lost" => state = "DISCONNECTED_ERROR" /\ context = FALSE
    /\ pc = "exit" /\ rc \in LostRcs => state = "DISCONNECTED_ERROR" /\ context = FALSE
    /\ pc = "exit" /\ rc \notin LostRcs => InYield(state, context)

CallHolds(op, pc, rc, state, context) ==
    /\ op \in Requests => state = Busy(op) /\ context = TRUE
    /\ op = "connect" => state = "CONNECTING"
    /\ op = "connect" /\ pc \in { "connack", "ok" } => context = TRUE
    /\ op = "connect" /\ pc \notin { "connack", "ok" } => context = FALSE
    /\ op = "yield" => YieldHolds(pc, rc, state, context)

\* and while yield disconnects.
DisconnectHolds(pc, state, context) ==
    /\ pc \in { "check", "cas" } => InYield(state, context)
    /\ pc \notin { "check", "cas" } => state = "DISCONNECTING"
    /\ pc = "done" => context = FALSE
    /\ pc # "done" => context = TRUE

Holding(s) == Len(s) = 2 \/ (Len(s) = 1 /\ HoldsAt(s[1].op, s[1].pc))

Held(s, state, context) ==
    /\ Len(s) = 2 => DisconnectHolds(s[2].pc, state, context)
    /\ Len(s) = 1 => CallHolds(s[1].op, s[1].pc, s[1].rc, state, context)

\* connect has read the state and not yet changed it.
Connecting(s) == Len(s) = 1 /\ s[1].op = "connect" /\ s[1].pc = "cas"

\* The calls in progress on thread t.
CallsFit(t, s, state, context) ==
    /\ Len(s) \in 0..2
    /\ Len(s) > 0 => s[1].op \in Calls[t]
    /\ Len(s) > 0 /\ s[1].op \in Requests => s[1].saved = "CONNECTED_IDLE"
    /\ Len(s) = 2 => /\ s[1].op = "yield" /\ s[1].pc = "after_disconnect"
                     /\ s[2].op = "disconnect" /\ s[2].saved = Busy("yield")
    /\ Connecting(s) => state = s[1].saved /\ state \in Idle \ { "CONNECTED_IDLE" }
    /\ Holding(s) => Held(s, state, context)

\* One call at a time holds the client; if none does, it is idle or disconnected.
HeldByOne ==
    /\ \A t \in Threads : CallsFit(t, stack[t], clientState, tls)
    /\ \A t, u \in Threads : Holding(stack[t]) /\ Holding(stack[u]) => t = u
    /\ (\E t \in Threads : Holding(stack[t])) \/ Resting(clientState, tls)

\* This is claimed of a client that does not reconnect by itself.
OneHolder == ~autoReconnect => HeldByOne

\* No call of another thread depends on the state.
Alone(t) == \A u \in Threads : u # t => ~Holding(stack[u]) /\ ~Connecting(stack[u])

\* The states of calls in progress.
LEMMA HeldFacts ==
    /\ \A op \in Requests : Busy(op) \notin Idle /\ Busy(op) \in ConnectedStates
                            /\ Busy(op) # Busy("yield")
                            /\ Busy(op) # "CONNECTED_WAIT_FOR_CB_RETURN"
                            /\ Busy(op) # "PENDING_RECONNECT"
    /\ Busy("yield") = "CONNECTED_YIELD_IN_PROGRESS"
    /\ "CONNECTED_YIELD_IN_PROGRESS" \notin Idle
    /\ "CONNECTING" \notin Idle /\ "DISCONNECTING" \notin Idle
    /\ "CONNECTED_IDLE" \in Idle /\ "DISCONNECTED_ERROR" \in Idle
    /\ \A op \in Requests : op = "unsubscribe" \/ Busy(op) # Busy("unsubscribe")
    /\ Busy("yield") # Busy("unsubscribe")
    /\ "CONNECTING" # Busy("unsubscribe") /\ "DISCONNECTING" # Busy("unsubscribe")
    /\ "unsubscribe" \in Requests
    /\ "connect" \notin Requests /\ "yield" \notin Requests /\ "disconnect" \notin Requests
BY DEF Busy, Requests, Idle, ConnectedStates

\* yield has the state to itself, or has lost the connection.
LEMMA YieldHoldsStates ==
    ASSUME NEW pc \in PcsOf("yield"), pc # "cas", NEW rc, NEW state, NEW context,
           YieldHolds(pc, rc, state, context)
    PROVE  state \in { Busy("yield"), "DISCONNECTED_MANUALLY", "DISCONNECTED_ERROR" }
<1>1. pc \in { "loop", "read", "keep_alive", "disconnect", "again" } => state = Busy("yield")
  BY DEF YieldHolds, InYield
<1>2. pc = "force" \/ pc = "lost" => state = "DISCONNECTED_ERROR"
  BY DEF YieldHolds
<1>3. /\ pc = "after_disconnect" => state \in { Busy("yield"), "DISCONNECTED_MANUALLY" }
      /\ pc = "handler" => state \in { "DISCONNECTED_ERROR", "DISCONNECTED_MANUALLY" }
      /\ pc = "exit" => state \in { Busy("yield"), "DISCONNECTED_ERROR" }
  BY DEF YieldHolds, InYield
<1>4. pc \notin { "delivered", "reconnect", "reconnected" }
  BY DEF YieldHolds
<1> QED
  BY <1>1, <1>2, <1>3, <1>4, PcsFacts

\* A call that holds the client is not in its idle state.
LEMMA HeldIsBusy ==
    ASSUME NEW t \in Threads, NEW bg, SharedUse(bg), NEW s, NEW state, NEW context,
           CallsFit(t, s, state, context), Holding(s), s \in Seq(Frames)
    PROVE  /\ state # "CONNECTED_IDLE" /\ state # "INITIALIZED"
           /\ state \notin { "CONNECTED_WAIT_FOR_CB_RETURN", "PENDING_RECONNECT" }
           /\ state = Busy("unsubscribe") => s[1].op = "unsubscribe"
           /\ t # bg => state \notin Idle
<1>1. CASE Len(s) = 2
  <2>1. "yield" \in Calls[t] /\ DisconnectHolds(s[2].pc, state, context)
    BY <1>1 DEF CallsFit, Held
  <2> QED
    BY <2>1, HeldFacts DEF DisconnectHolds, InYield, SharedUse
<1>2. CASE Len(s) = 1
  <2>1. /\ s[1].op \in Calls[t] /\ HoldsAt(s[1].op, s[1].pc)
        /\ CallHolds(s[1].op, s[1].pc, s[1].rc, state, context)
    BY <1>2 DEF CallsFit, Held, Holding
  <2>2. s[1].op \in Requests \cup { "connect", "yield" } /\ (t # bg => s[1].op \in Requests)
    BY <2>1 DEF SharedUse
  <2>3. s[1] \in Frames
    BY <1>2, ElementOfSeq
  <2>4. s[1].op \in Ops /\ s[1].pc \in PcsOf(s[1].op)
    BY <2>3 DEF Frames
  <2>5. CASE s[1].op \in Requests
    BY <2>1, <2>5, HeldFacts DEF CallHolds, Idle
  <2>6. CASE s[1].op = "connect"
    <3>1. state = "CONNECTING" /\ t = bg
      BY <2>1, <2>2, <2>6, HeldFacts DEF CallHolds
    <3> QED
      BY <3>1, HeldFacts
  <2>7. CASE s[1].op = "yield"
    <3>1. s[1].pc \in PcsOf("yield") /\ s[1].pc # "cas"
      BY <2>1, <2>4, <2>7, HeldFacts DEF HoldsAt
    <3>2. YieldHolds(s[1].pc, s[1].rc, state, context)
      BY <2>1, <2>7 DEF CallHolds
    <3>3. state \in { Busy("yield"), "DISCONNECTED_MANUALLY", "DISCONNECTED_ERROR" }
      BY <3>1, <3>2, YieldHoldsStates
    <3>4. Busy("unsubscribe") \notin Idle
      BY HeldFacts
    <3> QED
      BY <2>2, <2>7, <3>3, <3>4, HeldFacts DEF Idle
  <2> QED
    BY <2>2, <2>5, <2>6, <2>7
<1> QED
  BY <1>1, <1>2 DEF Holding

\* Who holds the client, finds it idle or is about to connect is alone.
LEMMA HolderIsAlone ==
    ASSUME TypeOK, HeldByOne, NEW bg, SharedUse(bg), NEW t \in Threads,
           Holding(stack[t]) \/ clientState = "CONNECTED_IDLE" \/ Connecting(stack[t])
    PROVE  Alone(t)
<1> SUFFICES ASSUME NEW u \in Threads, u # t
             PROVE  ~Holding(stack[u]) /\ ~Connecting(stack[u])
  BY DEF Alone
<1>0. /\ CallsFit(t, stack[t], clientState, tls) /\ CallsFit(u, stack[u], clientState, tls)
      /\ stack[t] \in Seq(Frames) /\ stack[u] \in Seq(Frames)
  BY DEF HeldByOne, TypeOK
<1>1. Connecting(stack[u]) => u = bg /\ clientState \in Idle /\ clientState # "CONNECTED_IDLE"
  BY <1>0, HeldFacts DEF CallsFit, Connecting, SharedUse
<1>2. Connecting(stack[t]) => t = bg /\ clientState \in Idle
  BY <1>0, HeldFacts DEF CallsFit, Connecting, SharedUse
<1>3. CASE Holding(stack[t])
  <2>1. ~Holding(stack[u])
    BY <1>3 DEF HeldByOne
  <2> QED
    BY <1>0, <1>1, <1>3, <2>1, HeldIsBusy
<1>4. CASE clientState = "CONNECTED_IDLE"
  BY <1>0, <1>1, <1>4, HeldIsBusy
<1>5. CASE Connecting(stack[t])
  BY <1>0, <1>1, <1>2, <1>5, HeldIsBusy
<1> QED
  BY <1>3, <1>4, <1>5

\* A step of a thread that is alone,
LEMMA OwnerStep ==
    ASSUME TypeOK, HeldByOne, NEW t \in Threads, Alone(t), NEW r,
           stack' = [stack EXCEPT ![t] = r], CallsFit(t, r, clientState', tls'),
           Holding(r) \/ Resting(clientState', tls')
    PROVE  HeldByOne'
<1> DEFINE new == clientState'
           context == tls'
<1>1. /\ stack'[t] = r /\ \A u \in Threads : u # t => stack'[u] = stack[u]
  BY DEF TypeOK
<1>2. CallsFit(t, r, new, context) /\ (Holding(r) \/ Resting(new, context))
  OBVIOUS
<1> HIDE DEF new, context
<1>3. \A u \in Threads : CallsFit(u, stack'[u], new, context)
  <2> SUFFICES ASSUME NEW u \in Threads PROVE CallsFit(u, stack'[u], new, context)
    OBVIOUS
  <2>1. CASE u = t
    BY <1>1, <1>2, <2>1
  <2>2. CASE u # t
    <3>1. ~Holding(stack[u]) /\ ~Connecting(stack[u]) /\ CallsFit(u, stack[u], clientState, tls)
      BY <2>2 DEF Alone, HeldByOne
    <3>2. CallsFit(u, stack[u], new, context)
      BY <3>1 DEF CallsFit
    <3> QED
      BY <1>1, <2>2, <3>2
  <2> QED
    BY <2>1, <2>2
<1>4. \A u \in Threads : Holding(stack'[u]) => u = t
  BY <1>1 DEF Alone
<1>5. (\E u \in Threads : Holding(stack'[u])) \/ Resting(new, context)
  BY <1>1, <1>2
<1> QED
  BY <1>3, <1>4, <1>5 DEF HeldByOne, new, context

\* and one that changes nothing the others see.
LEMMA SilentStep ==
    ASSUME TypeOK, HeldByOne, NEW t \in Threads, NEW r,
           stack' = [stack EXCEPT ![t] = r], CallsFit(t, r, clientState, tls),
           Holding(r) <=> Holding(stack[t]), UNCHANGED << clientState, tls >>
    PROVE  HeldByOne'
<1>1. /\ stack'[t] = r /\ \A u \in Threads : u # t => stack'[u] = stack[u]
  BY DEF TypeOK
<1>2. \A u \in Threads : Holding(stack'[u]) <=> Holding(stack[u])
  BY <1>1
<1>3. \A u \in Threads : CallsFit(u, stack'[u], clientState, tls)
  BY <1>1 DEF HeldByOne
<1>4. (\E u \in Threads : Holding(stack'[u])) \/ Resting(clientState, tls)
  BY <1>2 DEF HeldByOne
<1>5. \A u, v \in Threads : Holding(stack'[u]) /\ Holding(stack'[v]) => u = v
  BY <1>2 DEF HeldByOne
<1> QED
  BY <1>3, <1>4, <1>5 DEF HeldByOne


\* What a return leaves of one call, or of two.
LEMMA ReturnedShort ==
    ASSUME NEW s \in Seq(Frames), NEW rc \in Rcs
    PROVE  /\ Len(s) = 1 => Len(Returned(s, rc)) = 0
           /\ Len(s) = 2 /\ s[1].pc = "after_disconnect" =>
                 /\ Len(Returned(s, rc)) = 1 /\ Returned(s, rc)[1].op = s[1].op
                 /\ Returned(s, rc)[1].pc = s[1].pc /\ Returned(s, rc)[1].rc = rc
<1> DEFINE r == Returned(s, rc)
<1>1. ASSUME Len(s) = 1 PROVE Len(r) = 0
  <2>1. Len(s) > 0
    BY <1>1
  <2>2. Len(r) = Len(s) - 1
    BY <2>1, ReturnedFacts
  <2> QED
    BY <1>1, <2>2
<1>2. ASSUME Len(s) = 2, s[1].pc = "after_disconnect"
      PROVE  Len(r) = 1 /\ r[1].op = s[1].op /\ r[1].pc = s[1].pc /\ r[1].rc = rc
  <2>1. Len(s) > 0 /\ 1 \in 1..(Len(s) - 1)
    BY <1>2
  <2>2. Len(r) = Len(s) - 1 /\ r[1].op = s[1].op /\ r[1].pc = s[1].pc
    BY <2>1, ReturnedFacts
  <2>3. 1 \in Nat /\ 1 > 0 /\ Len(s) = 1 + 1 /\ s[1].pc \notin { "callback", "handler" }
    BY <1>2
  <2>4. r[1].rc = rc
    BY <2>3, ReturnedResult
  <2> QED
    BY <1>2, <2>2, <2>4
<1> QED
  BY <1>1, <1>2

\* The client goes on with its innermost call,
LEMMA GotoOne ==
    ASSUME TypeOK, HeldByOne, NEW t \in Threads, Alone(t), Len(stack[t]) = 1,
           NEW pc \in PcsOf(Top(t).op), NEW rc \in Rcs, Goto(t, pc, rc),
           HoldsAt(Top(t).op, pc), CallHolds(Top(t).op, pc, rc, clientState', tls')
    PROVE  HeldByOne'
<1> DEFINE s == stack[t]
           r == WithTop(s, pc, rc)
           new == clientState'
           context == tls'
<1>1. /\ s \in Seq(Frames) /\ Len(s) = 1 /\ Top(t) = s[1] /\ CallsFit(t, s, clientState, tls)
      /\ stack' = [stack EXCEPT ![t] = r]
  BY DEF TypeOK, HeldByOne, Top, Depth, Goto
<1>2. HoldsAt(s[1].op, pc) /\ CallHolds(s[1].op, pc, rc, new, context)
  BY <1>1
<1>3. /\ Len(r) = 1 /\ r[1].op = s[1].op /\ r[1].pc = pc /\ r[1].rc = rc
      /\ r[1].saved = s[1].saved
  BY <1>1, WithTopFacts
<1> HIDE DEF s, r, new, context
<1>4. Holding(r) /\ Held(r, new, context)
  BY <1>2, <1>3 DEF Holding, Held
<1>5. ~Connecting(r)
  BY <1>2, <1>3, HeldFacts DEF Connecting, HoldsAt
<1>6. CallsFit(t, r, new, context)
  BY <1>1, <1>3, <1>4, <1>5 DEF CallsFit
<1> QED
  BY <1>1, <1>4, <1>6, OwnerStep DEF new, context

\* or with the disconnect that yield has called,
LEMMA GotoTwo ==
    ASSUME TypeOK, HeldByOne, NEW t \in Threads, Alone(t), Len(stack[t]) = 2,
           NEW pc \in PcsOf(Top(t).op), NEW rc \in Rcs, Goto(t, pc, rc),
           DisconnectHolds(pc, clientState', tls')
    PROVE  HeldByOne'
<1> DEFINE s == stack[t]
           r == WithTop(s, pc, rc)
           new == clientState'
           context == tls'
<1>1. /\ s \in Seq(Frames) /\ Len(s) = 2 /\ Top(t) = s[2] /\ CallsFit(t, s, clientState, tls)
      /\ stack' = [stack EXCEPT ![t] = r]
  BY DEF TypeOK, HeldByOne, Top, Depth, Goto
<1>2. DisconnectHolds(pc, new, context)
  OBVIOUS
<1>3. /\ Len(r) = 2 /\ r[1] = s[1]
      /\ r[2].op = s[2].op /\ r[2].pc = pc /\ r[2].saved = s[2].saved
  BY <1>1, WithTopFacts
<1> HIDE DEF s, r, new, context
<1>4. Holding(r) /\ Held(r, new, context)
  <2>1. Len(r) = 2 /\ Len(r) # 1 /\ r[2].pc = pc
    BY <1>3
  <2> QED
    BY <1>2, <2>1, Zenon DEF Holding, Held
<1>5. ~Connecting(r)
  BY <1>3 DEF Connecting
<1>6. CallsFit(t, r, new, context)
  BY <1>1, <1>3, <1>4, <1>5 DEF CallsFit
<1> QED
  BY <1>1, <1>4, <1>6, OwnerStep DEF new, context

\* which it calls,
LEMMA InvokeOne ==
    ASSUME TypeOK, HeldByOne, NEW t \in Threads, Alone(t), Len(stack[t]) = 1,
           Top(t).op = "yield", InYield(clientState, tls), UNCHANGED << clientState, tls >>,
           Invoke(t, "after_disconnect", Frame("disconnect", "check", clientState))
    PROVE  HeldByOne'
<1> DEFINE s == stack[t]
           w == WithTop(s, "after_disconnect", "SUCCESS")
           f == Frame("disconnect", "check", clientState)
           r == Append(w, f)
<1>1. /\ s \in Seq(Frames) /\ Len(s) = 1 /\ Top(t) = s[1] /\ CallsFit(t, s, clientState, tls)
      /\ stack' = [stack EXCEPT ![t] = r] /\ s[1].op = "yield"
  BY DEF TypeOK, HeldByOne, Top, Depth, Invoke
<1>2. "after_disconnect" \in PcsOf("yield") /\ "SUCCESS" \in Rcs
  BY PcsFacts DEF Rcs
<1>3. /\ w \in Seq(Frames) /\ Len(w) = 1 /\ w[1].op = "yield" /\ w[1].pc = "after_disconnect"
      /\ w[1].saved = s[1].saved
  BY <1>1, <1>2, WithTopFacts
<1>4. "disconnect" \in Ops /\ "check" \in PcsOf("disconnect") /\ clientState \in ClientStates
  BY PcsFacts DEF Ops, TypeOK
<1>5. f \in Frames /\ f.op = "disconnect" /\ f.pc = "check" /\ f.saved = clientState
  BY <1>4, FrameFacts
<1> HIDE DEF s, w, f
<1>6. Len(r) = 2 /\ r[1] = w[1] /\ r[2] = f
  <2>1. w \in Seq(Frames) /\ f \in Frames /\ 1 \in 1..Len(w)
    BY <1>3, <1>5
  <2>2. Len(r) = Len(w) + 1 /\ r[1] = w[1] /\ r[Len(w) + 1] = f
    BY <2>1, AppendFacts
  <2> QED
    BY <1>3, <2>2
<1> HIDE DEF r
<1>7. clientState = Busy("yield") /\ tls = TRUE
  BY DEF InYield
<1>8. Holding(r) /\ Held(r, clientState, tls)
  <2>1. DisconnectHolds("check", clientState, tls)
    BY <1>7 DEF DisconnectHolds, InYield
  <2>2. Len(r) = 2 /\ Len(r) # 1 /\ r[2].pc = "check"
    BY <1>5, <1>6
  <2> QED
    BY <2>1, <2>2, Zenon DEF Holding, Held
<1>9. ~Connecting(r)
  BY <1>6 DEF Connecting
<1>10. CallsFit(t, r, clientState, tls)
  <2>1. s[1].op \in Calls[t] /\ "yield" \notin Requests
    BY <1>1, HeldFacts DEF CallsFit
  <2>2. /\ Len(r) = 2 /\ r[1].op = "yield" /\ r[1].op \in Calls[t]
        /\ r[1].op \notin Requests /\ r[1].pc = "after_disconnect"
        /\ r[2].op = "disconnect" /\ r[2].saved = Busy("yield")
    BY <1>1, <1>3, <1>5, <1>6, <1>7, <2>1
  <2> QED
    BY <1>8, <1>9, <2>2 DEF CallsFit
<1> QED
  BY <1>1, <1>8, <1>10, OwnerStep

\* and which returns to it;
LEMMA ReturnTwo ==
    ASSUME TypeOK, HeldByOne, NEW t \in Threads, Alone(t), Len(stack[t]) = 2,
           NEW rc \in Rcs, Return(t, rc),
           YieldHolds("after_disconnect", rc, clientState', tls')
    PROVE  HeldByOne'
<1> DEFINE s == stack[t]
           r == Returned(s, rc)
           new == clientState'
           context == tls'
<1>1. /\ s \in Seq(Frames) /\ Len(s) = 2 /\ CallsFit(t, s, clientState, tls)
      /\ stack' = [stack EXCEPT ![t] = r]
  BY DEF TypeOK, HeldByOne, Return
<1>2. YieldHolds("after_disconnect", rc, new, context)
  OBVIOUS
<1>3. s[1].op = "yield" /\ s[1].pc = "after_disconnect" /\ s[1].op \in Calls[t]
  BY <1>1 DEF CallsFit
<1>4. /\ Len(r) = 1 /\ r[1].op = "yield" /\ r[1].pc = "after_disconnect"
      /\ r[1].rc = rc
  BY <1>1, <1>3, ReturnedShort
<1> HIDE DEF s, r, new, context
<1>5. Holding(r) /\ Held(r, new, context)
  BY <1>2, <1>4, HeldFacts DEF Holding, Held, HoldsAt, CallHolds
<1>6. ~Connecting(r)
  BY <1>4 DEF Connecting
<1>7. CallsFit(t, r, new, context)
  BY <1>3, <1>4, <1>5, <1>6, HeldFacts DEF CallsFit
<1> QED
  BY <1>1, <1>5, <1>7, OwnerStep DEF new, context

\* or the outermost call ends and leaves the client to the next one,
LEMMA ReturnOne ==
    ASSUME TypeOK, HeldByOne, NEW t \in Threads, Alone(t), Len(stack[t]) = 1,
           NEW rc \in Rcs, Return(t, rc), Resting(clientState', tls')
    PROVE  HeldByOne'
<1> DEFINE r == Returned(stack[t], rc)
<1>1. stack[t] \in Seq(Frames) /\ stack' = [stack EXCEPT ![t] = r]
  BY DEF TypeOK, Return
<1>2. Len(r) = 0
  BY <1>1, ReturnedShort
<1> HIDE DEF r
<1>3. ~Holding(r) /\ ~Connecting(r)
  BY <1>2 DEF Holding, Connecting
<1>4. CallsFit(t, r, clientState', tls')
  BY <1>2, <1>3 DEF CallsFit
<1> QED
  BY <1>1, <1>4, OwnerStep

\* or ends without ever having held it;
LEMMA GiveUp ==
    ASSUME TypeOK, HeldByOne, NEW t \in Threads, Len(stack[t]) = 1,
           ~HoldsAt(Top(t).op, Top(t).pc), NEW rc \in Rcs, Return(t, rc),
           UNCHANGED << clientState, tls >>
    PROVE  HeldByOne'
<1> DEFINE r == Returned(stack[t], rc)
<1>1. stack[t] \in Seq(Frames) /\ stack' = [stack EXCEPT ![t] = r] /\ ~Holding(stack[t])
  BY DEF TypeOK, Return, Holding, Top, Depth
<1>2. Len(r) = 0
  BY <1>1, ReturnedShort
<1> HIDE DEF r
<1>3. ~Holding(r) /\ ~Connecting(r)
  BY <1>2 DEF Holding, Connecting
<1>4. CallsFit(t, r, clientState, tls)
  BY <1>2, <1>3 DEF CallsFit
<1> QED
  BY <1>1, <1>3, <1>4, SilentStep

\* and a call that has only begun holds nothing.
LEMMA PushOne ==
    ASSUME TypeOK, HeldByOne, NEW t \in Threads, Len(stack[t]) = 0,
           NEW f \in Frames, Push(t, f), UNCHANGED << clientState, tls >>,
           f.op \in Calls[t], f.pc = "cas",
           f.op \in Requests => f.saved = "CONNECTED_IDLE",
           f.op = "connect" => clientState = f.saved /\ clientState \in Idle \ { "CONNECTED_IDLE" }
    PROVE  HeldByOne'
<1> DEFINE r == Append(stack[t], f)
<1>1. stack[t] \in Seq(Frames) /\ stack' = [stack EXCEPT ![t] = r] /\ ~Holding(stack[t])
  BY DEF TypeOK, Push, Holding
<1>2. Len(r) = 1 /\ r[1] = f
  BY <1>1, AppendFacts
<1> HIDE DEF r
<1>3. ~Holding(r)
  BY <1>2 DEF Holding, HoldsAt
<1>4. CallsFit(t, r, clientState, tls)
  BY <1>2, <1>3 DEF CallsFit, Connecting
<1> QED
  BY <1>1, <1>3, <1>4, SilentStep

\* What a thread may rely on in the middle of a call.
LEMMA TopHeld ==
    ASSUME TypeOK, HeldByOne, NEW bg, SharedUse(bg), NEW t \in Threads, Depth(t) > 0
    PROVE  \/ /\ Len(stack[t]) = 1 /\ Top(t).op \in Requests \cup { "connect", "yield" }
              /\ Top(t).op \in Calls[t]
              /\ Top(t).op \in Requests => Top(t).saved = "CONNECTED_IDLE"
              /\ HoldsAt(Top(t).op, Top(t).pc) =>
                    /\ CallHolds(Top(t).op, Top(t).pc, Top(t).rc, clientState, tls)
                    /\ Alone(t)
              /\ Top(t).op = "connect" /\ Top(t).pc = "cas" =>
                    /\ clientState = Top(t).saved /\ clientState \in Idle \ { "CONNECTED_IDLE" }
                    /\ Alone(t) /\ tls = FALSE
           \/ /\ Len(stack[t]) = 2 /\ Top(t).op = "disconnect" /\ Top(t).saved = Busy("yield")
              /\ DisconnectHolds(Top(t).pc, clientState, tls) /\ Alone(t)
<1> DEFINE s == stack[t]
<1>1. /\ s \in Seq(Frames) /\ CallsFit(t, s, clientState, tls)
      /\ Len(s) \in { 1, 2 } /\ Top(t) = s[Len(s)]
  <2>1. /\ s \in Seq(Frames) /\ CallsFit(t, s, clientState, tls)
        /\ Len(s) > 0 /\ Top(t) = s[Len(s)]
    BY DEF TypeOK, HeldByOne, Depth, Top
  <2>2. Len(s) \in 0..2
    BY <2>1 DEF CallsFit
  <2> QED
    BY <2>1, <2>2
<1>2. CASE Len(s) = 1
  <2>1. /\ Top(t) = s[1] /\ s[1].op \in Calls[t]
        /\ s[1].op \in Requests => s[1].saved = "CONNECTED_IDLE"
    BY <1>1, <1>2 DEF CallsFit
  <2>2. s[1].op \in Requests \cup { "connect", "yield" }
    BY <2>1 DEF SharedUse
  <2>3. ASSUME HoldsAt(s[1].op, s[1].pc)
        PROVE  CallHolds(s[1].op, s[1].pc, s[1].rc, clientState, tls) /\ Alone(t)
    <3>1. Holding(s)
      BY <1>2, <2>3 DEF Holding
    <3>2. Held(s, clientState, tls)
      BY <1>1, <3>1 DEF CallsFit
    <3>3. Alone(t)
      BY <3>1, HolderIsAlone
    <3> QED
      BY <1>2, <3>2, <3>3 DEF Held
  <2>4. ASSUME s[1].op = "connect", s[1].pc = "cas"
        PROVE  /\ clientState = s[1].saved /\ clientState \in Idle \ { "CONNECTED_IDLE" }
               /\ Alone(t) /\ tls = FALSE
    <3>1. Connecting(s) /\ ~Holding(s)
      BY <1>2, <2>4, HeldFacts DEF Connecting, Holding, HoldsAt
    <3>2. clientState = s[1].saved /\ clientState \in Idle \ { "CONNECTED_IDLE" }
      BY <1>1, <3>1 DEF CallsFit
    <3>3. Alone(t)
      BY <3>1, HolderIsAlone
    <3>4. Resting(clientState, tls)
      BY <3>1, <3>3 DEF HeldByOne, Alone
    <3> QED
      BY <3>2, <3>3, <3>4 DEF Resting
  <2> QED
    BY <1>2, <2>1, <2>2, <2>3, <2>4
<1>3. CASE Len(s) = 2
  <2>1. Top(t) = s[2] /\ s[2].op = "disconnect" /\ s[2].saved = Busy("yield") /\ Holding(s)
    BY <1>1, <1>3 DEF CallsFit, Holding
  <2>2. Held(s, clientState, tls)
    BY <1>1, <2>1 DEF CallsFit
  <2>3. DisconnectHolds(s[2].pc, clientState, tls)
    BY <1>3, <2>2 DEF Held
  <2>4. Alone(t)
    BY <2>1, HolderIsAlone
  <2> QED
    BY <1>3, <2>1, <2>3, <2>4
<1> QED
  BY <1>1, <1>2, <1>3

\* An idle client is there to be taken.
LEMMA IdleIsFree ==
    ASSUME TypeOK, HeldByOne, NEW bg, SharedUse(bg), NEW t \in Threads,
           clientState = "CONNECTED_IDLE"
    PROVE  Alone(t) /\ tls = TRUE
<1>1. Alone(t)
  BY HolderIsAlone
<1>2. \A u \in Threads : ~Holding(stack[u])
  BY HeldIsBusy DEF HeldByOne, TypeOK
<1>3. Resting(clientState, tls)
  BY <1>2 DEF HeldByOne
<1> QED
  BY <1>1, <1>3 DEF Resting

\* Steps of connect.
LEMMA ConnectHeld ==
    ASSUME TypeOK, HeldByOne, NEW bg, SharedUse(bg), NEW t \in Threads, ConnectStep(t)
    PROVE  HeldByOne' /\ LifeStep
<1>0. Depth(t) > 0 /\ Top(t).op = "connect"
  BY DEF ConnectStep, ConnectStart, ConnectTls, ConnectAck, ConnectDone, ConnectFailed,
     At
<1>1. /\ Len(stack[t]) = 1
      /\ HoldsAt("connect", Top(t).pc) =>
            CallHolds("connect", Top(t).pc, Top(t).rc, clientState, tls) /\ Alone(t)
      /\ Top(t).pc = "cas" =>
            /\ clientState = Top(t).saved /\ clientState \in Idle \ { "CONNECTED_IDLE" }
            /\ Alone(t) /\ tls = FALSE
  BY <1>0, TopHeld
<1>2. ASSUME Top(t).pc # "cas"
      PROVE  /\ clientState = "CONNECTING" /\ Alone(t)
             /\ Top(t).pc \in { "connack", "ok" } => tls = TRUE
             /\ Top(t).pc \notin { "connack", "ok" } => tls = FALSE
  <2>1. HoldsAt("connect", Top(t).pc)
    BY <1>2 DEF HoldsAt
  <2> QED
    BY <1>1, <2>1 DEF CallHolds
<1>3. ASSUME NEW pc \in PcsOf("connect"), pc # "cas", Alone(t), Goto(t, pc, "SUCCESS"),
             clientState' = "CONNECTING",
             pc \in { "connack", "ok" } => tls' = TRUE,
             pc \notin { "connack", "ok" } => tls' = FALSE
      PROVE  HeldByOne'
  <2>1. HoldsAt("connect", pc)
    BY <1>3 DEF HoldsAt
  <2>2. CallHolds("connect", pc, "SUCCESS", clientState', tls')
    BY <1>3, HeldFacts DEF CallHolds
  <2>3. "SUCCESS" \in Rcs
    BY DEF Rcs
  <2> QED
    BY <1>0, <1>1, <1>3, <2>1, <2>2, <2>3, GotoOne
<1>4. CASE ConnectStart(t)
  <2>1. /\ Top(t).pc = "cas" /\ Goto(t, "tls_connect", "SUCCESS")
        /\ UNCHANGED << tls, appDisconnected >>
    BY <1>4 DEF ConnectStart, At
  <2>2. /\ clientState' = "CONNECTING" /\ tls = FALSE /\ tls' = FALSE /\ Alone(t)
        /\ clientState \in Idle \ { "CONNECTED_IDLE" }
    BY <1>1, <1>4, <2>1 DEF ConnectStart, SetClientState
  <2>3. HeldByOne'
    BY <1>3, <2>1, <2>2, PcsFacts
  <2>4. OpenStep
    BY <2>2 DEF OpenStep, ValidForConnect, Idle
  <2> QED
    BY <2>1, <2>3, <2>4 DEF LifeStep
<1>5. CASE ConnectTls(t) \/ ConnectAck(t)
  <2>1. Top(t).pc # "cas" /\ UNCHANGED << clientState, appDisconnected >>
    BY <1>5 DEF ConnectTls, ConnectAck, At
  <2>2. clientState = "CONNECTING" /\ Alone(t) /\ (Top(t).pc = "connack" => tls = TRUE)
    BY <1>2, <2>1
  <2>3. \/ tls' = TRUE /\ Goto(t, "connack", "SUCCESS")
        \/ tls' = TRUE /\ Goto(t, "ok", "SUCCESS")
        \/ tls' = FALSE /\ Goto(t, "failed", "SUCCESS")
    BY <1>5, <2>2 DEF ConnectTls, ConnectAck, At
  <2>4. HeldByOne'
    BY <1>3, <2>1, <2>2, <2>3, PcsFacts
  <2>5. HandshakeStep
    BY <2>1, <2>2, <2>3 DEF HandshakeStep
  <2> QED
    BY <2>1, <2>4, <2>5 DEF LifeStep
<1>6. CASE ConnectDone(t)
  <2>1. /\ Top(t).pc = "ok" /\ Return(t, "SUCCESS") /\ UNCHANGED << tls, appDisconnected >>
    BY <1>6 DEF ConnectDone, At
  <2>2. clientState = "CONNECTING" /\ Alone(t) /\ tls = TRUE
    BY <1>2, <2>1
  <2>3. clientState' = "CONNECTED_IDLE" /\ tls' = TRUE
    BY <1>6, <2>1, <2>2 DEF ConnectDone, SetClientState
  <2>4. Resting(clientState', tls') /\ "SUCCESS" \in Rcs
    BY <2>3 DEF Resting, Idle, Rcs
  <2>5. HeldByOne'
    BY <1>1, <2>1, <2>2, <2>4, ReturnOne
  <2> QED
    BY <2>1, <2>2, <2>3, <2>5 DEF LifeStep, OpenedStep
<1>7. CASE ConnectFailed(t)
  <2>1. /\ Top(t).pc = "failed" /\ Return(t, "ERROR") /\ UNCHANGED << tls, appDisconnected >>
    BY <1>7 DEF ConnectFailed, At
  <2>2. clientState = "CONNECTING" /\ Alone(t) /\ tls = FALSE
    BY <1>2, <2>1
  <2>3. clientState' = "DISCONNECTED_ERROR" /\ tls' = FALSE
    BY <1>7, <2>1, <2>2 DEF ConnectFailed, SetClientState
  <2>4. Resting(clientState', tls') /\ "ERROR" \in Rcs
    BY <2>3 DEF Resting, Idle, Rcs
  <2>5. HeldByOne'
    BY <1>1, <2>1, <2>2, <2>4, ReturnOne
  <2> QED
    BY <2>1, <2>2, <2>3, <2>5 DEF LifeStep, OpenFailedStep
<1> QED
  BY <1>4, <1>5, <1>6, <1>7 DEF ConnectStep

\* Steps of the disconnect that yield calls.
LEMMA DisconnectHeld ==
    ASSUME TypeOK, HeldByOne, NEW bg, SharedUse(bg), NEW t \in Threads, DisconnectStep(t)
    PROVE  HeldByOne' /\ LifeStep
<1>0. Depth(t) > 0 /\ Top(t).op = "disconnect"
  BY DEF DisconnectStep, DisconnectCheck, DisconnectStart, DisconnectSend,
     DisconnectDone,
         DisconnectUndo, At
<1>1. /\ Len(stack[t]) = 2 /\ Top(t).saved = Busy("yield") /\ Alone(t)
      /\ DisconnectHolds(Top(t).pc, clientState, tls)
  BY <1>0, TopHeld, HeldFacts
<1>2. Busy("yield") \in ConnectedStates
  BY StateFacts
<1>3. ASSUME NEW pc \in PcsOf("disconnect"), Goto(t, pc, "SUCCESS"),
             DisconnectHolds(pc, clientState', tls')
      PROVE  HeldByOne'
  <2>1. "SUCCESS" \in Rcs
    BY DEF Rcs
  <2> QED
    BY <1>0, <1>1, <1>3, <2>1, GotoTwo
<1>4. CASE DisconnectCheck(t)
  <2>1. Top(t).pc = "check" /\ UNCHANGED << clientState, tls, appDisconnected >>
    BY <1>4 DEF DisconnectCheck, At
  <2>2. clientState = Busy("yield") /\ tls = TRUE
    BY <1>1, <2>1 DEF DisconnectHolds, InYield
  <2>3. Goto(t, "cas", "SUCCESS")
    BY <1>2, <1>4, <2>2 DEF DisconnectCheck, IsClientConnected
  <2>4. DisconnectHolds("cas", clientState', tls')
    BY <2>1, <2>2 DEF DisconnectHolds, InYield
  <2>5. HeldByOne'
    BY <1>3, <2>3, <2>4, PcsFacts
  <2> QED
    BY <2>1, <2>5, StaysConnected
<1>5. CASE DisconnectStart(t)
  <2>1. Top(t).pc = "cas" /\ UNCHANGED << tls, appDisconnected >>
    BY <1>5 DEF DisconnectStart, At
  <2>2. clientState = Busy("yield") /\ tls = TRUE
    BY <1>1, <2>1 DEF DisconnectHolds, InYield
  <2>3. Goto(t, "send", "SUCCESS") /\ clientState' = "DISCONNECTING" /\ tls' = TRUE
    BY <1>1, <1>5, <2>1, <2>2 DEF DisconnectStart, SetClientState
  <2>4. DisconnectHolds("send", clientState', tls')
    BY <2>3 DEF DisconnectHolds
  <2>5. HeldByOne'
    BY <1>3, <2>3, <2>4, PcsFacts
  <2>6. CloseStep
    BY <1>2, <2>2, <2>3 DEF CloseStep
  <2> QED
    BY <2>1, <2>5, <2>6 DEF LifeStep
<1>6. CASE DisconnectSend(t)
  <2>1. Top(t).pc = "send" /\ UNCHANGED << clientState, appDisconnected >>
    BY <1>6 DEF DisconnectSend, At
  <2>2. clientState = "DISCONNECTING" /\ tls = TRUE
    BY <1>1, <2>1 DEF DisconnectHolds
  <2>3. \/ tls' = FALSE /\ Goto(t, "done", "SUCCESS")
        \/ tls' = TRUE /\ Goto(t, "undo", "SUCCESS")
    BY <1>6, <2>2 DEF DisconnectSend
  <2>4. CASE tls' = FALSE /\ Goto(t, "done", "SUCCESS")
    <3>1. DisconnectHolds("done", clientState', tls')
      BY <2>1, <2>2, <2>4 DEF DisconnectHolds
    <3>2. ReleaseStep
      BY <2>1, <2>2, <2>4 DEF ReleaseStep
    <3> QED
      BY <1>3, <2>1, <2>4, <3>1, <3>2, PcsFacts DEF LifeStep
  <2>5. CASE tls' = TRUE /\ Goto(t, "undo", "SUCCESS")
    <3>1. DisconnectHolds("undo", clientState', tls')
      BY <2>1, <2>2, <2>5 DEF DisconnectHolds
    <3>2. HeldByOne'
      BY <1>3, <2>5, <3>1, PcsFacts
    <3> QED
      BY <2>1, <2>2, <2>5, <3>2, StaysConnected
  <2> QED
    BY <2>3, <2>4, <2>5
<1>7. CASE DisconnectDone(t)
  <2>1. /\ Top(t).pc = "done" /\ clientState' = "DISCONNECTED_MANUALLY"
        /\ Return(t, "SUCCESS") /\ tls' = tls
        /\ appDisconnected' = (appDisconnected \/ CalledByApp(t))
    BY <1>7 DEF DisconnectDone, At
  <2>2. clientState = "DISCONNECTING" /\ tls = FALSE
    BY <1>1, <2>1 DEF DisconnectHolds
  <2>3. YieldHolds("after_disconnect", "SUCCESS", clientState', tls') /\ "SUCCESS" \in Rcs
    BY <2>1, <2>2 DEF YieldHolds, Rcs
  <2>4. HeldByOne'
    BY <1>1, <2>1, <2>3, ReturnTwo
  <2>5. appDisconnected' \in { appDisconnected, TRUE }
    BY <2>1, Zenon DEF TypeOK
  <2>6. ClosedStep
    BY <2>1, <2>2 DEF ClosedStep
  <2> QED
    BY <2>4, <2>5, <2>6 DEF LifeStep
<1>8. CASE DisconnectUndo(t)
  <2>1. /\ Top(t).pc = "undo" /\ clientState' = Busy("yield") /\ Return(t, "ERROR")
        /\ tls' = tls /\ UNCHANGED appDisconnected
    BY <1>1, <1>8 DEF DisconnectUndo, At
  <2>2. clientState = "DISCONNECTING" /\ tls = TRUE
    BY <1>1, <2>1 DEF DisconnectHolds
  <2>3. YieldHolds("after_disconnect", "ERROR", clientState', tls') /\ "ERROR" \in Rcs
    BY <2>1, <2>2 DEF YieldHolds, InYield, Rcs
  <2>4. HeldByOne'
    BY <1>1, <2>1, <2>3, ReturnTwo
  <2>5. CloseFailedStep
    BY <1>2, <2>1, <2>2 DEF CloseFailedStep
  <2> QED
    BY <2>1, <2>4, <2>5 DEF LifeStep
<1> QED
  BY <1>4, <1>5, <1>6, <1>7, <1>8 DEF DisconnectStep

\* Steps of requests.  The reverse compare-and-set of a refused unsubscribe finds
\* its state only if another unsubscribe is under way.
LEMMA RequestHeld ==
    ASSUME TypeOK, HeldByOne, NEW bg, SharedUse(bg), NEW t \in Threads, RequestStep(t)
    PROVE  HeldByOne' /\ LifeStep
<1>0. Depth(t) > 0 /\ Top(t).op \in Requests
  BY HeldFacts DEF RequestStep, RequestStart, UnsubscribeRollback, RequestSend,
     RequestWait,
         RequestRestore, At
<1>1. /\ Len(stack[t]) = 1 /\ Top(t).op \in Calls[t] /\ Top(t).saved = "CONNECTED_IDLE"
      /\ HoldsAt(Top(t).op, Top(t).pc) =>
            CallHolds(Top(t).op, Top(t).pc, Top(t).rc, clientState, tls) /\ Alone(t)
  BY <1>0, TopHeld, HeldFacts
<1>2. UNCHANGED << tls, appDisconnected >>
  BY DEF RequestStep, RequestStart, UnsubscribeRollback, RequestSend, RequestWait,
     RequestRestore
<1>3. ASSUME Top(t).pc \in { "send", "wait", "restore" }
      PROVE  clientState = Busy(Top(t).op) /\ tls = TRUE /\ Alone(t)
  <2>1. HoldsAt(Top(t).op, Top(t).pc)
    BY <1>0, <1>3 DEF HoldsAt
  <2> QED
    BY <1>0, <1>1, <2>1 DEF CallHolds
<1>4. ASSUME NEW pc \in { "send", "wait", "restore" }, NEW rc \in Rcs, Goto(t, pc, rc),
             Alone(t), clientState' = Busy(Top(t).op), tls' = TRUE
      PROVE  HeldByOne'
  <2>1. pc \in PcsOf(Top(t).op) /\ HoldsAt(Top(t).op, pc)
    BY <1>0, PcsFacts DEF HoldsAt
  <2>2. CallHolds(Top(t).op, pc, rc, clientState', tls')
    BY <1>0, <1>4, HeldFacts DEF CallHolds
  <2> QED
    BY <1>1, <1>4, <2>1, <2>2, GotoOne
<1>5. /\ Busy(Top(t).op) \in ConnectedStates /\ "CONNECTED_IDLE" \in ConnectedStates
      /\ "SUCCESS" \in Rcs /\ "ERROR" \in Rcs
  BY <1>0, StateFacts DEF Rcs
<1>6. CASE RequestStart(t)
  <2>0. Top(t).pc = "cas" /\ ~HoldsAt(Top(t).op, Top(t).pc)
    BY <1>0, <1>6, HeldFacts DEF RequestStart, At, HoldsAt
  <2>1. CASE clientState = "CONNECTED_IDLE"
    <3>1. Alone(t) /\ tls = TRUE
      BY <2>1, IdleIsFree
    <3>2. clientState' = Busy(Top(t).op) /\ Goto(t, "send", "SUCCESS")
      BY <1>1, <1>6, <2>1 DEF RequestStart, SetClientState
    <3>3. HeldByOne'
      BY <1>2, <1>4, <1>5, <3>1, <3>2
    <3> QED
      BY <1>2, <1>5, <2>1, <3>2, <3>3, StaysConnected
  <2>2. CASE clientState # "CONNECTED_IDLE"
    <3>1. clientState' = clientState
      BY <1>1, <1>6, <2>2 DEF RequestStart, SetClientState
    <3>2. Goto(t, "rollback", "SUCCESS") \/ Return(t, "ERROR")
      BY <1>1, <1>6, <2>2 DEF RequestStart
    <3>3. ASSUME Return(t, "ERROR") PROVE HeldByOne'
      BY <1>1, <1>2, <1>5, <2>0, <3>1, <3>3, GiveUp
    <3>4. ASSUME Goto(t, "rollback", "SUCCESS") PROVE HeldByOne'
      <4> DEFINE s == stack[t]
                 r == WithTop(s, "rollback", "SUCCESS")
      <4>1. /\ s \in Seq(Frames) /\ CallsFit(t, s, clientState, tls) /\ Top(t) = s[Len(s)]
            /\ stack' = [stack EXCEPT ![t] = r] /\ Len(s) = 1 /\ Top(t) = s[1]
        BY <1>1, <3>4 DEF TypeOK, HeldByOne, Top, Depth, Goto
      <4>2. "rollback" \in PcsOf(s[1].op)
        BY <1>0, <4>1, PcsFacts
      <4>3. /\ Len(r) = 1 /\ r[1].op = s[1].op /\ r[1].pc = "rollback"
            /\ r[1].saved = s[1].saved
        BY <1>5, <4>1, <4>2, WithTopFacts
      <4> HIDE DEF s, r
      <4>4. ~Holding(s) /\ ~Holding(r) /\ ~Connecting(r)
        BY <1>0, <2>0, <4>1, <4>3, HeldFacts DEF Holding, HoldsAt, Connecting
      <4>5. CallsFit(t, r, clientState, tls)
        BY <1>1, <4>1, <4>3, <4>4 DEF CallsFit
      <4>6. Holding(r) <=> Holding(stack[t])
        BY <4>4 DEF s
      <4> QED
        BY <1>2, <3>1, <4>1, <4>5, <4>6, SilentStep
    <3>5. HeldByOne'
      BY <3>2, <3>3, <3>4
    <3> QED
      BY <1>2, <3>1, <3>5, StaysConnected
  <2> QED
    BY <2>1, <2>2
<1>7. CASE UnsubscribeRollback(t)
  <2>1. /\ Top(t).op = "unsubscribe" /\ Top(t).pc = "rollback"
        /\ Return(t, RestoreRc("SUCCESS", Busy("unsubscribe")))
    BY <1>7 DEF UnsubscribeRollback, At
  <2>2. ~HoldsAt(Top(t).op, Top(t).pc)
    BY <2>1, HeldFacts DEF HoldsAt
  <2>3. clientState # Busy("unsubscribe")
    <3> SUFFICES ASSUME clientState = Busy("unsubscribe") PROVE FALSE
      OBVIOUS
    <3>1. PICK u \in Threads : Holding(stack[u])
      BY HeldFacts DEF HeldByOne, Resting
    <3>2. stack[u] \in Seq(Frames) /\ CallsFit(u, stack[u], clientState, tls)
      BY DEF TypeOK, HeldByOne
    <3>3. stack[u][1].op = "unsubscribe" /\ Len(stack[u]) > 0
      BY <3>1, <3>2, HeldIsBusy DEF Holding
    <3>4. "unsubscribe" \in Calls[u] /\ "unsubscribe" \in Calls[t]
      BY <1>1, <2>1, <3>2, <3>3 DEF CallsFit
    <3>5. u = t
      BY <3>4 DEF SharedUse
    <3> QED
      BY <1>1, <2>2, <3>1, <3>5 DEF Holding, Top, Depth
  <2>4. clientState' = clientState
    BY <1>7, <2>3 DEF UnsubscribeRollback, SetClientState
  <2>5. RestoreRc("SUCCESS", Busy("unsubscribe")) \in Rcs
    BY DEF RestoreRc, Rcs
  <2>6. HeldByOne'
    BY <1>1, <1>2, <2>1, <2>2, <2>4, <2>5, GiveUp
  <2> QED
    BY <1>2, <2>4, <2>6, StaysConnected
<1>8. CASE RequestSend(t) \/ RequestWait(t)
  <2>1. Top(t).pc \in { "send", "wait", "restore" } /\ clientState' = clientState
    BY <1>8 DEF RequestSend, RequestWait, At
  <2>2. \E pc \in { "send", "wait", "restore" }, rc \in Rcs : Goto(t, pc, rc)
    BY <1>5, <1>8 DEF RequestSend, RequestWait, SharedUse
  <2>3. HeldByOne'
    BY <1>2, <1>3, <1>4, <2>1, <2>2
  <2> QED
    BY <1>2, <2>1, <2>3, StaysConnected
<1>9. CASE RequestRestore(t)
  <2>1. /\ Top(t).pc = "restore" /\ Return(t, RestoreRc(Top(t).rc, Busy(Top(t).op)))
    BY <1>9 DEF RequestRestore, At
  <2>2. clientState = Busy(Top(t).op) /\ tls = TRUE /\ Alone(t)
    BY <1>3, <2>1
  <2>3. clientState' = "CONNECTED_IDLE" /\ tls' = TRUE
    BY <1>1, <1>2, <1>9, <2>2 DEF RequestRestore, SetClientState
  <2>4. Resting(clientState', tls')
    BY <2>3 DEF Resting, Idle
  <2>5. RestoreRc(Top(t).rc, Busy(Top(t).op)) \in Rcs
    BY <1>0, <1>5, TopType DEF RestoreRc
  <2>6. HeldByOne'
    BY <1>1, <2>1, <2>2, <2>4, <2>5, ReturnOne
  <2> QED
    BY <1>2, <1>5, <2>2, <2>3, <2>6, StaysConnected
<1> QED
  BY <1>6, <1>7, <1>8, <1>9 DEF RequestStep

\* Steps of yield, of a client that does not reconnect.
LEMMA YieldHeld ==
    ASSUME TypeOK, HeldByOne, ~autoReconnect, NEW bg, SharedUse(bg), NEW t \in Threads,
           YieldStep(t)
    PROVE  HeldByOne' /\ LifeStep
<1>0. Depth(t) > 0 /\ Top(t).op = "yield" /\ UNCHANGED appDisconnected
  BY DEF YieldStep, YieldStart, YieldLoop, YieldReconnect, YieldReconnected, YieldRead,
         YieldDelivered, KeepAlive, HandleDisconnect, HandleDisconnectResult,
         ForceClientDisconnect, DisconnectHandlerReturn, YieldLost, YieldAgain, YieldExit, At
<1>1. /\ Len(stack[t]) = 1
      /\ HoldsAt("yield", Top(t).pc) =>
            CallHolds("yield", Top(t).pc, Top(t).rc, clientState, tls) /\ Alone(t)
  BY <1>0, TopHeld
<1>2. ASSUME Top(t).pc # "cas"
      PROVE  Alone(t) /\ YieldHolds(Top(t).pc, Top(t).rc, clientState, tls)
  <2>1. HoldsAt("yield", Top(t).pc)
    BY <1>2 DEF HoldsAt
  <2> QED
    BY <1>1, <2>1 DEF CallHolds
<1>3. ASSUME NEW pc \in PcsOf("yield"), pc # "cas", NEW rc \in Rcs, Goto(t, pc, rc),
             Alone(t), YieldHolds(pc, rc, clientState', tls')
      PROVE  HeldByOne'
  <2>1. HoldsAt("yield", pc)
    BY <1>3 DEF HoldsAt
  <2>2. CallHolds("yield", pc, rc, clientState', tls')
    BY <1>3, HeldFacts DEF CallHolds
  <2> QED
    BY <1>0, <1>1, <1>3, <2>1, <2>2, GotoOne
<1>4. /\ Busy("yield") \in ConnectedStates /\ "CONNECTED_IDLE" \in ConnectedStates
      /\ Busy("yield") # "PENDING_RECONNECT"
      /\ { "SUCCESS", "ERROR", "NETWORK_DISCONNECTED_ERROR" } \subseteq Rcs
      /\ "SUCCESS" \notin LostRcs /\ "ERROR" \notin LostRcs
      /\ "NETWORK_DISCONNECTED_ERROR" \in LostRcs
  BY StateFacts DEF Rcs, LostRcs
\* The places where yield owns the state, and goes on.
<1>5. ASSUME NEW pc \in { "loop", "read", "keep_alive", "disconnect", "again" }, NEW rc \in Rcs,
             rc \notin LostRcs, Goto(t, pc, rc), Alone(t),
             clientState' = Busy("yield"), tls' = TRUE
      PROVE  HeldByOne'
  <2>1. YieldHolds(pc, rc, clientState', tls')
    BY <1>5 DEF YieldHolds, InYield
  <2> QED
    BY <1>3, <1>5, <2>1, PcsFacts
<1>6. ASSUME NEW rc \in Rcs, rc \notin LostRcs, Goto(t, "exit", rc), Alone(t),
             clientState' = Busy("yield"), tls' = TRUE
      PROVE  HeldByOne'
  <2>1. YieldHolds("exit", rc, clientState', tls')
    BY <1>6 DEF YieldHolds, InYield
  <2> QED
    BY <1>3, <1>6, <2>1, PcsFacts
<1>7. CASE YieldStart(t)
  <2>0. Top(t).pc = "cas" /\ ~HoldsAt(Top(t).op, Top(t).pc) /\ tls' = tls
    BY <1>0, <1>7, HeldFacts DEF YieldStart, At, HoldsAt
  <2>1. CASE clientState = "CONNECTED_IDLE"
    <3>1. Alone(t) /\ tls = TRUE
      BY <2>1, IdleIsFree
    <3>2. clientState' = Busy("yield") /\ Goto(t, "loop", "SUCCESS")
      BY <1>7, <2>1 DEF YieldStart, SetClientState
    <3>3. HeldByOne'
      BY <1>4, <1>5, <2>0, <3>1, <3>2
    <3> QED
      BY <1>0, <1>4, <2>0, <2>1, <3>2, <3>3, StaysConnected
  <2>2. CASE clientState # "CONNECTED_IDLE"
    <3>1. clientState' = clientState /\ Return(t, "ERROR")
      BY <1>7, <2>2 DEF YieldStart, SetClientState
    <3>2. HeldByOne'
      BY <1>1, <1>4, <2>0, <3>1, GiveUp
    <3> QED
      BY <1>0, <2>0, <3>1, <3>2, StaysConnected
  <2> QED
    BY <2>1, <2>2
<1>8. CASE YieldLoop(t) \/ YieldRead(t) \/ KeepAlive(t)
  <2>1. /\ Top(t).pc \in { "loop", "read", "keep_alive" }
        /\ UNCHANGED << clientState, tls >>
    BY <1>8 DEF YieldLoop, YieldRead, KeepAlive, At
  <2>2. Alone(t) /\ YieldHolds(Top(t).pc, Top(t).rc, clientState, tls)
    BY <1>2, <2>1
  <2>3. clientState = Busy("yield") /\ tls = TRUE
    BY <2>1, <2>2 DEF YieldHolds, InYield
  <2>4. \/ \E pc \in { "loop", "read", "keep_alive", "disconnect", "again" } :
              Goto(t, pc, "SUCCESS")
        \/ Goto(t, "exit", "ERROR")
    BY <1>4, <1>8, <2>3 DEF YieldLoop, YieldRead, KeepAlive, SharedUse
  <2>5. HeldByOne'
    BY <1>4, <1>5, <1>6, <2>1, <2>2, <2>3, <2>4
  <2> QED
    BY <1>0, <2>1, <2>5, StaysConnected
<1>9. CASE YieldAgain(t)
  <2>1. Top(t).pc = "again" /\ UNCHANGED << clientState, tls >>
    BY <1>9 DEF YieldAgain, At
  <2>2. Alone(t) /\ YieldHolds(Top(t).pc, Top(t).rc, clientState, tls)
    BY <1>2, <2>1
  <2>3. clientState = Busy("yield") /\ tls = TRUE /\ Top(t).rc \notin LostRcs
    BY <2>1, <2>2 DEF YieldHolds, InYield
  <2>4. Top(t).rc \in Rcs
    BY <1>0, TopType
  <2>5. Goto(t, "loop", "SUCCESS") \/ Goto(t, "exit", Top(t).rc)
    BY <1>9 DEF YieldAgain
  <2>6. HeldByOne'
    BY <1>4, <1>5, <1>6, <2>1, <2>2, <2>3, <2>4, <2>5
  <2> QED
    BY <1>0, <2>1, <2>6, StaysConnected
<1>10. CASE YieldReconnect(t) \/ YieldReconnected(t) \/ YieldDelivered(t)
  <2>1. Top(t).pc \in { "reconnect", "reconnected", "delivered" }
    BY <1>10 DEF YieldReconnect, YieldReconnected, YieldDelivered, At
  <2> QED
    BY <1>2, <2>1 DEF YieldHolds
<1>11. CASE HandleDisconnect(t)
  <2>1. /\ Top(t).pc = "disconnect" /\ UNCHANGED << clientState, tls >>
        /\ Invoke(t, "after_disconnect", Frame("disconnect", "check", clientState))
    BY <1>11 DEF HandleDisconnect, At
  <2>2. Alone(t) /\ YieldHolds(Top(t).pc, Top(t).rc, clientState, tls)
    BY <1>2, <2>1
  <2>3. InYield(clientState, tls)
    BY <2>1, <2>2 DEF YieldHolds
  <2>4. HeldByOne'
    BY <1>0, <1>1, <2>1, <2>2, <2>3, InvokeOne
  <2> QED
    BY <1>0, <2>1, <2>4, StaysConnected
<1>12. CASE HandleDisconnectResult(t)
  <2>1. Top(t).pc = "after_disconnect" /\ tls' = tls
    BY <1>12 DEF HandleDisconnectResult, At
  <2>2. Alone(t) /\ YieldHolds("after_disconnect", Top(t).rc, clientState, tls)
    BY <1>2, <2>1
  <2>3. CASE Top(t).rc = "SUCCESS"
    <3>1. clientState = "DISCONNECTED_MANUALLY" /\ tls = FALSE
      BY <2>2, <2>3 DEF YieldHolds
    <3>2. clientState' = clientState /\ Goto(t, "handler", "SUCCESS")
      BY <1>12, <2>3 DEF HandleDisconnectResult
    <3>3. YieldHolds("handler", "SUCCESS", clientState', tls')
      BY <2>1, <3>1, <3>2 DEF YieldHolds
    <3>4. HeldByOne'
      BY <1>3, <1>4, <2>2, <3>2, <3>3, PcsFacts
    <3> QED
      BY <1>0, <2>1, <3>2, <3>4, StaysConnected
  <2>4. CASE Top(t).rc # "SUCCESS"
    <3>1. clientState = Busy("yield") /\ tls = TRUE
      BY <2>2, <2>4 DEF YieldHolds, InYield
    <3>2. clientState' = "DISCONNECTED_ERROR" /\ Goto(t, "force", "SUCCESS")
      BY <1>12, <2>4 DEF HandleDisconnectResult
    <3>3. YieldHolds("force", "SUCCESS", clientState', tls')
      BY <3>2 DEF YieldHolds
    <3>4. HeldByOne'
      BY <1>3, <1>4, <2>2, <3>2, <3>3, PcsFacts
    <3>5. LoseStep
      BY <1>4, <2>1, <3>1, <3>2 DEF LoseStep
    <3> QED
      BY <1>0, <3>4, <3>5 DEF LifeStep
  <2> QED
    BY <2>3, <2>4
<1>13. CASE ForceClientDisconnect(t)
  <2>1. /\ Top(t).pc = "force" /\ Goto(t, "handler", "SUCCESS") /\ tls' = FALSE
        /\ clientState' = clientState
    BY <1>13 DEF ForceClientDisconnect, At
  <2>2. Alone(t) /\ YieldHolds("force", Top(t).rc, clientState, tls)
    BY <1>2, <2>1
  <2>3. clientState = "DISCONNECTED_ERROR"
    BY <2>2 DEF YieldHolds
  <2>4. YieldHolds("handler", "SUCCESS", clientState', tls')
    BY <2>1, <2>3 DEF YieldHolds
  <2>5. HeldByOne'
    BY <1>3, <1>4, <2>1, <2>2, <2>4, PcsFacts
  <2>6. ReleaseStep
    BY <2>1, <2>3 DEF ReleaseStep
  <2> QED
    BY <1>0, <2>5, <2>6 DEF LifeStep
<1>14. CASE DisconnectHandlerReturn(t)
  <2>1. /\ Top(t).pc = "handler" /\ Goto(t, "lost", "SUCCESS") /\ tls' = tls
        /\ clientState' = "DISCONNECTED_ERROR"
    BY <1>14 DEF DisconnectHandlerReturn, At
  <2>2. Alone(t) /\ YieldHolds("handler", Top(t).rc, clientState, tls)
    BY <1>2, <2>1
  <2>3. clientState \in { "DISCONNECTED_MANUALLY", "DISCONNECTED_ERROR" } /\ tls = FALSE
    BY <2>2 DEF YieldHolds
  <2>4. YieldHolds("lost", "SUCCESS", clientState', tls')
    BY <2>1, <2>3 DEF YieldHolds
  <2>5. HeldByOne'
    BY <1>3, <1>4, <2>1, <2>2, <2>4, PcsFacts
  <2>6. CASE clientState = "DISCONNECTED_ERROR"
    BY <1>0, <2>1, <2>5, <2>6, StaysConnected
  <2>7. CASE clientState = "DISCONNECTED_MANUALLY"
    <3>1. LoseStep
      BY <2>1, <2>7 DEF LoseStep
    <3> QED
      BY <1>0, <2>5, <3>1 DEF LifeStep
  <2> QED
    BY <2>3, <2>6, <2>7
<1>15. CASE YieldLost(t)
  <2>1. /\ Top(t).pc = "lost" /\ Goto(t, "exit", "NETWORK_DISCONNECTED_ERROR")
        /\ UNCHANGED << clientState, tls >>
    BY <1>15 DEF YieldLost, At
  <2>2. Alone(t) /\ YieldHolds("lost", Top(t).rc, clientState, tls)
    BY <1>2, <2>1
  <2>3. clientState = "DISCONNECTED_ERROR" /\ tls = FALSE
    BY <2>2 DEF YieldHolds
  <2>4. YieldHolds("exit", "NETWORK_DISCONNECTED_ERROR", clientState', tls')
    BY <1>4, <2>1, <2>3 DEF YieldHolds
  <2>5. HeldByOne'
    BY <1>3, <1>4, <2>1, <2>2, <2>4, PcsFacts
  <2> QED
    BY <1>0, <2>1, <2>5, StaysConnected
<1>16. CASE YieldExit(t)
  <2>1. Top(t).pc = "exit" /\ tls' = tls
    BY <1>16 DEF YieldExit, At
  <2>2. Alone(t) /\ YieldHolds("exit", Top(t).rc, clientState, tls)
    BY <1>2, <2>1
  <2>3. Top(t).rc \in Rcs
    BY <1>0, TopType
  <2>4. CASE Top(t).rc \in LostRcs
    <3>1. clientState = "DISCONNECTED_ERROR" /\ tls = FALSE
      BY <2>2, <2>4 DEF YieldHolds
    <3>2. clientState' = clientState /\ Return(t, Top(t).rc)
      BY <1>16, <2>4 DEF YieldExit, LostRcs
    <3>3. Resting(clientState', tls')
      BY <2>1, <3>1, <3>2 DEF Resting, Idle
    <3>4. HeldByOne'
      BY <1>1, <2>2, <2>3, <3>2, <3>3, ReturnOne
    <3> QED
      BY <1>0, <2>1, <3>2, <3>4, StaysConnected
  <2>5. CASE Top(t).rc \notin LostRcs
    <3>1. clientState = Busy("yield") /\ tls = TRUE
      BY <2>2, <2>5 DEF YieldHolds, InYield
    <3>2. clientState' = "CONNECTED_IDLE" /\ Return(t, RestoreRc(Top(t).rc, Busy("yield")))
      BY <1>16, <2>5, <3>1 DEF YieldExit, LostRcs, SetClientState
    <3>3. Resting(clientState', tls')
      BY <2>1, <3>1, <3>2 DEF Resting, Idle
    <3>4. RestoreRc(Top(t).rc, Busy("yield")) \in Rcs
      BY <1>4, <2>3 DEF RestoreRc
    <3>5. HeldByOne'
      BY <1>1, <2>2, <3>2, <3>3, <3>4, ReturnOne
    <3> QED
      BY <1>0, <1>4, <2>1, <3>1, <3>2, <3>5, StaysConnected
  <2> QED
    BY <2>4, <2>5
<1> QED
  BY <1>7, <1>8, <1>9, <1>10, <1>11, <1>12, <1>13, <1>14, <1>15, <1>16 DEF YieldStep

\* Steps that begin a call.
LEMMA AppCallHeld ==
    ASSUME TypeOK, HeldByOne, NEW bg, SharedUse(bg), NEW t \in Threads, AppCall(t)
    PROVE  HeldByOne' /\ LifeStep
<1>1. ASSUME NEW op, MayCall(t, op)
      PROVE  Len(stack[t]) = 0 /\ op \in Calls[t] /\ op \in Requests \cup { "connect", "yield" }
  <2>1. ASSUME Depth(t) > 0 PROVE Top(t).pc # "callback"
    <3>1. Top(t).op \in Requests \cup { "connect", "yield", "disconnect" }
      BY <2>1, TopHeld
    <3>2. Top(t).pc \in PcsOf(Top(t).op)
      BY <2>1, TopType
    <3> QED
      BY <3>1, <3>2, PcsFacts
  <2>2. HandlerCalls = {}
    BY DEF SharedUse, HandlerSilent
  <2>3. Depth(t) = 0 /\ op \in Calls[t]
    BY <1>1, <2>1, <2>2 DEF MayCall
  <2> QED
    BY <2>3 DEF Depth, SharedUse
<1>2. clientState \notin { "CONNECTED_WAIT_FOR_CB_RETURN", "PENDING_RECONNECT" }
  <2>1. CASE \E u \in Threads : Holding(stack[u])
    <3>1. PICK u \in Threads : Holding(stack[u])
      BY <2>1
    <3>2. stack[u] \in Seq(Frames) /\ CallsFit(u, stack[u], clientState, tls)
      BY DEF TypeOK, HeldByOne
    <3> QED
      BY <3>1, <3>2, HeldIsBusy
  <2>2. CASE Resting(clientState, tls)
    BY <2>2 DEF Resting, Idle
  <2> QED
    BY <2>1, <2>2 DEF HeldByOne
<1>3. ASSUME NEW op \in Requests \cup { "connect", "yield" }, MayCall(t, op),
             NEW saved \in ClientStates, Push(t, Frame(op, "cas", saved)),
             UNCHANGED << clientState, tls >>,
             op \in Requests => saved = "CONNECTED_IDLE",
             op = "connect" =>
                clientState = saved /\ clientState \in Idle \ { "CONNECTED_IDLE" }
      PROVE  HeldByOne'
  <2>1. op \in Ops /\ "cas" \in PcsOf(op)
    BY PcsFacts DEF Ops
  <2>2. /\ Frame(op, "cas", saved) \in Frames /\ Frame(op, "cas", saved).op = op
        /\ Frame(op, "cas", saved).pc = "cas" /\ Frame(op, "cas", saved).saved = saved
    BY <2>1, FrameFacts
  <2>3. Len(stack[t]) = 0 /\ op \in Calls[t]
    BY <1>1, <1>3
  <2> QED
    BY <1>3, <2>2, <2>3, PushOne
<1>4. "CONNECTED_IDLE" \in ClientStates /\ clientState \in ClientStates
  BY DEF TypeOK, ClientStates
<1>5. CASE CallConnect(t)
  <2>1. /\ MayCall(t, "connect") /\ Push(t, Frame("connect", "cas", clientState))
        /\ ValidForConnect(clientState) /\ appDisconnected' = FALSE
        /\ UNCHANGED << clientState, tls >>
    BY <1>5 DEF CallConnect
  <2>2. clientState \in Idle \ { "CONNECTED_IDLE" }
    BY <1>2, <2>1 DEF ValidForConnect, Idle
  <2>3. HeldByOne'
    BY <1>3, <1>4, <2>1, <2>2, HeldFacts
  <2>4. AskStep
    BY <2>1 DEF AskStep, ValidForConnect
  <2> QED
    BY <2>3, <2>4 DEF LifeStep
<1>6. CASE CallPublish(t) \/ CallSubscribe(t) \/ CallUnsubscribe(t) \/ CallResubscribe(t)
           \/ CallYield(t)
  <2>1. /\ UNCHANGED << clientState, tls, appDisconnected >>
        /\ \E op \in Requests \cup { "yield" } :
              MayCall(t, op) /\ Push(t, Frame(op, "cas", "CONNECTED_IDLE"))
    BY <1>2, <1>6 DEF CallPublish, CallSubscribe, CallUnsubscribe, CallResubscribe,
       CallYield,
                      ReadyForRequest, Requests
  <2>2. HeldByOne'
    BY <1>3, <1>4, <2>1, HeldFacts
  <2> QED
    BY <2>1, <2>2, StaysConnected
<1>7. CASE CallDisconnect(t) \/ CallAttemptReconnect(t) \/ SetAutoReconnect(t)
  <2>1. \E op \in { "disconnect", "attempt_reconnect", "autoreconnect_set_status" } :
           MayCall(t, op)
    BY <1>7 DEF CallDisconnect, CallAttemptReconnect, SetAutoReconnect
  <2> QED
    BY <1>1, <2>1 DEF Requests
<1> QED
  BY <1>5, <1>6, <1>7 DEF AppCall

\* Every step of every thread.
LEMMA StepHeld ==
    ASSUME TypeOK, HeldByOne, ~autoReconnect, NEW bg, SharedUse(bg), [Next]_vars
    PROVE  HeldByOne' /\ LifeStep
<1>1. CASE UNCHANGED vars
  <2>1. UNCHANGED << clientState, tls, stack, appDisconnected >>
    BY <1>1 DEF vars
  <2>2. HeldByOne'
    BY <2>1 DEF HeldByOne
  <2> QED
    BY <2>1, <2>2, StaysConnected
<1>2. CASE Next
  <2>1. PICK t \in Threads : ThreadStep(t)
    BY <1>2 DEF Next
  <2>2. CASE AttemptStep(t) \/ DeliverStep(t)
    <3>1. Depth(t) > 0 /\ Top(t).op \in { "attempt_reconnect", "deliver" }
      BY <2>2 DEF AttemptStep, AttemptConnect, AttemptAfterConnect, AttemptPending,
                  AttemptResubscribe, AttemptAfterResubscribe, DeliverStep, DeliverStart,
                  DeliverReturn, At
    <3> QED
      BY <3>1, TopHeld DEF Requests
  <2> QED
    BY <2>1, <2>2, AppCallHeld, ConnectHeld, DisconnectHeld, RequestHeld, YieldHeld
       DEF ThreadStep
<1> QED
  BY <1>1, <1>2

\* Of the threads that share a client one at most reads the network at a time.
LEMMA HolderReads ==
    ASSUME HeldByOne
    PROVE  \A t, u \in Threads : Reading(t) /\ Reading(u) => t = u
<1>1. ASSUME NEW t \in Threads, Reading(t) PROVE Holding(stack[t])
  <2>1. PICK i \in 1..Len(stack[t]) :
           \/ stack[t][i].op \in Requests /\ stack[t][i].pc = "wait"
           \/ stack[t][i].op = "yield" /\ stack[t][i].pc = "read"
    BY <1>1 DEF Reading, Depth
  <2>2. Len(stack[t]) \in 0..2
    BY DEF HeldByOne, CallsFit
  <2>3. CASE Len(stack[t]) = 1
    <3>1. i = 1
      BY <2>3
    <3>2. HoldsAt(stack[t][1].op, stack[t][1].pc)
      BY <2>1, <3>1 DEF HoldsAt
    <3> QED
      BY <2>3, <3>2 DEF Holding
  <2>4. CASE Len(stack[t]) = 2
    BY <2>4 DEF Holding
  <2> QED
    BY <2>2, <2>3, <2>4
<1> QED
  BY <1>1 DEF HeldByOne

\* A client starts out idle.
LEMMA InitHeld ==
    ASSUME Init
    PROVE  HeldByOne
<1>1. /\ clientState = "INITIALIZED" /\ tls = FALSE
      /\ \A t \in Threads : Len(stack[t]) = 0
  BY DEF Init
<1>2. \A t \in Threads : ~Holding(stack[t]) /\ ~Connecting(stack[t])
  BY <1>1 DEF Holding, Connecting
<1>3. \A t \in Threads : CallsFit(t, stack[t], clientState, tls)
  BY <1>1, <1>2 DEF CallsFit
<1>4. Resting(clientState, tls)
  BY <1>1 DEF Resting, Idle
<1> QED
  BY <1>2, <1>3, <1>4 DEF HeldByOne

\* Any number of threads that use the client in this way never wait for two answers
\* at once, so no thread consumes the acknowledgement another one waits for: the
\* compare-and-set lets one call at a time through to the network.
THEOREM SharedUseOneReader ==
    ASSUME NEW bg, SharedUse(bg)
    PROVE  Spec => []OneReader
<1>1. Init => StaysPlain /\ OneHolder
  <2> SUFFICES ASSUME Init PROVE StaysPlain /\ OneHolder
    OBVIOUS
  <2>1. StaysPlain
    BY DEF Init, StaysPlain, PlainStacks
  <2> QED
    BY <2>1, InitHeld DEF OneHolder
<1>2. TypeOK /\ StaysPlain /\ OneHolder /\ [Next]_vars => StaysPlain' /\ OneHolder'
  <2> SUFFICES ASSUME TypeOK, StaysPlain, OneHolder, [Next]_vars
               PROVE  StaysPlain' /\ OneHolder'
    OBVIOUS
  <2>1. StaysPlain' /\ UNCHANGED autoReconnect
    BY StepPlain DEF SharedUse
  <2>2. ~autoReconnect => HeldByOne'
    BY StepHeld DEF OneHolder
  <2> QED
    BY <2>1, <2>2 DEF OneHolder
<1>3. OneHolder => OneReader
  BY HolderReads DEF OneHolder, OneReader
<1> QED
  BY <1>1, <1>2, <1>3, TypeCorrect, PTL DEF Spec

\* If the client does not reconnect by itself, no sequence of calls of these threads
\* leaves it refusing to yield,
THEOREM SharedUseNotStuck ==
    ASSUME NEW bg, SharedUse(bg), EnableAutoReconnect \subseteq {FALSE}
    PROVE  Spec => []NotIdleMeansInProgress
<1> DEFINE Off == ~autoReconnect
<1>1. Init => StaysPlain /\ HeldByOne /\ Off
  <2> SUFFICES ASSUME Init PROVE StaysPlain /\ HeldByOne /\ Off
    OBVIOUS
  <2>1. StaysPlain
    BY DEF Init, StaysPlain, PlainStacks
  <2>2. Off
    BY DEF Init
  <2> QED
    BY <2>1, <2>2, InitHeld
<1>2. TypeOK /\ StaysPlain /\ HeldByOne /\ Off /\ [Next]_vars
      => StaysPlain' /\ HeldByOne' /\ Off'
  BY StepPlain, StepHeld DEF SharedUse
<1>3. HeldByOne => NotIdleMeansInProgress
  <2> SUFFICES ASSUME HeldByOne, \A t \in Threads : Depth(t) = 0
               PROVE  clientState \in Quiescent
    BY DEF NotIdleMeansInProgress
  <2>1. \A t \in Threads : ~Holding(stack[t])
    BY DEF Depth, Holding
  <2>2. Resting(clientState, tls)
    BY <2>1 DEF HeldByOne
  <2> QED
    BY <2>2 DEF Resting, Idle, Quiescent
<1> QED
  BY <1>1, <1>2, <1>3, TypeCorrect, PTL DEF Spec

\* and its state and TLS context go through the life of one connection.
THEOREM SharedUseContract ==
    ASSUME NEW bg, SharedUse(bg), EnableAutoReconnect \subseteq {FALSE}
    PROVE  Spec => ImplementsConnection
<1> DEFINE Off == ~autoReconnect
<1>1. Init => StaysPlain /\ HeldByOne /\ Off /\ Contract!Init
  <2> SUFFICES ASSUME Init PROVE StaysPlain /\ HeldByOne /\ Off /\ Contract!Init
    OBVIOUS
  <2>1. StaysPlain
    BY DEF Init, StaysPlain, PlainStacks
  <2>2. Off
    BY DEF Init
  <2>3. Contract!Init
    BY PhaseFacts DEF Init, Contract!Init
  <2> QED
    BY <2>1, <2>2, <2>3, InitHeld
<1>2. TypeOK /\ StaysPlain /\ HeldByOne /\ Off /\ [Next]_vars
      => StaysPlain' /\ HeldByOne' /\ Off'
  BY StepPlain, StepHeld DEF SharedUse
<1>3. TypeOK /\ HeldByOne /\ Off /\ [Next]_vars => [Contract!Next]_Contract!connectionVars
  <2> SUFFICES ASSUME TypeOK, HeldByOne, Off, [Next]_vars
               PROVE  [Contract!Next]_Contract!connectionVars
    OBVIOUS
  <2>1. LifeStep /\ tls \in BOOLEAN
    BY StepHeld DEF TypeOK
  <2> QED
    BY <2>1, LifeRefines
<1> QED
  BY <1>1, <1>2, <1>3, TypeCorrect, PTL DEF Spec, ImplementsConnection, Contract!Spec
=============================================================================
