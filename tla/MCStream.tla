------------------------------ MODULE MCStream ------------------------------
(***************************************************************************)
(* An instance of PacketStream, with the choice of the handlers a message   *)
(* is for.  The lengths lie on both sides of the steps of the encoding and  *)
(* of the size of the buffers.                                              *)
(***************************************************************************)
EXTENDS PacketStream, TopicFilter

Lengths == { 0, 2, 127, 128, 199, 200, 401, 16383, 16384 }

\* With a write buffer of 131 bytes: the longest packet with a length of one
\* byte, which is the longest that is sent; the shortest with two, which fills the
\* buffer; and longer ones.
Packets ==
    { Publish(3, 122, 0), Publish(3, 121, 1), Publish(3, 122, 1),
      Subscribe(<< 5, 7 >>), Unsubscribe(<< 5, 7 >>), Unsubscribe(<< 60, 63 >>),
      ConnectPacket(0, << >>, << >>, << >>),
      ConnectPacket(6, << 4, 9 >>, << 3 >>, << 8 >>),
      ConnectPacket(20, << 40, 54 >>, << >>, << >>), Ack, Zero }

\* What an uninitialized int may hold: nothing, a byte, a negative number.
AnyRet == { 0, 1, -1 }

\* A message that was read goes to the subscriptions whose filters cover its
\* topic and to no other: no filter matches a topic that MQTT keeps from it, and
\* the ones that miss a topic are those with a wildcard in place of nothing.
TopicsMatch == result = "SUCCESS" => MatchAgrees

=============================================================================
