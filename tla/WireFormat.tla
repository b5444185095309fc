----------------------------- MODULE WireFormat -----------------------------
(***************************************************************************)
(* The lengths in an MQTT packet as the client computes, writes and reads  *)
(* them.  A packet is a header byte, its remaining length in one to four   *)
(* bytes of seven bits each, and fields; of a field only its width counts. *)
(***************************************************************************)
EXTENDS Integers, Sequences, Functions, FiniteSetsExt

\* MAX_NO_OF_REMAINING_LENGTH_BYTES
MaxLengthBytes == 4

\* aws_iot_mqtt_internal_write_len_to_buffer: low digit first, with the top bit
\* set on all digits but the last.
WriteLen[n \in Nat] ==
    IF n < 128 THEN << n >> ELSE << (n % 128) + 128 >> \o WriteLen[n \div 128]

\* aws_iot_mqtt_internal_decode_remaining_length_from_buffer, up to the first
\* byte without the top bit.
DecodedBytes(bytes) == Min({ i \in 1..Len(bytes) : bytes[i] < 128 })

DecodeLen(bytes) ==
    IF DecodedBytes(bytes) > MaxLengthBytes THEN -1
    ELSE LET value[i \in 0..MaxLengthBytes] ==
                 IF i = 0 THEN 0 ELSE value[i - 1] + (bytes[i] % 128) * 128^(i - 1)
         IN  value[DecodedBytes(bytes)]

\* Mutant: the thresholds are those of the remaining length, one is added last.
FinalPacketLengthShort(n) ==
    CASE n <= 128 -> n + 2
      [] n > 128 /\ n <= 16384 -> n + 3
      [] n > 16384 /\ n <= 2097152 -> n + 4
      [] OTHER -> n + 5

\* get_final_packet_length_from_remaining_length compares after it has added
\* the header byte.
FinalPacketLength(n) ==
    LET m == n + 1
    IN  CASE m < 128 -> m + 1
          [] m >= 128 /\ m < 16384 -> m + 2
          [] m >= 16384 /\ m < 2097152 -> m + 3
          [] OTHER -> m + 4

\* aws_iot_mqtt_internal_write_uint_16 and _read_uint16_t
WriteUint16(n) == << (n % 65536) \div 256, n % 256 >>

ReadUint16(bytes) == bytes[2] + 256 * bytes[1]

-----------------------------------------------------------------------------
(* The packets a client builds, by the lengths of their parts.  will is      *)
(* empty or has the lengths of topic and message, user and password are     *)
(* empty or have one length.                                               *)

Publish(topic, payload, qos) ==
    [type |-> "PUBLISH", topics |-> << topic >>, payload |-> payload, qos |-> qos]
Subscribe(topics) == [type |-> "SUBSCRIBE", topics |-> topics]
Unsubscribe(topics) == [type |-> "UNSUBSCRIBE", topics |-> topics]
ConnectPacket(id, will, user, password) ==
    [type |-> "CONNECT", id |-> id, will |-> will, user |-> user, password |-> password]
Ack == [type |-> "PUBACK"]
Zero == [type |-> "PINGREQ"]

\* What the client may be asked to send: the parts have lengths, a will has two of
\* them, a user and a password one.
IsPacket(p) ==
    \/ /\ p.type = "PUBLISH" /\ p = Publish(p.topics[1], p.payload, p.qos)
       /\ { p.topics[1], p.payload, p.qos } \subseteq Nat
    \/ p.type = "SUBSCRIBE" /\ p = Subscribe(p.topics) /\ p.topics \in Seq(Nat)
    \/ p.type = "UNSUBSCRIBE" /\ p = Unsubscribe(p.topics) /\ p.topics \in Seq(Nat)
    \/ /\ p.type = "CONNECT" /\ p = ConnectPacket(p.id, p.will, p.user, p.password)
       /\ p.id \in Nat /\ p.will \in Seq(Nat) /\ Len(p.will) \in { 0, 2 }
       /\ { p.user, p.password } \subseteq Seq(Nat)
       /\ { Len(p.user), Len(p.password) } \subseteq { 0, 1 }
    \/ p \in { Ack, Zero }

Total(widths) == SumFunction(widths)

\* a length in two bytes, then the text
StringsOf(lengths) == [i \in 1..(2 * Len(lengths)) |->
                          IF i % 2 = 1 THEN 2 ELSE lengths[i \div 2]]

\* Mutant: the length of a will forgets the two bytes in front of its message.
WillLengthShort(p) == IF p.will = << >> THEN 0 ELSE p.will[1] + 2 + p.will[2]

WillLength(p) == IF p.will = << >> THEN 0 ELSE p.will[1] + 2 + p.will[2] + 2

OptionLength(option) == IF option = << >> THEN 0 ELSE option[1] + 2

\* The remaining length each serializer computes before it writes.
RemainingLength(p) ==
    CASE p.type = "PUBLISH" ->
            p.topics[1] + p.payload + 2 + (IF p.qos > 0 THEN 2 ELSE 0)
      [] p.type = "SUBSCRIBE" -> 2 + Total(p.topics) + 3 * Len(p.topics)
      [] p.type = "UNSUBSCRIBE" -> 2 + Total(p.topics) + 2 * Len(p.topics)
      [] p.type = "CONNECT" ->
            10 + p.id + 2 + WillLength(p) + OptionLength(p.user)
               + OptionLength(p.password)
      [] p.type = "PUBACK" -> 2
      [] p.type = "PINGREQ" -> 0

\* The fields it then writes: protocol name, version, flags, keep-alive and
\* client identifier come first in CONNECT.
Fields(p) ==
    CASE p.type = "PUBLISH" ->
            StringsOf(p.topics) \o (IF p.qos > 0 THEN << 2 >> ELSE << >>)
                \o << p.payload >>
      [] p.type = "SUBSCRIBE" ->
            << 2 >> \o StringsOf(p.topics) \o [i \in DOMAIN p.topics |-> 1]
      [] p.type = "UNSUBSCRIBE" -> << 2 >> \o StringsOf(p.topics)
      [] p.type = "CONNECT" ->
            << 2, 4, 1, 1, 2 >>
                \o StringsOf(<< p.id >> \o p.will \o p.user \o p.password)
      [] p.type = "PUBACK" -> << 2 >>
      [] p.type = "PINGREQ" -> << >>

\* deserialize_publish: the payload is what the topic and, with QoS 1, the packet
\* identifier leave of the remaining length.
PayloadLen(decodedLen, topic, qos) == decodedLen - (2 + topic) - (IF qos > 0 THEN 2 ELSE 0)

\* Is the packet refused for want of room in a buffer of size bytes.  The
\* packets of fixed size ask for four bytes.
TooLong(p, size) ==
    IF p.type \in { "PUBACK", "PINGREQ" } THEN size < 4
    ELSE FinalPacketLength(RemainingLength(p)) > size

\* What has been written when the serializer is done.
SerializedLength(p) == 1 + Len(WriteLen[RemainingLength(p)]) + Total(Fields(p))

=============================================================================
