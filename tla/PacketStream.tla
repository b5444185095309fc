---------------------------- MODULE PacketStream ----------------------------
(***************************************************************************)
(* One packet at a time over the byte stream of a TLS connection:          *)
(* read_packet on top of iot_tls_read, and the serializers and send_packet *)
(* on top of iot_tls_write.  mbedTLS hands over any number of bytes it is  *)
(* asked for, asks to be called again, or fails, and a timer may expire    *)
(* between any two looks at it.  What matters is whether both sides agree  *)
(* where a packet begins.                                                  *)
(***************************************************************************)
EXTENDS WireFormat

CONSTANTS
    InLengths,      \* remaining lengths of the packets the broker sends
    OutPackets,     \* packets the client sends
    ReadBufSize,    \* clientData.readBufSize
    WriteBufSize,   \* clientData.writeBufSize
    Fragment,       \* the most that one mbedtls_ssl_write sends
    MaxQueued,      \* bound: packets on their way to the client
    MaxPieces,      \* bound: pieces in which what is asked for arrives
    Unset,          \* what the uninitialized ret of iot_tls_write may hold
    SizeMax         \* bound: one more than the largest size_t

ASSUME StreamAssumption ==
    /\ InLengths \subseteq Nat /\ Unset \subseteq Int
    /\ \A p \in OutPackets : IsPacket(p)
    /\ { ReadBufSize, WriteBufSize, Fragment, MaxPieces } \subseteq Nat \ { 0 }
    /\ MaxQueued \in Nat /\ SizeMax \in Nat /\ WriteBufSize < SizeMax

VARIABLES
    inbound,    \* remaining lengths of the packets that are not wholly read
    pos,        \* bytes of the first of them that are read
    rd,         \* the read_packet in progress
    result,     \* what the last read_packet returned
    late,       \* history: a packet stalled for longer than its timer
    wr,         \* the send_packet in progress
    expired,    \* has its timer expired
    onWire,     \* bytes of its packet that were sent
    outcome,    \* what the last send_packet returned
    guessed,    \* history: iot_tls_write counted bytes it had not sent
    open        \* is there a connection

readVars == << inbound, pos, rd, result, late >>
writeVars == << wr, expired, onWire, outcome, guessed >>
vars == << readVars, writeVars, open >>

NotReading == [at |-> "idle", want |-> 0, rx |-> 0, pieces |-> 0, len |-> 0,
               mult |-> 1, rem |-> 0, total |-> 0]

NotWriting == [at |-> "idle", packet |-> Zero, length |-> 0, sent |-> 0,
               written |-> 0, ret |-> 0]

Idle == rd.at = "idle" /\ wr.at = "idle"

PacketSize(n) == 1 + Len(WriteLen[n]) + n

-----------------------------------------------------------------------------
(* read_packet *)

\* Asks iot_tls_read for want bytes in the place at.
Ask(r, at, want) == [r EXCEPT !.at = at, !.want = want, !.rx = 0, !.pieces = 0]

\* yield closes the connection after an error of the TLS layer; it goes on
\* after every other one.
TlsErrors == { "NETWORK_SSL_READ_ERROR", "NETWORK_SSL_READ_TIMEOUT_ERROR" }

ReadReturns(rc) ==
    /\ rd' = NotReading
    /\ result' = rc
    /\ open' = (rc \notin TlsErrors)

\* Out of step with the broker the client takes the middle of a packet for a
\* header; what it makes of that is not described.
ReadPacket ==
    /\ open /\ Idle /\ pos = 0
    /\ rd' = Ask(NotReading, "header", 1)
    /\ result' = "NONE"
    /\ wr' = NotWriting /\ expired' = FALSE /\ onWire' = 0 /\ outcome' = "NONE"
    /\ guessed' = FALSE
    /\ UNCHANGED << inbound, pos, late, open >>

\* decode_packet_remaining_len counts its bytes in len, which it also passes to
\* the read as the place for the number of bytes read: after each it is 1.
NextLengthByte(r) ==
    IF r.len + 1 > MaxLengthBytes
    THEN ReadReturns("MQTT_DECODE_REMAINING_LENGTH_ERROR")
    ELSE /\ rd' = Ask([r EXCEPT !.len = 1], "length", 1)
         /\ UNCHANGED << result, open >>

\* How much of an oversized packet is read next.
DropSize(r) ==
    IF r.rem - r.total >= ReadBufSize THEN ReadBufSize ELSE r.rem - r.total

\* The remaining length is known: the packet is dropped, complete or read.  The
\* length alone is compared with the size of the buffer, although the rest of the
\* packet goes behind its header.
LengthKnown(r) ==
    \/ /\ r.rem >= ReadBufSize
       /\ rd' = Ask(r, "drop", ReadBufSize)
       /\ UNCHANGED << result, open >>
    \/ /\ r.rem < ReadBufSize /\ r.rem > 0
       /\ rd' = Ask(r, "body", r.rem)
       /\ UNCHANGED << result, open >>
    \/ /\ r.rem < ReadBufSize /\ r.rem = 0
       /\ ReadReturns("SUCCESS")

\* Where in readBuf the bytes that are asked for go: what is dropped to its
\* start, the rest of a packet behind the header byte and the length, which has
\* been written there again.
ReadOffset(r) == IF r.at = "body" THEN 1 + Len(WriteLen[r.rem]) ELSE 0

BufferEnd(r) == ReadOffset(r) + r.rx + r.want

\* Mutant: the multiplier starts with the second byte.
WithDigitShifted(r, byte) ==
    [r EXCEPT !.rem = @ + (byte % 128) * 128 * r.mult, !.mult = @ * 128]

WithDigit(r, byte) == [r EXCEPT !.rem = @ + (byte % 128) * r.mult, !.mult = @ * 128]

GotLengthByte(r, byte) ==
    IF byte >= 128 THEN NextLengthByte(WithDigit(r, byte))
    ELSE LengthKnown(WithDigit(r, byte))

\* Mutant: one buffer of an oversized packet is dropped.
GotDroppedOnce(r) == ReadReturns("MQTT_RX_BUFFER_TOO_SHORT_ERROR")

GotDropped(r) ==
    \/ /\ r.total < r.rem
       /\ rd' = Ask(r, "drop", DropSize(r))
       /\ UNCHANGED << result, open >>
    \/ /\ r.total >= r.rem
       /\ ReadReturns("MQTT_RX_BUFFER_TOO_SHORT_ERROR")

\* iot_tls_read has all the bytes it was asked for; byte is the last of them.
Complete(r, byte) ==
    CASE r.at = "header" -> NextLengthByte(r)
      [] r.at = "length" -> GotLengthByte(r, byte)
      [] r.at = "drop" -> GotDropped([r EXCEPT !.total = @ + r.rx])
      [] r.at = "body" -> ReadReturns("SUCCESS")

\* The byte at the position i of a packet of remaining length n; only those of
\* the length are looked at.
ByteAt(n, i) == IF i \in 1..Len(WriteLen[n]) THEN WriteLen[n][i] ELSE 0

\* mbedtls_ssl_read returns k bytes.
TlsReadBytes(k) ==
    /\ rd.at # "idle" /\ inbound # << >>
    /\ k <= rd.want
    /\ k \in { 1, rd.want - 1, rd.want } \ { 0 }
    /\ rd.pieces + 1 < MaxPieces \/ k = rd.want
    /\ LET n == Head(inbound)
           r == [rd EXCEPT !.want = @ - k, !.rx = @ + k, !.pieces = @ + 1]
       IN  /\ IF pos + k >= PacketSize(n)
              THEN inbound' = Tail(inbound) /\ pos' = pos + k - PacketSize(n)
              ELSE inbound' = inbound /\ pos' = pos + k
           /\ IF r.want > 0 THEN rd' = r /\ UNCHANGED << result, open >>
              ELSE Complete(r, ByteAt(n, pos))
    /\ UNCHANGED << late, writeVars >>

TlsRead == \E k \in 1..ReadBufSize : TlsReadBytes(k)

\* What read_packet returns when iot_tls_read fails with rc.
FailedRead(rc) ==
    CASE rd.at = "header" /\ rc = "NETWORK_SSL_NOTHING_TO_READ" -> "MQTT_NOTHING_TO_READ"
      [] rd.at = "header" /\ rc # "NETWORK_SSL_NOTHING_TO_READ" -> rc
      [] rd.at = "length" -> rc
      [] rd.at = "drop" -> "MQTT_RX_BUFFER_TOO_SHORT_ERROR"
      [] rd.at = "body" -> "FAILURE"

\* The timer has expired with bytes missing.
TlsReadExpires ==
    /\ rd.at # "idle"
    /\ ReadReturns(FailedRead(IF rd.rx = 0 THEN "NETWORK_SSL_NOTHING_TO_READ"
                              ELSE "NETWORK_SSL_READ_TIMEOUT_ERROR"))
    /\ late' = (late \/ rd.at # "header")
    /\ UNCHANGED << inbound, pos, writeVars >>

\* The connection is broken.
TlsReadFails ==
    /\ rd.at # "idle"
    /\ ReadReturns(FailedRead("NETWORK_SSL_READ_ERROR"))
    /\ late' = (late \/ rd.at # "header")
    /\ UNCHANGED << inbound, pos, writeVars >>

-----------------------------------------------------------------------------
(* The serializers and send_packet *)

SendReturns(rc) ==
    /\ wr' = [wr EXCEPT !.at = "idle"]
    /\ outcome' = rc

\* Nothing is written into the buffer when the serializer refuses the packet;
\* send_packet then wants one byte of the buffer to stay unused.
Serialized(p) == IF TooLong(p, WriteBufSize) THEN 0 ELSE SerializedLength(p)

Refused(p) == TooLong(p, WriteBufSize) \/ SerializedLength(p) >= WriteBufSize

\* The two directions share nothing: a send is described with nothing on its way
\* to the client.
Send(p) ==
    /\ open /\ Idle /\ inbound = << >>
    /\ wr' = [at |-> IF Refused(p) THEN "idle" ELSE "loop", packet |-> p,
              length |-> Serialized(p), sent |-> 0, written |-> 0, ret |-> 0]
    /\ outcome' = IF Refused(p) THEN "MQTT_TX_BUFFER_TOO_SHORT_ERROR" ELSE "NONE"
    /\ result' = "NONE" /\ expired' = FALSE /\ onWire' = 0 /\ guessed' = FALSE
    /\ UNCHANGED << inbound, pos, rd, late, open >>

\* The loop of send_packet.  Every call asks for the full length.
SendLoop ==
    /\ wr.at = "loop"
    /\ \/ /\ wr.sent < wr.length /\ ~expired
          /\ \E unset \in Unset :
                wr' = [wr EXCEPT !.at = "for", !.written = 0, !.ret = unset]
          /\ UNCHANGED outcome
       \/ /\ wr.sent >= wr.length \/ expired
          /\ SendReturns(IF wr.sent = wr.length THEN "SUCCESS" ELSE "FAILURE")
    /\ UNCHANGED << readVars, expired, onWire, guessed, open >>

\* iot_tls_write: the condition of its outer loop,
WriteFor ==
    /\ wr.at = "for"
    /\ wr' = [wr EXCEPT !.at = IF wr.written < wr.length /\ ~expired
                               THEN "while" ELSE "exit"]
    /\ UNCHANGED << readVars, expired, onWire, outcome, guessed, open >>

\* the condition of the inner one, which leaves ret as it is,
WriteTimesOut ==
    /\ wr.at = "while" /\ expired
    /\ wr' = [wr EXCEPT !.at = "add"]
    /\ guessed' = TRUE
    /\ UNCHANGED << readVars, expired, onWire, outcome, open >>

\* and its body: k bytes are sent,
WriteBytes(k) ==
    /\ wr.at = "while" /\ ~expired
    /\ k <= wr.length - wr.written /\ k <= Fragment
    /\ wr' = [wr EXCEPT !.at = "add", !.ret = k]
    /\ onWire' = onWire + k
    /\ UNCHANGED << readVars, expired, outcome, guessed, open >>

\* or mbedTLS is busy and ret holds its negative answer (WANT_WRITE),
WantWrite == -26752

WriteBusy ==
    /\ wr.at = "while" /\ ~expired
    /\ wr' = [wr EXCEPT !.ret = WantWrite]
    /\ UNCHANGED << readVars, expired, onWire, outcome, guessed, open >>

\* or the connection is broken.
WriteFails ==
    /\ wr.at = "while" /\ ~expired
    /\ SendReturns("FAILURE")
    /\ UNCHANGED << readVars, expired, onWire, guessed, open >>

\* written_so_far is unsigned.
WriteAdd ==
    /\ wr.at = "add"
    /\ wr' = [wr EXCEPT !.at = "for", !.written = (@ + wr.ret) % SizeMax]
    /\ UNCHANGED << readVars, expired, onWire, outcome, guessed, open >>

\* Mutant: a write that ran out of time is not an error.
WriteExitForgivingly ==
    /\ wr.at = "exit"
    /\ wr' = [wr EXCEPT !.at = "loop", !.sent = wr.length]
    /\ UNCHANGED << readVars, expired, onWire, outcome, guessed, open >>

\* The timer is looked at once more: an incomplete write that ran out of time
\* is an error, for which send_packet stops.
WriteExit ==
    /\ wr.at = "exit"
    /\ IF expired /\ wr.written # wr.length
       THEN SendReturns("FAILURE")
       ELSE /\ wr' = [wr EXCEPT !.at = "loop", !.sent = @ + wr.written]
            /\ UNCHANGED outcome
    /\ UNCHANGED << readVars, expired, onWire, guessed, open >>

TimerExpires ==
    /\ wr.at # "idle" /\ ~expired
    /\ expired' = TRUE
    /\ UNCHANGED << readVars, wr, onWire, outcome, guessed, open >>

-----------------------------------------------------------------------------
(* The broker, and a new connection *)

BrokerSends(n) ==
    /\ open /\ wr = NotWriting /\ Len(inbound) < MaxQueued
    /\ inbound' = Append(inbound, n)
    /\ UNCHANGED << pos, rd, result, late, writeVars, open >>

Fresh ==
    /\ inbound = << >> /\ pos = 0 /\ rd = NotReading /\ result = "NONE" /\ late = FALSE
    /\ wr = NotWriting /\ expired = FALSE /\ onWire = 0 /\ outcome = "NONE"
    /\ guessed = FALSE /\ open = TRUE

\* The client disconnects, or has been disconnected, and connects again; also
\* all that is left to a client that has stopped in the middle of a packet.
Reconnect ==
    /\ Idle
    /\ inbound' = << >> /\ pos' = 0 /\ rd' = NotReading /\ result' = "NONE" /\ late' = FALSE
    /\ wr' = NotWriting /\ expired' = FALSE /\ onWire' = 0 /\ outcome' = "NONE"
    /\ guessed' = FALSE /\ open' = TRUE

Init == Fresh

ReadStep == ReadPacket \/ TlsRead \/ TlsReadExpires \/ TlsReadFails

WriteStep ==
    \/ \E p \in OutPackets : Send(p)
    \/ SendLoop \/ WriteFor \/ WriteTimesOut
    \/ \E k \in { 1, wr.length - wr.written } \ { 0 } : WriteBytes(k)
    \/ WriteBusy \/ WriteFails \/ WriteAdd \/ WriteExit \/ TimerExpires

Next ==
    \/ ReadStep \/ WriteStep
    \/ \E n \in InLengths : BrokerSends(n)
    \/ Reconnect

Spec == Init /\ [][Next]_vars

-----------------------------------------------------------------------------
(* Properties *)

\* The variables have their types.
TypeOK ==
    /\ inbound \in Seq(InLengths) /\ Len(inbound) <= MaxQueued
    /\ pos \in Nat
    /\ rd.at \in { "idle", "header", "length", "drop", "body" }
    /\ rd.want \in 0..ReadBufSize
    /\ wr.at \in { "idle", "loop", "for", "while", "add", "exit" }
    /\ wr.written \in 0..(SizeMax - 1)
    /\ { late, expired, guessed, open } \subseteq BOOLEAN

\* read_packet never reads beyond the packet it is in, and takes it for as long as
\* the broker has made it, whatever stalls; and between two calls the client is at
\* the beginning of a packet, whatever pieces the last one came in and also when
\* it was too long for the read buffer ("the message will be dropped silently").
\* The latter is claimed after a packet that was handed on, and as long as none
\* has stalled half-way.
InStep ==
    /\ rd.at \in { "drop", "body" } =>
          /\ inbound # << >> /\ rd.rem = Head(inbound)
          /\ pos + rd.want <= PacketSize(rd.rem)
    /\ rd.at = "idle" /\ (result = "SUCCESS" \/ ~late) => pos = 0

\* However often mbedTLS is busy or sends a part, the next write starts with
\* the first byte that has not been sent; and a send_packet that returns SUCCESS
\* has sent the whole packet, and as many bytes as the remaining length in it
\* tells the broker to expect.  The latter is claimed unless the timer has expired
\* between the two looks iot_tls_write takes at it.
SentWhole ==
    /\ wr.at = "while" /\ ~expired => wr.sent + wr.written = onWire
    /\ outcome = "SUCCESS" /\ ~guessed => onWire = PacketSize(RemainingLength(wr.packet))

\* No serializer writes beyond the end of the write buffer, also when send_packet
\* then refuses to send what it has written; read_packet stays in the read buffer
\* when it drops a packet, and when it does not, it ends behind the buffer by at
\* most as many bytes as the remaining length takes.
FitsBuffer ==
    /\ wr.length <= WriteBufSize
    /\ rd.at = "drop" => BufferEnd(rd) <= ReadBufSize
    /\ rd.at = "body" => BufferEnd(rd) <= ReadBufSize + Len(WriteLen[rd.rem])

\* "if the buffer is too short then the message will be dropped silently"
\* (read_packet): a packet that is not dropped fits into the read buffer.  It does
\* not when only its remaining length is less than the size of the buffer.
KeptPacketFits == rd.at = "body" => BufferEnd(rd) <= ReadBufSize

\* The lengths at which an encoding grows by a byte, and their neighbours.
Boundaries == { 0, 1, 126, 127, 128, 129, 255, 256, 16382, 16383, 16384, 65535,
                2097150, 2097151, 2097152, 268435455 }

\* Encoder and decoder of the remaining length agree on the packets that come in
\* and at the boundaries of its bytes, no length up to the maximum of MQTT takes more than four, and the
\* length a serializer asks room for is never less than what it writes; the
\* same for the two bytes of a string's length.  What one client publishes
\* another one takes apart at the same places.
LengthsAgree ==
    /\ \A n \in Boundaries \cup Range(inbound) :
          /\ DecodeLen(WriteLen[n]) = n
          /\ Len(WriteLen[n]) = Min({ d \in 1..4 : n < 128^d \/ d = 4 })
          /\ FinalPacketLength(n) \in { PacketSize(n), PacketSize(n) + 1 }
    /\ \A p \in { q \in OutPackets : q.type = "PUBLISH" } :
          PayloadLen(RemainingLength(p), p.topics[1], p.qos) = p.payload
    /\ \A n \in { b \in Boundaries : b < 65536 } : ReadUint16(WriteUint16(n)) = n

=============================================================================
