---------------------------- MODULE StreamProofs ----------------------------
(***************************************************************************)
(* Proofs about the byte stream: encoder and decoder of a length agree, a  *)
(* serializer writes as many bytes as it announces, read_packet keeps its  *)
(* place in the stream whatever pieces it comes in, and a packet that      *)
(* send_packet reports as sent is sent as a whole.                         *)
(***************************************************************************)
EXTENDS PacketStream, FiniteSetTheorems, SequenceTheorems, WellFoundedInduction, TLAPS

-----------------------------------------------------------------------------
(* The encoding of a length.  A set of naturals that is not empty has a    *)
(* least element: what is shown below for every natural number is shown by *)
(* way of the least one that would refute it.                              *)

\* A set of naturals that is not empty has a least element.
LEMMA LeastNatural ==
    ASSUME NEW S \in SUBSET Nat, S # {}
    PROVE  \E x \in S : \A y \in S : x <= y
<1>1. \E x \in S : \A y \in S : ~(<< y, x >> \in OpToRel(<, Nat))
  BY WFMin, NatLessThanWellFounded
<1>2. \A x, y \in Nat : y < x => << y, x >> \in OpToRel(<, Nat)
  BY DEF OpToRel
<1>3. PICK x \in S : \A y \in S : ~(<< y, x >> \in OpToRel(<, Nat))
  BY <1>1
<1>4. x \in Nat /\ \A y \in S : y \in Nat /\ ~(y < x)
  BY <1>2, <1>3
<1> QED
  BY <1>4

\* A number is put together again from its lowest digit and the rest.
LEMMA Div128 ==
    ASSUME NEW n \in Nat
    PROVE  /\ n \div 128 \in Nat /\ (n % 128) \in 0..127
           /\ n = 128 * (n \div 128) + (n % 128)
           /\ n >= 128 => n \div 128 < n /\ n \div 128 > 0
OBVIOUS

\* The values from which the digits of a length are taken, one after the other.
IsChain(c, n) ==
    /\ c \in Seq(Nat) /\ Len(c) > 0 /\ c[1] = n /\ c[Len(c)] < 128
    /\ \A i \in 1..(Len(c) - 1) : c[i] >= 128 /\ c[i + 1] = c[i] \div 128

ChainOf(n) == CHOOSE c : IsChain(c, n)

Digits(c) ==
    [i \in 1..Len(c) |-> IF i < Len(c) THEN (c[i] % 128) + 128 ELSE c[i]]

\* A length of one digit is its own chain,
LEMMA ShortChain ==
    ASSUME NEW n \in Nat, n < 128
    PROVE  IsChain(<< n >>, n)
BY DEF IsChain

\* a longer one is put before the chain of the rest,
LEMMA LongerChain ==
    ASSUME NEW n \in Nat, n >= 128, NEW c, IsChain(c, n \div 128)
    PROVE  IsChain(<< n >> \o c, n)
<1> DEFINE d == << n >> \o c
<1>1. c \in Seq(Nat) /\ Len(c) \in Nat /\ Len(c) > 0
  BY DEF IsChain
<1>2. /\ d \in Seq(Nat) /\ Len(d) = Len(c) + 1 /\ d[1] = n
      /\ \A i \in 1..Len(c) : d[i + 1] = c[i]
  BY <1>1
<1> HIDE DEF d
<1>3. d[Len(d)] < 128
  <2>1. Len(c) \in 1..Len(c)
    BY <1>1
  <2>2. d[Len(c) + 1] = c[Len(c)]
    BY <1>2, <2>1
  <2> QED
    BY <2>2, <1>2 DEF IsChain
<1>4. ASSUME NEW i \in 1..(Len(d) - 1)
      PROVE  d[i] >= 128 /\ d[i + 1] = d[i] \div 128
  <2>1. CASE i = 1
    <3>1. d[1 + 1] = c[1]
      BY <1>1, <1>2
    <3> QED
      BY <2>1, <3>1, <1>2 DEF IsChain
  <2>2. CASE i # 1
    <3>1. i - 1 \in 1..(Len(c) - 1) /\ i - 1 \in 1..Len(c) /\ i \in 1..Len(c)
      BY <2>2, <1>2, <1>1
    <3>2. d[(i - 1) + 1] = c[i - 1] /\ d[i + 1] = c[i]
      BY <3>1, <1>2
    <3>4. (i - 1) + 1 = i
      OBVIOUS
    <3>3. c[i - 1] >= 128 /\ c[(i - 1) + 1] = c[i - 1] \div 128
      BY <3>1 DEF IsChain
    <3> QED
      BY <3>2, <3>3, <3>4
  <2> QED
    BY <2>1, <2>2
<1>5. IsChain(d, n)
  BY <1>1, <1>2, <1>3, <1>4 DEF IsChain
<1> QED
  BY <1>5 DEF d

\* so every length has a chain,
LEMMA ChainsExist ==
    ASSUME NEW n \in Nat
    PROVE  \E c : IsChain(c, n)
<1> DEFINE S == { m \in Nat : ~\E c : IsChain(c, m) }
<1>1. SUFFICES ASSUME S # {} PROVE FALSE
  OBVIOUS
<1>2. PICK m \in S : \A y \in S : m <= y
  BY <1>1, LeastNatural
<1>3. m \in Nat /\ ~\E c : IsChain(c, m)
  OBVIOUS
<1>4. CASE m < 128
  BY <1>3, <1>4, ShortChain
<1>5. CASE ~(m < 128)
  <2>1. m \div 128 \in Nat /\ m \div 128 < m /\ m >= 128
    BY <1>3, <1>5, Div128
  <2>2. m \div 128 \notin S
    BY <1>2, <1>3, <2>1
  <2>3. PICK c : IsChain(c, m \div 128)
    BY <2>1, <2>2
  <2> QED
    BY <1>3, <2>1, <2>3, LongerChain
<1> QED
  BY <1>4, <1>5

\* the tail of which is that of the rest,
LEMMA ChainTail ==
    ASSUME NEW n \in Nat, n >= 128, NEW c, IsChain(c, n)
    PROVE  IsChain(Tail(c), n \div 128) /\ c = << n >> \o Tail(c)
<1> DEFINE d == Tail(c)
<1>1. c \in Seq(Nat) /\ Len(c) \in Nat /\ Len(c) > 0 /\ c[1] = n /\ c[Len(c)] < 128
  BY DEF IsChain
<1>2. Len(c) > 1
  BY <1>1
<1>3. /\ d \in Seq(Nat) /\ Len(d) = Len(c) - 1
      /\ \A i \in 1..Len(d) : d[i] = c[i + 1]
  BY <1>1, <1>2
<1>4. c = << n >> \o d
  BY <1>1, <1>3
<1> HIDE DEF d
<1>5. d[1] = n \div 128
  <2>1. 1 \in 1..Len(d) /\ 1 \in 1..(Len(c) - 1)
    BY <1>1, <1>2, <1>3
  <2>2. c[1 + 1] = c[1] \div 128 /\ d[1] = c[1 + 1]
    BY <2>1, <1>3 DEF IsChain
  <2> QED
    BY <2>2, <1>1
<1>6. d[Len(d)] < 128
  <2>1. Len(d) \in 1..Len(d) /\ Len(d) + 1 = Len(c)
    BY <1>1, <1>2, <1>3
  <2> QED
    BY <2>1, <1>1, <1>3
<1>7. ASSUME NEW i \in 1..(Len(d) - 1)
      PROVE  d[i] >= 128 /\ d[i + 1] = d[i] \div 128
  <2>1. i \in 1..Len(d) /\ i + 1 \in 1..Len(d) /\ i + 1 \in 1..(Len(c) - 1)
    BY <1>1, <1>2, <1>3
  <2>2. d[i] = c[i + 1] /\ d[i + 1] = c[(i + 1) + 1]
    BY <2>1, <1>3
  <2> QED
    BY <2>1, <2>2 DEF IsChain
<1>8. IsChain(d, n \div 128)
  BY <1>1, <1>2, <1>3, <1>5, <1>6, <1>7 DEF IsChain
<1> QED
  BY <1>4, <1>8 DEF d

\* and which is short when the length is,
LEMMA ShortChainOnly ==
    ASSUME NEW n \in Nat, n < 128, NEW c, IsChain(c, n)
    PROVE  c = << n >>
<1>1. c \in Seq(Nat) /\ Len(c) \in Nat /\ Len(c) > 0 /\ c[1] = n
  BY DEF IsChain
<1>2. Len(c) = 1
  <2>1. \A k \in Nat : k > 0 /\ k # 1 => 1 \in 1..(k - 1)
    OBVIOUS
  <2>2. 1 \in 1..(Len(c) - 1) => c[1] >= 128
    BY DEF IsChain
  <2>3. ~(c[1] >= 128)
    BY <1>1
  <2>4. Len(c) \in Nat /\ Len(c) > 0
    BY <1>1
  <2> QED
    BY <2>1, <2>2, <2>3, <2>4
<1> QED
  BY <1>1, <1>2

\* and it has no other.
LEMMA ChainsUnique ==
    ASSUME NEW n \in Nat
    PROVE  \A c, d : IsChain(c, n) /\ IsChain(d, n) => c = d
<1> DEFINE S == { m \in Nat : \E c, d : IsChain(c, m) /\ IsChain(d, m) /\ c # d }
<1>1. SUFFICES ASSUME S # {} PROVE FALSE
  OBVIOUS
<1>2. PICK m \in S : \A y \in S : m <= y
  BY <1>1, LeastNatural
<1>3. m \in Nat
  OBVIOUS
<1>4. PICK c, d : IsChain(c, m) /\ IsChain(d, m) /\ c # d
  OBVIOUS
<1>5. CASE m < 128
  BY <1>3, <1>4, <1>5, ShortChainOnly
<1>6. CASE ~(m < 128)
  <2>1. m \div 128 \in Nat /\ m \div 128 < m /\ m >= 128
    BY <1>3, <1>6, Div128
  <2>2. m \div 128 \notin S
    BY <1>2, <1>3, <2>1
  <2>3. /\ IsChain(Tail(c), m \div 128) /\ c = << m >> \o Tail(c)
        /\ IsChain(Tail(d), m \div 128) /\ d = << m >> \o Tail(d)
    BY <1>3, <1>4, <2>1, ChainTail
  <2>4. Tail(c) = Tail(d)
    BY <2>1, <2>2, <2>3
  <2> QED
    BY <1>4, <2>3, <2>4
<1> QED
  BY <1>5, <1>6

\* One more value in the chain is one more digit in front.
LEMMA DigitsLonger ==
    ASSUME NEW n \in Nat, n >= 128, NEW c, IsChain(c, n \div 128)
    PROVE  Digits(<< n >> \o c) = << (n % 128) + 128 >> \o Digits(c)
<1>1. c \in Seq(Nat) /\ Len(c) \in Nat /\ Len(c) > 0
  BY DEF IsChain
<1> DEFINE d == << n >> \o c
           x == (n % 128) + 128
<1>2. /\ d \in Seq(Nat) /\ Len(d) = Len(c) + 1 /\ d[1] = n
      /\ \A i \in 1..Len(c) : d[i + 1] = c[i]
  BY <1>1
<1>3. x \in Nat
  BY Div128
<1>4. Digits(c) \in Seq(Nat) /\ Len(Digits(c)) = Len(c)
  <2>1. \A i \in 1..Len(c) : (c[i] % 128) + 128 \in Nat /\ c[i] \in Nat
    BY <1>1, Div128
  <2>2. \A i \in 1..Len(c) : (IF i < Len(c) THEN (c[i] % 128) + 128 ELSE c[i]) \in Nat
    BY <2>1
  <2> QED
    BY <1>1, <2>2 DEF Digits
<1> HIDE DEF d, x
<1>5. /\ << x >> \o Digits(c) \in Seq(Nat) /\ Len(<< x >> \o Digits(c)) = Len(c) + 1
      /\ (<< x >> \o Digits(c))[1] = x
      /\ \A i \in 1..Len(c) : (<< x >> \o Digits(c))[i + 1] = Digits(c)[i]
  BY <1>1, <1>3, <1>4
<1>6. /\ Digits(d) = [i \in 1..(Len(c) + 1) |->
                        IF i < Len(c) + 1 THEN (d[i] % 128) + 128 ELSE d[i]]
  BY <1>2 DEF Digits
<1>7. Digits(d)[1] = x
  BY <1>1, <1>2, <1>6 DEF x
<1>8. ASSUME NEW i \in 1..Len(c) PROVE Digits(d)[i + 1] = Digits(c)[i]
  <2>1. d[i + 1] = c[i] /\ i + 1 \in 1..(Len(c) + 1)
    BY <1>2, <1>1
  <2>2. (i < Len(c)) <=> (i + 1 < Len(c) + 1)
    BY <1>1
  <2>3. Digits(d)[i + 1] = IF i + 1 < Len(c) + 1 THEN (d[i + 1] % 128) + 128 ELSE d[i + 1]
    BY <1>6, <2>1
  <2> QED
    BY <2>1, <2>2, <2>3 DEF Digits
<1>9. ASSUME NEW j \in 1..(Len(c) + 1) PROVE Digits(d)[j] = (<< x >> \o Digits(c))[j]
  <2>1. CASE j = 1
    BY <2>1, <1>5, <1>7
  <2>2. CASE j # 1
    <3>1. j - 1 \in 1..Len(c) /\ (j - 1) + 1 = j
      BY <2>2, <1>1
    <3> QED
      BY <3>1, <1>5, <1>8
  <2> QED
    BY <2>1, <2>2
<1>10. << x >> \o Digits(c) = [j \in 1..(Len(c) + 1) |-> (<< x >> \o Digits(c))[j]]
  BY <1>5
<1>11. Digits(d) = [j \in 1..(Len(c) + 1) |-> Digits(d)[j]]
  BY <1>6
<1>12. Digits(d) = << x >> \o Digits(c)
  BY <1>9, <1>10, <1>11
<1> QED
  BY <1>12 DEF d, x

\* aws_iot_mqtt_internal_write_len_to_buffer: the encoding of every length is that
\* of its lowest digit followed by that of the rest.
LEMMA WriteLenUnfolds ==
    ASSUME NEW n \in Nat
    PROVE  WriteLen[n] = IF n < 128 THEN << n >>
                         ELSE << (n % 128) + 128 >> \o WriteLen[n \div 128]
<1> DEFINE F(g) == [m \in Nat |-> IF m < 128 THEN << m >>
                                  ELSE << (m % 128) + 128 >> \o g[m \div 128]]
           f == [m \in Nat |-> Digits(ChainOf(m))]
<1>1. ASSUME NEW m \in Nat
      PROVE  Digits(ChainOf(m)) = IF m < 128 THEN << m >>
                ELSE << (m % 128) + 128 >> \o Digits(ChainOf(m \div 128))
  <2>1. IsChain(ChainOf(m), m)
    BY ChainsExist DEF ChainOf
  <2>2. CASE m < 128
    <3>1. ChainOf(m) = << m >>
      BY <2>1, <2>2, ShortChainOnly
    <3>2. Digits(<< m >>) = << m >>
      BY DEF Digits
    <3> QED
      BY <2>2, <3>1, <3>2
  <2>3. CASE ~(m < 128)
    <3>1. m \div 128 \in Nat /\ m >= 128
      BY <2>3, Div128
    <3>2. IsChain(ChainOf(m \div 128), m \div 128)
      BY <3>1, ChainsExist DEF ChainOf
    <3>3. IsChain(<< m >> \o ChainOf(m \div 128), m)
      BY <3>1, <3>2, LongerChain
    <3>4. ChainOf(m) = << m >> \o ChainOf(m \div 128)
      BY <2>1, <3>3, ChainsUnique
    <3>5. Digits(<< m >> \o ChainOf(m \div 128))
             = << (m % 128) + 128 >> \o Digits(ChainOf(m \div 128))
      BY <3>1, <3>2, DigitsLonger, ZenonT(30)
    <3> QED
      BY <2>3, <3>4, <3>5
  <2> QED
    BY <2>2, <2>3
<1>2. f = F(f)
  <2>1. \A m \in Nat : m \div 128 \in Nat
    BY Div128
  <2>2. \A m \in Nat : f[m \div 128] = Digits(ChainOf(m \div 128))
    BY <2>1
  <2> QED
    BY <1>1, <2>2
<1>3. WriteLen = CHOOSE g : g = F(g)
  BY DEF WriteLen
<1> HIDE DEF F, f
<1>4. WriteLen = F(WriteLen)
  BY <1>2, <1>3
<1> QED
  BY <1>4 DEF F

\* Every byte is one, and there is at least one.
LEMMA WriteLenType ==
    ASSUME NEW n \in Nat
    PROVE  WriteLen[n] \in Seq(Nat) /\ Len(WriteLen[n]) \in Nat \ { 0 }
<1> DEFINE S == { m \in Nat : ~(WriteLen[m] \in Seq(Nat) /\ Len(WriteLen[m]) > 0) }
<1>1. ASSUME S # {} PROVE FALSE
  <2>1. PICK m \in S : \A y \in S : m <= y
    BY <1>1, LeastNatural
  <2>2. m \in Nat /\ ~(WriteLen[m] \in Seq(Nat) /\ Len(WriteLen[m]) > 0)
    OBVIOUS
  <2>3. CASE m < 128
    <3>1. WriteLen[m] = << m >>
      BY <2>2, <2>3, WriteLenUnfolds
    <3> QED
      BY <2>2, <3>1
  <2>4. CASE ~(m < 128)
    <3>1. m \div 128 \in Nat /\ m \div 128 < m /\ (m % 128) + 128 \in Nat
      BY <2>2, <2>4, Div128
    <3>2. m \div 128 \notin S
      BY <2>1, <2>2, <3>1
    <3>3. WriteLen[m \div 128] \in Seq(Nat)
      BY <3>1, <3>2
    <3>4. WriteLen[m] = << (m % 128) + 128 >> \o WriteLen[m \div 128]
      BY <2>2, <2>4, WriteLenUnfolds
    <3> HIDE DEF S
    <3>5. \A x \in Nat, s \in Seq(Nat) : << x >> \o s \in Seq(Nat) /\ Len(<< x >> \o s) > 0
      OBVIOUS
    <3> QED
      BY <2>2, <3>1, <3>3, <3>4, <3>5
  <2> QED
    BY <2>3, <2>4
<1>2. WriteLen[n] \in Seq(Nat) /\ Len(WriteLen[n]) > 0
  BY <1>1
<1> QED
  BY <1>2

\* Below 128 it is the length itself;
LEMMA WriteLenShort ==
    ASSUME NEW n \in Nat, n < 128
    PROVE  Len(WriteLen[n]) = 1 /\ WriteLen[n][1] = n
<1>1. WriteLen[n] = << n >>
  BY WriteLenUnfolds
<1> QED
  BY <1>1

\* from there on the lowest digit, with the top bit set, comes first.
LEMMA WriteLenRest ==
    ASSUME NEW n \in Nat, n >= 128
    PROVE  /\ Len(WriteLen[n]) = 1 + Len(WriteLen[n \div 128])
           /\ WriteLen[n][1] = (n % 128) + 128
           /\ \A i \in 1..Len(WriteLen[n \div 128]) :
                 WriteLen[n][i + 1] = WriteLen[n \div 128][i]
<1>1. n \div 128 \in Nat /\ (n % 128) + 128 \in Nat /\ ~(n < 128)
  BY Div128
<1>2. WriteLen[n] = << (n % 128) + 128 >> \o WriteLen[n \div 128]
  BY <1>1, WriteLenUnfolds
<1>3. WriteLen[n \div 128] \in Seq(Nat)
  BY <1>1, WriteLenType
<1>4. \A x \in Nat, s \in Seq(Nat) :
        /\ Len(<< x >> \o s) = 1 + Len(s) /\ (<< x >> \o s)[1] = x
        /\ \A i \in 1..Len(s) : (<< x >> \o s)[i + 1] = s[i]
  OBVIOUS
<1> QED
  BY <1>1, <1>2, <1>3, <1>4

\* The lengths at which two, three and four bytes no longer do.
TwoBytes == 16384
ThreeBytes == 2097152
FourBytes == 268435456

\* The number of bytes grows at the powers of 128, up to four of them below the
\* longest packet of MQTT.
LEMMA LengthBytes ==
    ASSUME NEW n \in Nat
    PROVE  /\ n < 128 => Len(WriteLen[n]) = 1
           /\ n >= 128 /\ n < TwoBytes => Len(WriteLen[n]) = 2
           /\ n >= TwoBytes /\ n < ThreeBytes => Len(WriteLen[n]) = 3
           /\ n >= ThreeBytes /\ n < FourBytes => Len(WriteLen[n]) = 4
<1>1. ASSUME NEW m \in Nat, m < 128 PROVE Len(WriteLen[m]) = 1
  BY <1>1, WriteLenShort
<1>2. ASSUME NEW m \in Nat, m >= 128
      PROVE  m \div 128 \in Nat /\ Len(WriteLen[m]) = 1 + Len(WriteLen[m \div 128])
  BY <1>2, WriteLenRest, Div128
<1>3. ASSUME NEW m \in Nat, m >= 128, m < TwoBytes PROVE Len(WriteLen[m]) = 2
  <2>1. m \div 128 < 128
    BY <1>3 DEF TwoBytes
  <2>2. m \div 128 \in Nat /\ Len(WriteLen[m]) = 1 + Len(WriteLen[m \div 128])
    BY <1>2, <1>3
  <2>3. Len(WriteLen[m \div 128]) = 1
    BY <1>1, <2>1, <2>2
  <2> QED
    BY <2>2, <2>3
<1>4. ASSUME NEW m \in Nat, m >= TwoBytes, m < ThreeBytes PROVE Len(WriteLen[m]) = 3
  <2>1. m >= 128 /\ m \div 128 >= 128 /\ m \div 128 < TwoBytes
    BY <1>4 DEF TwoBytes, ThreeBytes
  <2>2. m \div 128 \in Nat /\ Len(WriteLen[m]) = 1 + Len(WriteLen[m \div 128])
    BY <1>2, <2>1
  <2>3. Len(WriteLen[m \div 128]) = 2
    BY <1>3, <2>1, <2>2
  <2> QED
    BY <2>2, <2>3
<1>5. ASSUME NEW m \in Nat, m >= ThreeBytes, m < FourBytes PROVE Len(WriteLen[m]) = 4
  <2>1. m >= 128 /\ m \div 128 >= TwoBytes /\ m \div 128 < ThreeBytes
    BY <1>5 DEF TwoBytes, ThreeBytes, FourBytes
  <2>2. m \div 128 \in Nat /\ Len(WriteLen[m]) = 1 + Len(WriteLen[m \div 128])
    BY <1>2, <2>1
  <2>3. Len(WriteLen[m \div 128]) = 3
    BY <1>4, <2>1, <2>2
  <2> QED
    BY <2>2, <2>3
<1> QED
  BY <1>1, <1>3, <1>4, <1>5

\* A packet has a first byte and at least one byte of length.
LEMMA PacketSizeType ==
    ASSUME NEW n \in Nat
    PROVE  PacketSize(n) \in Nat /\ PacketSize(n) >= n + 2
BY WriteLenType DEF PacketSize

\* get_final_packet_length_from_remaining_length asks for the bytes the packet
\* takes or for one more.
LEMMA FinalLength ==
    ASSUME NEW n \in Nat, n < FourBytes
    PROVE  FinalPacketLength(n) \in { PacketSize(n), PacketSize(n) + 1 }
<1> DEFINE L == Len(WriteLen[n])
<1>1. /\ n < 128 => L = 1
      /\ n >= 128 /\ n < TwoBytes => L = 2
      /\ n >= TwoBytes /\ n < ThreeBytes => L = 3
      /\ n >= ThreeBytes /\ n < FourBytes => L = 4
  BY LengthBytes
<1>2. L \in Nat
  BY WriteLenType
<1>3. PacketSize(n) = 1 + L + n
  BY DEF PacketSize
<1> HIDE DEF L
<1>4. CASE n + 1 < 128
  <2>1. FinalPacketLength(n) = n + 2
    BY <1>4 DEF FinalPacketLength, TwoBytes, ThreeBytes
  <2> QED
    BY <1>4, <2>1, <1>1, <1>2, <1>3 DEF TwoBytes, ThreeBytes, FourBytes
<1>5. CASE n + 1 >= 128 /\ n + 1 < TwoBytes
  <2>1. FinalPacketLength(n) = n + 3
    BY <1>5 DEF FinalPacketLength, TwoBytes, ThreeBytes
  <2> QED
    BY <1>5, <2>1, <1>1, <1>2, <1>3 DEF TwoBytes, ThreeBytes, FourBytes
<1>6. CASE n + 1 >= TwoBytes /\ n + 1 < ThreeBytes
  <2>1. FinalPacketLength(n) = n + 4
    BY <1>6 DEF FinalPacketLength, TwoBytes, ThreeBytes
  <2> QED
    BY <1>6, <2>1, <1>1, <1>2, <1>3 DEF TwoBytes, ThreeBytes, FourBytes
<1>7. CASE n + 1 >= ThreeBytes
  <2>1. FinalPacketLength(n) = n + 5
    BY <1>7 DEF FinalPacketLength, TwoBytes, ThreeBytes
  <2> QED
    BY <1>7, <2>1, <1>1, <1>2, <1>3 DEF TwoBytes, ThreeBytes, FourBytes
<1> QED
  BY <1>4, <1>5, <1>6, <1>7 DEF TwoBytes, ThreeBytes

\* The top bit is set on all bytes but the last.
LEMMA TopBits ==
    ASSUME NEW n \in Nat
    PROVE  \A i \in 1..Len(WriteLen[n]) : WriteLen[n][i] < 128 <=> i = Len(WriteLen[n])
<1> DEFINE OK(m) == \A i \in 1..Len(WriteLen[m]) :
                       WriteLen[m][i] < 128 <=> i = Len(WriteLen[m])
           S == { m \in Nat : ~OK(m) }
<1>1. ASSUME S # {} PROVE FALSE
  <2>1. PICK m \in S : \A y \in S : m <= y
    BY <1>1, LeastNatural
  <2>2. m \in Nat /\ ~OK(m)
    OBVIOUS
  <2>3. CASE m < 128
    <3>1. Len(WriteLen[m]) = 1 /\ WriteLen[m][1] = m
      BY <2>2, <2>3, WriteLenShort
    <3> QED
      BY <2>2, <2>3, <3>1
  <2>4. CASE ~(m < 128)
    <3>1. m \div 128 \in Nat /\ m \div 128 < m /\ (m % 128) + 128 >= 128 /\ m >= 128
      BY <2>2, <2>4, Div128
    <3>2. m \div 128 \notin S
      BY <2>1, <2>2, <3>1
    <3>3. OK(m \div 128)
      BY <3>1, <3>2
    <3>4. /\ Len(WriteLen[m]) = 1 + Len(WriteLen[m \div 128])
          /\ WriteLen[m][1] = (m % 128) + 128
          /\ \A i \in 1..Len(WriteLen[m \div 128]) :
                 WriteLen[m][i + 1] = WriteLen[m \div 128][i]
      BY <2>2, <3>1, WriteLenRest
    <3>5. Len(WriteLen[m \div 128]) \in Nat \ { 0 }
      BY <3>1, WriteLenType
    <3>6. ASSUME NEW i \in 1..Len(WriteLen[m])
          PROVE  WriteLen[m][i] < 128 <=> i = Len(WriteLen[m])
      <4>1. CASE i = 1
        <5>1. ~(WriteLen[m][1] < 128)
          <6>1. (m % 128) + 128 \in Int
            BY <2>2, Div128
          <6> QED
            BY <6>1, <3>1, <3>4
        <5>2. 1 # Len(WriteLen[m])
          BY <3>4, <3>5
        <5> QED
          BY <4>1, <5>1, <5>2
      <4>2. CASE i # 1
        <5>1. i - 1 \in 1..Len(WriteLen[m \div 128]) /\ (i - 1) + 1 = i
          BY <4>2, <3>4, <3>5, SMTT(20)
        <5>2. WriteLen[m][i] = WriteLen[m \div 128][i - 1]
          BY <5>1, <3>4
        <5>3. i - 1 = Len(WriteLen[m \div 128]) <=> i = Len(WriteLen[m])
          BY <3>4, <3>5
        <5> QED
          BY <5>1, <5>2, <5>3, <3>3
      <4> QED
        BY <4>1, <4>2
    <3> QED
      BY <2>2, <3>6
  <2> QED
    BY <2>3, <2>4
<1>2. OK(n)
  BY <1>1
<1> QED
  BY <1>2

\* The decoder stops at the last byte of the encoding.
LEMMA DecodedBytesAll ==
    ASSUME NEW n \in Nat
    PROVE  DecodedBytes(WriteLen[n]) = Len(WriteLen[n])
<1> DEFINE S == { i \in 1..Len(WriteLen[n]) : WriteLen[n][i] < 128 }
<1>1. Len(WriteLen[n]) \in Nat \ { 0 }
  BY WriteLenType
<1>2. S = { Len(WriteLen[n]) }
  BY <1>1, TopBits
<1>3. Min(S) = Len(WriteLen[n])
  BY <1>1, <1>2 DEF Min
<1> QED
  BY <1>3 DEF DecodedBytes

\* The top bit is not part of the digit.
LEMMA Digit128 ==
    ASSUME NEW n \in Nat
    PROVE  ((n % 128) + 128) % 128 = n % 128
OBVIOUS

\* What the multiplier of the decoder becomes.
LEMMA Powers128 ==
    128^0 = 1 /\ 128^1 = 128 /\ 128^2 = TwoBytes /\ 128^3 = ThreeBytes /\ 128^4 = FourBytes
BY DEF TwoBytes, ThreeBytes, FourBytes

\* What aws_iot_mqtt_internal_decode_remaining_length_from_buffer makes of one to
\* four bytes, the last of which is the first without the top bit.
LEMMA DecodeUnfolds ==
    ASSUME NEW bytes, NEW k \in 1..4, DecodedBytes(bytes) = k,
           \A i \in 1..k : bytes[i] \in Nat
    PROVE  /\ k = 1 => DecodeLen(bytes) = bytes[1] % 128
           /\ k = 2 => DecodeLen(bytes) = (bytes[1] % 128) + (bytes[2] % 128) * 128
           /\ k = 3 => DecodeLen(bytes) = (bytes[1] % 128) + (bytes[2] % 128) * 128
                                            + (bytes[3] % 128) * TwoBytes
           /\ k = 4 => DecodeLen(bytes) = (bytes[1] % 128) + (bytes[2] % 128) * 128
                                            + (bytes[3] % 128) * TwoBytes
                                            + (bytes[4] % 128) * ThreeBytes
<1> DEFINE D(i) == (bytes[i] % 128) * 128^(i - 1)
           F(g) == [i \in 0..MaxLengthBytes |-> IF i = 0 THEN 0 ELSE g[i - 1] + D(i)]
           w1 == 0 + D(1)
           w2 == w1 + D(2)
           w3 == w2 + D(3)
           w == [i \in 0..MaxLengthBytes |->
                    IF i = 0 THEN 0 ELSE IF i = 1 THEN w1 ELSE IF i = 2 THEN w2
                    ELSE IF i = 3 THEN w3 ELSE w3 + D(4)]
           value == CHOOSE g : g = F(g)
<1>1. DecodeLen(bytes) = value[k]
  BY DEF DecodeLen, MaxLengthBytes
<1>2. D(1) = (bytes[1] % 128) * 128^0 /\ D(2) = (bytes[2] % 128) * 128^1
      /\ D(3) = (bytes[3] % 128) * 128^2 /\ D(4) = (bytes[4] % 128) * 128^3
  OBVIOUS
<1>3. /\ D(1) = (bytes[1] % 128) * 1 /\ D(2) = (bytes[2] % 128) * 128
      /\ D(3) = (bytes[3] % 128) * TwoBytes /\ D(4) = (bytes[4] % 128) * ThreeBytes
  BY <1>2, Powers128
<1> HIDE DEF D
<1>4. w = F(w)
  BY DEF MaxLengthBytes
<1> HIDE DEF F, w
<1>5. value = F(value)
  BY <1>4
<1> HIDE DEF value
<1>6. \A i \in 0..4 : value[i] = IF i = 0 THEN 0 ELSE value[i - 1] + D(i)
  BY <1>5 DEF F, MaxLengthBytes
<1>7. /\ value[0] = 0 /\ value[1] = value[0] + D(1) /\ value[2] = value[1] + D(2)
      /\ value[3] = value[2] + D(3) /\ value[4] = value[3] + D(4)
  BY <1>6
<1>8. \A i \in 1..k : (bytes[i] % 128) \in Nat
  BY Div128
<1>9. CASE k = 1
  BY <1>1, <1>3, <1>7, <1>8, <1>9
<1>10. CASE k = 2
  BY <1>1, <1>3, <1>7, <1>8, <1>10
<1>11. CASE k = 3
  BY <1>1, <1>3, <1>7, <1>8, <1>11
<1>12. CASE k = 4
  BY <1>1, <1>3, <1>7, <1>8, <1>12
<1> QED
  BY <1>9, <1>10, <1>11, <1>12

\* Every length below the limit of MQTT is read back from the bytes
\* aws_iot_mqtt_internal_write_len_to_buffer has written for it.
THEOREM DecodeEncoded ==
    ASSUME NEW n \in Nat, n < FourBytes
    PROVE  DecodeLen(WriteLen[n]) = n
<1> DEFINE b == WriteLen[n]
           n1 == n \div 128
           n2 == n1 \div 128
           n3 == n2 \div 128
<1>1. Len(b) \in Nat \ { 0 } /\ \A i \in 1..Len(b) : b[i] \in Nat
  BY WriteLenType
<1>2. DecodedBytes(b) = Len(b)
  BY DecodedBytesAll
<1>3. /\ n < 128 => Len(b) = 1
      /\ n >= 128 /\ n < TwoBytes => Len(b) = 2
      /\ n >= TwoBytes /\ n < ThreeBytes => Len(b) = 3
      /\ n >= ThreeBytes /\ n < FourBytes => Len(b) = 4
  BY LengthBytes
<1>4. n1 \in Nat /\ n = 128 * n1 + (n % 128) /\ (n % 128) \in 0..127
  BY Div128
<1>5. n2 \in Nat /\ n1 = 128 * n2 + (n1 % 128) /\ (n1 % 128) \in 0..127
  <2> HIDE DEF n1
  <2> QED
    BY <1>4, Div128
<1>6. n3 \in Nat /\ n2 = 128 * n3 + (n2 % 128) /\ (n2 % 128) \in 0..127
  <2> HIDE DEF n1, n2
  <2> QED
    BY <1>5, Div128
<1>7. \A m \in Nat : m < 128 => m % 128 = m
  OBVIOUS
<1>8. \A m \in Nat : m < 128 => Len(WriteLen[m]) = 1 /\ WriteLen[m][1] = m
  BY WriteLenShort
<1>9. ASSUME NEW m \in Nat, m >= 128
      PROVE  /\ Len(WriteLen[m]) = 1 + Len(WriteLen[m \div 128])
             /\ WriteLen[m][1] = (m % 128) + 128
             /\ \A i \in 1..Len(WriteLen[m \div 128]) :
                   WriteLen[m][i + 1] = WriteLen[m \div 128][i]
  BY <1>9, WriteLenRest
<1>10. n >= 128 => /\ Len(b) = 1 + Len(WriteLen[n1])
                   /\ b[1] = (n % 128) + 128
                   /\ \A i \in 1..Len(WriteLen[n1]) : b[i + 1] = WriteLen[n1][i]
  BY <1>9
<1>11. n1 >= 128 => /\ Len(WriteLen[n1]) = 1 + Len(WriteLen[n2])
                    /\ WriteLen[n1][1] = (n1 % 128) + 128
                    /\ \A i \in 1..Len(WriteLen[n2]) : WriteLen[n1][i + 1] = WriteLen[n2][i]
  BY <1>4, <1>9
<1>12. n2 >= 128 => /\ Len(WriteLen[n2]) = 1 + Len(WriteLen[n3])
                    /\ WriteLen[n2][1] = (n2 % 128) + 128
                    /\ \A i \in 1..Len(WriteLen[n3]) : WriteLen[n2][i + 1] = WriteLen[n3][i]
  BY <1>5, <1>9, ZenonT(30)
<1> HIDE DEF n1, n2, n3, b
<1>13. CASE n < 128
  <2>1. b[1] = n /\ Len(b) = 1
    BY <1>8, <1>13 DEF b
  <2>2. DecodeLen(b) = b[1] % 128
    BY <1>1, <1>2, <2>1, DecodeUnfolds
  <2> QED
    BY <2>1, <2>2, <1>7, <1>13 DEF b
<1>14. CASE n >= 128 /\ n < TwoBytes
  <2>1. n1 < 128
    BY <1>4, <1>14 DEF TwoBytes
  <2>2. Len(b) = 2 /\ Len(WriteLen[n1]) = 1 /\ WriteLen[n1][1] = n1
    BY <1>3, <1>4, <1>8, <1>14, <2>1
  <2>3. b[1] = (n % 128) + 128 /\ b[2] = n1
    <3>1. b[1 + 1] = WriteLen[n1][1]
      BY <1>10, <1>14, <2>2
    <3> QED
      BY <1>10, <1>14, <2>2, <3>1
  <2>4. DecodeLen(b) = (b[1] % 128) + (b[2] % 128) * 128
    BY <1>1, <1>2, <2>2, DecodeUnfolds
  <2>5. b[1] % 128 = n % 128
    BY <2>3, Digit128
  <2>6. b[2] % 128 = n1
    BY <2>1, <2>3, <1>4, <1>7
  <2>7. DecodeLen(b) = n
    BY <2>4, <2>5, <2>6, <1>4
  <2> QED
    BY <2>7 DEF b
<1>15. CASE n >= TwoBytes /\ n < ThreeBytes
  <2>1. n >= 128 /\ n1 >= 128 /\ n2 < 128
    BY <1>4, <1>5, <1>15 DEF TwoBytes, ThreeBytes
  <2>2. Len(b) = 3 /\ Len(WriteLen[n2]) = 1 /\ WriteLen[n2][1] = n2
    BY <1>3, <1>5, <1>8, <1>15, <2>1
  <2>3. Len(WriteLen[n1]) = 2 /\ WriteLen[n1][1] = (n1 % 128) + 128
        /\ WriteLen[n1][1 + 1] = n2
    BY <1>11, <2>1, <2>2
  <2>4. b[1] = (n % 128) + 128 /\ b[2] = (n1 % 128) + 128 /\ b[3] = n2
    <3>1. b[1 + 1] = WriteLen[n1][1] /\ b[2 + 1] = WriteLen[n1][2]
      BY <1>10, <2>1, <2>3
    <3> QED
      BY <1>10, <3>1, <2>1, <2>3
  <2>5. DecodeLen(b) = (b[1] % 128) + (b[2] % 128) * 128 + (b[3] % 128) * TwoBytes
    BY <1>1, <1>2, <2>2, DecodeUnfolds
  <2>6. b[1] % 128 = n % 128
    BY <2>4, Digit128
  <2>7. b[2] % 128 = n1 % 128
    BY <2>4, <1>4, Digit128
  <2>8. b[3] % 128 = n2
    BY <2>1, <2>4, <1>5, <1>7
  <2>9. DecodeLen(b) = n
    BY <2>5, <2>6, <2>7, <2>8, <1>4, <1>5 DEF TwoBytes
  <2> QED
    BY <2>9 DEF b
<1>16. CASE n >= ThreeBytes
  <2>1. n >= 128 /\ n1 >= 128 /\ n2 >= 128 /\ n3 < 128
    BY <1>4, <1>5, <1>6, <1>16 DEF ThreeBytes, FourBytes
  <2>2. Len(b) = 4 /\ Len(WriteLen[n3]) = 1 /\ WriteLen[n3][1] = n3
    BY <1>3, <1>6, <1>8, <1>16, <2>1
  <2>3. Len(WriteLen[n2]) = 2 /\ WriteLen[n2][1] = (n2 % 128) + 128
        /\ WriteLen[n2][1 + 1] = n3
    BY <1>12, <2>1, <2>2
  <2>4. Len(WriteLen[n1]) = 3 /\ WriteLen[n1][1] = (n1 % 128) + 128
        /\ WriteLen[n1][1 + 1] = (n2 % 128) + 128 /\ WriteLen[n1][2 + 1] = WriteLen[n2][2]
    BY <1>11, <2>1, <2>3
  <2>5. b[1] = (n % 128) + 128 /\ b[2] = (n1 % 128) + 128 /\ b[3] = (n2 % 128) + 128
        /\ b[4] = n3
    <3>1. b[1 + 1] = WriteLen[n1][1] /\ b[2 + 1] = WriteLen[n1][2] /\ b[3 + 1] = WriteLen[n1][3]
      BY <1>10, <2>1, <2>4
    <3> QED
      BY <1>10, <3>1, <2>1, <2>3, <2>4
  <2>6. DecodeLen(b) = (b[1] % 128) + (b[2] % 128) * 128 + (b[3] % 128) * TwoBytes
                         + (b[4] % 128) * ThreeBytes
    BY <1>1, <1>2, <2>2, DecodeUnfolds
  <2>7. b[1] % 128 = n % 128
    BY <2>5, Digit128
  <2>8. b[2] % 128 = n1 % 128
    BY <2>5, <1>4, Digit128
  <2>9. b[3] % 128 = n2 % 128
    BY <2>5, <1>5, Digit128
  <2>10. b[4] % 128 = n3
    BY <2>1, <2>5, <1>6, <1>7
  <2>11. n = (n % 128) + (n1 % 128) * 128 + (n2 % 128) * TwoBytes + n3 * ThreeBytes
    BY <1>4, <1>5, <1>6 DEF TwoBytes, ThreeBytes
  <2>12. DecodeLen(b) = n
    BY <2>6, <2>7, <2>8, <2>9, <2>10, <2>11
  <2> QED
    BY <2>12 DEF b
<1> QED
  BY <1>13, <1>14, <1>15, <1>16 DEF TwoBytes, ThreeBytes

\* The encoding takes as few bytes as the length allows.
LEMMA LeastPower ==
    ASSUME NEW n \in Nat, n < FourBytes
    PROVE  Len(WriteLen[n]) = Min({ d \in 1..4 : n < 128^d \/ d = 4 })
<1> DEFINE S == { d \in 1..4 : n < 128^d \/ d = 4 }
           L == Len(WriteLen[n])
<1>1. /\ n < 128 => L = 1
      /\ n >= 128 /\ n < TwoBytes => L = 2
      /\ n >= TwoBytes /\ n < ThreeBytes => L = 3
      /\ n >= ThreeBytes /\ n < FourBytes => L = 4
  BY LengthBytes
<1> HIDE DEF L
<1>2. \A d \in 1..4 : d \in S <=> \/ d = 1 /\ n < 128
                                  \/ d = 2 /\ n < TwoBytes
                                  \/ d = 3 /\ n < ThreeBytes
                                  \/ d = 4
  <2>1. \A d \in 1..4 : d = 1 \/ d = 2 \/ d = 3 \/ d = 4
    OBVIOUS
  <2>2. 1 \in S <=> n < 128^1
    OBVIOUS
  <2>3. 2 \in S <=> n < 128^2
    OBVIOUS
  <2>4. 3 \in S <=> n < 128^3
    OBVIOUS
  <2>5. 4 \in S
    OBVIOUS
  <2> HIDE DEF S
  <2> QED
    BY <2>1, <2>2, <2>3, <2>4, <2>5, Powers128
<1>3. S \subseteq 1..4
  OBVIOUS
<1> HIDE DEF S
<1>4. L \in S /\ \A d \in S : L <= d
  BY <1>1, <1>2, <1>3 DEF TwoBytes, ThreeBytes
<1>5. \A d \in S : (\A e \in S : d <= e) => d = L
  BY <1>3, <1>4
<1>6. Min(S) = L
  BY <1>4, <1>5 DEF Min
<1> QED
  BY <1>6 DEF S, L

\* The two bytes of the length of a string are read back as they were written.
LEMMA Uint16Agrees ==
    ASSUME NEW n \in Nat, n < 65536
    PROVE  ReadUint16(WriteUint16(n)) = n
<1>1. n % 65536 = n
  OBVIOUS
<1>2. WriteUint16(n) = << n \div 256, n % 256 >>
  BY <1>1 DEF WriteUint16
<1>3. ReadUint16(WriteUint16(n)) = (n % 256) + 256 * (n \div 256)
  BY <1>2 DEF ReadUint16
<1> QED
  BY <1>3

\* A PUBLISH has one topic.
LEMMA PublishFields ==
    ASSUME NEW p, IsPacket(p), p.type = "PUBLISH"
    PROVE  /\ p.topics[1] \in Nat /\ p.payload \in Nat /\ p.qos \in Nat
           /\ p.topics = << p.topics[1] >>
<1>1. p.type # "SUBSCRIBE" /\ p.type # "UNSUBSCRIBE" /\ p.type # "CONNECT"
      /\ p # Ack /\ p # Zero
  BY DEF Ack, Zero
<1>2. /\ p = Publish(p.topics[1], p.payload, p.qos)
      /\ { p.topics[1], p.payload, p.qos } \subseteq Nat
  BY <1>1 DEF IsPacket
<1>3. p.topics = << p.topics[1] >>
  BY <1>2 DEF Publish
<1> QED
  BY <1>2, <1>3

\* What is left of a PUBLISH after its topic and its id is its payload.
LEMMA PayloadAgrees ==
    ASSUME NEW p, IsPacket(p), p.type = "PUBLISH"
    PROVE  PayloadLen(RemainingLength(p), p.topics[1], p.qos) = p.payload
<1>1. p.topics[1] \in Nat /\ p.payload \in Nat /\ p.qos \in Nat
  BY PublishFields
<1>2. RemainingLength(p) = p.topics[1] + p.payload + 2 + (IF p.qos > 0 THEN 2 ELSE 0)
  BY DEF RemainingLength
<1> QED
  BY <1>1, <1>2 DEF PayloadLen

\* The members of a sequence.
LEMMA RangeOf ==
    ASSUME NEW S, NEW s \in Seq(S)
    PROVE  Range(s) \subseteq S
BY DEF Range

-----------------------------------------------------------------------------
(* The sum of widths.  It is the number of cells of a table with a column   *)
(* of that height for each of them; so it does not depend on the order in   *)
(* which a fold takes them.                                                 *)

Cells(w, S) == { c \in S \X Nat : 1 <= c[2] /\ c[2] <= w[c[1]] }

Widths(w, S) == IsFiniteSet(S) /\ \A d \in S : w[d] \in Nat

\* A column more has as many cells more as it is high.
LEMMA CellsOfColumn ==
    ASSUME NEW w, NEW S, NEW x \in S, \A d \in S : w[d] \in Nat,
           IsFiniteSet(Cells(w, S \ { x }))
    PROVE  /\ IsFiniteSet(Cells(w, S))
           /\ Cardinality(Cells(w, S)) = w[x] + Cardinality(Cells(w, S \ { x }))
<1> DEFINE column == { x } \X (1..w[x])
           rest == Cells(w, S \ { x })
<1>1. w[x] \in Nat
  OBVIOUS
<1>2. IsFiniteSet(column) /\ Cardinality(column) = w[x]
  <2>1. IsFiniteSet({ x }) /\ Cardinality({ x }) = 1
    BY FS_Singleton
  <2>2. IsFiniteSet(1..w[x]) /\ Cardinality(1..w[x]) = w[x]
    BY <1>1, FS_Interval, SMTT(20)
  <2>3. IsFiniteSet(column) /\ Cardinality(column) = Cardinality({ x }) * Cardinality(1..w[x])
    BY <2>1, <2>2, FS_Product
  <2> HIDE DEF column
  <2> QED
    BY <1>1, <2>1, <2>2, <2>3
<1>3. Cells(w, S) = rest \cup column
  <2>1. ASSUME NEW c \in Cells(w, S) PROVE c \in rest \cup column
    <3>1. /\ c \in S \X Nat /\ c[1] \in S /\ c[2] \in Nat /\ c = << c[1], c[2] >>
          /\ 1 <= c[2] /\ c[2] <= w[c[1]]
      BY DEF Cells
    <3>2. CASE c[1] = x
      <4>1. c[2] \in 1..w[x]
        BY <3>1, <3>2, <1>1
      <4>2. << x, c[2] >> \in column
        BY <4>1
      <4> QED
        BY <3>1, <3>2, <4>2
    <3>3. CASE c[1] # x
      <4>1. c \in (S \ { x }) \X Nat
        BY <3>1, <3>3
      <4> QED
        BY <3>1, <4>1 DEF Cells
    <3> QED
      BY <3>2, <3>3
  <2>2. ASSUME NEW c \in rest PROVE c \in Cells(w, S)
    BY DEF Cells
  <2>3. ASSUME NEW c \in column PROVE c \in Cells(w, S)
    <3>1. c[1] = x /\ c[2] \in 1..w[x] /\ c = << x, c[2] >>
      OBVIOUS
    <3>2. c[2] \in Nat /\ 1 <= c[2] /\ c[2] <= w[x]
      BY <3>1, <1>1
    <3>3. c \in S \X Nat
      BY <3>1, <3>2
    <3> QED
      BY <3>1, <3>2, <3>3 DEF Cells
  <2> QED
    BY <2>1, <2>2, <2>3
<1>4. rest \cap column = {}
  <2>1. \A c \in rest : c[1] # x
    BY DEF Cells
  <2>2. \A c \in column : c[1] = x
    OBVIOUS
  <2> QED
    BY <2>1, <2>2
<1> HIDE DEF rest, column
<1>5. IsFiniteSet(rest)
  BY DEF rest
<1>6. /\ IsFiniteSet(rest \cup column)
      /\ Cardinality(rest \cup column)
            = Cardinality(rest) + Cardinality(column) - Cardinality(rest \cap column)
  BY <1>2, <1>5, FS_Union
<1>7. Cardinality(rest \cap column) = 0 /\ Cardinality(rest) \in Nat
  BY <1>4, <1>5, FS_EmptySet, FS_CardinalityType
<1>8. Cardinality(rest \cup column) = w[x] + Cardinality(rest)
  BY <1>1, <1>2, <1>6, <1>7
<1> QED
  BY <1>3, <1>6, <1>8 DEF rest

\* A table without columns is empty,
LEMMA CellsOfNone ==
    ASSUME NEW w
    PROVE  Cells(w, {}) = {} /\ IsFiniteSet(Cells(w, {})) /\ Cardinality(Cells(w, {})) = 0
<1>1. Cells(w, {}) = {}
  BY DEF Cells
<1> QED
  BY <1>1, FS_EmptySet

\* one with finitely many of them finite.
LEMMA CellsFinite ==
    ASSUME NEW w, NEW S, Widths(w, S)
    PROVE  IsFiniteSet(Cells(w, S))
<1> DEFINE Bad == { T \in SUBSET S : ~IsFiniteSet(Cells(w, T)) }
           Sizes == { n \in Nat : \E T \in Bad : Cardinality(T) = n }
<1>1. ASSUME NEW T \in SUBSET S PROVE Widths(w, T) /\ Cardinality(T) \in Nat
  BY FS_Subset, FS_CardinalityType DEF Widths
<1>2. ASSUME Bad # {} PROVE FALSE
  <2>1. Sizes # {} /\ Sizes \in SUBSET Nat
    BY <1>1, <1>2
  <2>2. PICK n \in Sizes : \A m \in Sizes : n <= m
    BY <2>1, LeastNatural
  <2>3. PICK T \in Bad : Cardinality(T) = n
    OBVIOUS
  <2>4. T # {}
    BY CellsOfNone
  <2>5. PICK x : x \in T
    BY <2>4
  <2>6. T \in SUBSET S /\ T \ { x } \in SUBSET S /\ IsFiniteSet(T)
    BY <1>1 DEF Widths
  <2>7. Cardinality(T \ { x }) = n - 1
    BY <2>3, <2>5, <2>6, FS_RemoveElement
  <2>8. T \ { x } \notin Bad
    BY <2>2, <2>6, <2>7, <1>1
  <2>9. IsFiniteSet(Cells(w, T \ { x }))
    BY <2>6, <2>8
  <2>10. \A d \in T : w[d] \in Nat
    BY <2>6 DEF Widths
  <2>11. IsFiniteSet(Cells(w, T))
    BY <2>5, <2>9, <2>10, CellsOfColumn
  <2> QED
    BY <2>11
<1>3. S \notin Bad
  BY <1>2
<1> QED
  BY <1>3

\* FoldFunctionOnSet adds up one width after the other.
LEMMA SumIsCells ==
    ASSUME NEW w, NEW S, Widths(w, S)
    PROVE  SumFunctionOnSet(w, S) = Cardinality(Cells(w, S))
<1> DEFINE F(g) == [s \in SUBSET S |-> IF s = {} THEN 0
                       ELSE w[CHOOSE x \in s : TRUE] + g[s \ { CHOOSE x \in s : TRUE }]]
           count == [s \in SUBSET S |-> Cardinality(Cells(w, s))]
           iter == CHOOSE g : g = F(g)
<1>1. SumFunctionOnSet(w, S) = iter[S]
  BY DEF SumFunctionOnSet, FoldFunctionOnSet, MapThenFoldSet
<1>2. ASSUME NEW T \in SUBSET S
      PROVE  /\ Widths(w, T) /\ Cardinality(T) \in Nat /\ IsFiniteSet(T)
             /\ IsFiniteSet(Cells(w, T))
  <2>1. Widths(w, T) /\ Cardinality(T) \in Nat
    BY FS_Subset, FS_CardinalityType DEF Widths
  <2> QED
    BY <2>1, CellsFinite DEF Widths
<1>3. ASSUME NEW T \in SUBSET S, NEW x \in T
      PROVE  /\ T \ { x } \in SUBSET S
             /\ Cardinality(Cells(w, T)) = w[x] + Cardinality(Cells(w, T \ { x }))
  <2>1. T \ { x } \in SUBSET S /\ \A d \in T : w[d] \in Nat
    BY <1>2 DEF Widths
  <2>2. IsFiniteSet(Cells(w, T \ { x }))
    BY <1>2, <2>1
  <2> QED
    BY <2>1, <2>2, CellsOfColumn
<1>4. \A T : T # {} => (CHOOSE x \in T : TRUE) \in T
  OBVIOUS
<1>5. count = F(count)
  <2>1. ASSUME NEW T \in SUBSET S
        PROVE  count[T] = IF T = {} THEN 0
                 ELSE w[CHOOSE x \in T : TRUE] + count[T \ { CHOOSE x \in T : TRUE }]
    <3>1. CASE T = {}
      BY <3>1, CellsOfNone
    <3>2. CASE T # {}
      <4> DEFINE y == CHOOSE x \in T : TRUE
      <4>1. y \in T
        BY <3>2
      <4> HIDE DEF y
      <4>2. T \ { y } \in SUBSET S
             /\ Cardinality(Cells(w, T)) = w[y] + Cardinality(Cells(w, T \ { y }))
        BY <4>1, <1>3
      <4>3. count[T] = w[y] + count[T \ { y }]
        BY <4>2
      <4> QED
        BY <3>2, <4>3 DEF y
    <3> QED
      BY <3>1, <3>2
  <2>2. count = [s \in SUBSET S |-> count[s]]
    OBVIOUS
  <2> HIDE DEF count
  <2> QED
    BY <2>1, <2>2
<1> HIDE DEF F
<1>6. iter = F(iter)
  BY <1>5
<1> HIDE DEF iter
<1>7. \A T \in SUBSET S : iter[T] = IF T = {} THEN 0
                 ELSE w[CHOOSE x \in T : TRUE] + iter[T \ { CHOOSE x \in T : TRUE }]
  BY <1>6 DEF F
<1> DEFINE Bad == { T \in SUBSET S : iter[T] # count[T] }
           Sizes == { n \in Nat : \E T \in Bad : Cardinality(T) = n }
<1>8. ASSUME Bad # {} PROVE FALSE
  <2>1. Sizes # {} /\ Sizes \in SUBSET Nat
    BY <1>2, <1>8
  <2>2. PICK n \in Sizes : \A m \in Sizes : n <= m
    BY <2>1, LeastNatural
  <2>3. PICK T \in Bad : Cardinality(T) = n
    OBVIOUS
  <2>4. T # {}
    <3>1. count[{}] = 0 /\ iter[{}] = 0
      BY <1>7, CellsOfNone
    <3> QED
      BY <3>1
  <2> DEFINE y == CHOOSE x \in T : TRUE
  <2>5. y \in T
    BY <2>4
  <2>6. iter[T] = w[y] + iter[T \ { y }]
    BY <2>4, <1>7
  <2> HIDE DEF y
  <2>7. T \in SUBSET S /\ T \ { y } \in SUBSET S /\ IsFiniteSet(T)
    BY <1>2
  <2>8. count[T] = w[y] + count[T \ { y }]
    BY <2>5, <2>7, <1>3
  <2>9. Cardinality(T \ { y }) = n - 1
    BY <2>3, <2>5, <2>7, FS_RemoveElement
  <2>10. T \ { y } \notin Bad
    BY <2>2, <2>7, <2>9, <1>2
  <2> QED
    BY <2>6, <2>7, <2>8, <2>10
<1>9. iter[S] = count[S]
  BY <1>8
<1> QED
  BY <1>1, <1>9

\* The cells of a table and of what is left of it without a column.
LEMMA ColumnOf ==
    ASSUME NEW w, NEW S, Widths(w, S), NEW x \in S
    PROVE  Cardinality(Cells(w, S)) = w[x] + Cardinality(Cells(w, S \ { x }))
<1>1. Widths(w, S \ { x })
  BY FS_Subset DEF Widths
<1>2. IsFiniteSet(Cells(w, S \ { x }))
  BY <1>1, CellsFinite
<1>3. \A d \in S : w[d] \in Nat
  BY DEF Widths
<1> QED
  BY <1>2, <1>3, CellsOfColumn

\* The total of a sequence is the number of cells of its table;
LEMMA WidthsOfSeq ==
    ASSUME NEW w \in Seq(Nat)
    PROVE  /\ Widths(w, 1..Len(w)) /\ Total(w) = Cardinality(Cells(w, 1..Len(w)))
           /\ Total(w) \in Nat
<1>1. Len(w) \in Nat /\ DOMAIN w = 1..Len(w)
  OBVIOUS
<1>2. IsFiniteSet(1..Len(w))
  BY <1>1, FS_Interval
<1>3. Widths(w, 1..Len(w))
  BY <1>2 DEF Widths
<1>4. Total(w) = SumFunctionOnSet(w, 1..Len(w))
  BY <1>1 DEF Total, SumFunction
<1>5. Total(w) = Cardinality(Cells(w, 1..Len(w)))
  BY <1>3, <1>4, SumIsCells
<1>6. Cardinality(Cells(w, 1..Len(w))) \in Nat
  BY <1>3, CellsFinite, FS_CardinalityType
<1> QED
  BY <1>3, <1>5, <1>6

\* that of the empty one is 0,
LEMMA TotalEmpty ==
    Total(<< >>) = 0
<1>1. << >> \in Seq(Nat) /\ 1..Len(<< >>) = {}
  OBVIOUS
<1> QED
  BY <1>1, WidthsOfSeq, CellsOfNone

\* and one more element adds its width.
LEMMA TotalAppend ==
    ASSUME NEW w \in Seq(Nat), NEW x \in Nat
    PROVE  Total(Append(w, x)) = Total(w) + x
<1> DEFINE v == Append(w, x)
           n == Len(w)
<1>1. n \in Nat /\ v \in Seq(Nat) /\ Len(v) = n + 1 /\ v[n + 1] = x
      /\ \A i \in 1..n : v[i] = w[i]
  OBVIOUS
<1> HIDE DEF v, n
<1>2. /\ Widths(v, 1..(n + 1)) /\ Total(v) = Cardinality(Cells(v, 1..(n + 1)))
      /\ Total(w) = Cardinality(Cells(w, 1..n)) /\ Total(w) \in Nat
      /\ Widths(w, 1..n)
  BY <1>1, WidthsOfSeq DEF n
<1>3. (1..(n + 1)) \ { n + 1 } = 1..n /\ n + 1 \in 1..(n + 1)
  BY <1>1
<1>4. Cells(v, 1..n) = Cells(w, 1..n)
  <2>1. \A c \in (1..n) \X Nat : v[c[1]] = w[c[1]]
    BY <1>1
  <2> QED
    BY <2>1 DEF Cells
<1>5. Cardinality(Cells(v, 1..(n + 1)))
        = v[n + 1] + Cardinality(Cells(v, (1..(n + 1)) \ { n + 1 }))
  <2> DEFINE S == 1..(n + 1)
             e == n + 1
  <2>1. e \in S /\ Widths(v, S)
    BY <1>2, <1>3
  <2> HIDE DEF S, e
  <2>2. Cardinality(Cells(v, S)) = v[e] + Cardinality(Cells(v, S \ { e }))
    BY <2>1, ColumnOf
  <2> QED
    BY <2>2 DEF S, e
<1>6. Cardinality(Cells(v, 1..(n + 1))) = v[n + 1] + Cardinality(Cells(v, 1..n))
  BY <1>3, <1>5
<1>7. x \in Nat /\ Total(v) = x + Total(w)
  BY <1>1, <1>2, <1>4, <1>6
<1>8. Total(v) = Total(w) + x
  BY <1>2, <1>7
<1> QED
  BY <1>8 DEF v

\* A sequence that is not empty is one with its last element appended.
LEMMA LastSplit ==
    ASSUME NEW t \in Seq(Nat), Len(t) # 0
    PROVE  \E u \in Seq(Nat), x \in Nat : t = Append(u, x) /\ Len(u) = Len(t) - 1
<1> DEFINE n == Len(t)
           u == [i \in 1..(n - 1) |-> t[i]]
<1>1. n \in Nat /\ n >= 1 /\ \A i \in 1..n : t[i] \in Nat
  OBVIOUS
<1>2. u \in Seq(Nat) /\ Len(u) = n - 1
  BY <1>1
<1>3. t = Append(u, t[n])
  BY <1>1, <1>2
<1>4. u \in Seq(Nat) /\ t[n] \in Nat /\ t = Append(u, t[n]) /\ Len(u) = Len(t) - 1
  BY <1>1, <1>2, <1>3
<1> HIDE DEF n, u
<1> QED
  BY <1>4

\* The totals of two sequences add up.
LEMMA TotalConcat ==
    ASSUME NEW s \in Seq(Nat), NEW t \in Seq(Nat)
    PROVE  s \o t \in Seq(Nat) /\ Total(s \o t) = Total(s) + Total(t)
<1> DEFINE Bad == { k \in Nat : \E u \in Seq(Nat) :
                       Len(u) = k /\ Total(s \o u) # Total(s) + Total(u) }
<1>1. ASSUME Bad # {} PROVE FALSE
  <2>1. PICK k \in Bad : \A m \in Bad : k <= m
    BY <1>1, LeastNatural
  <2>2. PICK u \in Seq(Nat) : Len(u) = k /\ Total(s \o u) # Total(s) + Total(u)
    OBVIOUS
  <2>3. k # 0
    <3>1. SUFFICES ASSUME k = 0 PROVE FALSE
      OBVIOUS
    <3>2. u = << >> /\ s \o u = s
      BY <2>2, <3>1
    <3>3. Total(s) \in Nat /\ Total(u) = 0
      BY <3>2, WidthsOfSeq, TotalEmpty
    <3> QED
      BY <2>2, <3>2, <3>3
  <2>4. PICK v \in Seq(Nat), x \in Nat : u = Append(v, x) /\ Len(v) = Len(u) - 1
    BY <2>2, <2>3, LastSplit
  <2>5. k - 1 \in Nat /\ k - 1 \notin Bad
    BY <2>1, <2>2, <2>3
  <2>6. Total(s \o v) = Total(s) + Total(v)
    BY <2>2, <2>4, <2>5
  <2>7. s \o u = Append(s \o v, x) /\ s \o v \in Seq(Nat)
    BY <2>4
  <2>8. Total(s \o u) = Total(s \o v) + x /\ Total(u) = Total(v) + x
    BY <2>4, <2>7, TotalAppend
  <2>9. Total(s) \in Nat /\ Total(v) \in Nat
    BY WidthsOfSeq
  <2> QED
    BY <2>2, <2>6, <2>8, <2>9
<1>2. Len(t) \in Nat /\ Len(t) \notin Bad
  BY <1>1
<1>3. Total(s \o t) = Total(s) + Total(t)
  BY <1>2
<1> QED
  BY <1>3

\* So do their lengths.
LEMMA ConcatLen ==
    ASSUME NEW s \in Seq(Nat), NEW t \in Seq(Nat)
    PROVE  Len(s \o t) = Len(s) + Len(t)
  OBVIOUS

\* The total of one element.
LEMMA TotalOne ==
    ASSUME NEW x \in Nat
    PROVE  << x >> \in Seq(Nat) /\ Total(<< x >>) = x
<1>1. << x >> = Append(<< >>, x) /\ << >> \in Seq(Nat)
  OBVIOUS
<1>2. Total(Append(<< >>, x)) = Total(<< >>) + x
  BY <1>1, TotalAppend
<1>3. << x >> \in Seq(Nat)
  OBVIOUS
<1>4. 0 + x = x
  OBVIOUS
<1> QED
  BY <1>1, <1>2, <1>3, <1>4, TotalEmpty

\* Strings take their length and two bytes each.
LEMMA TotalStrings ==
    ASSUME NEW l \in Seq(Nat)
    PROVE  StringsOf(l) \in Seq(Nat) /\ Total(StringsOf(l)) = Total(l) + 2 * Len(l)
<1> DEFINE OK(u) == StringsOf(u) \in Seq(Nat) /\ Total(StringsOf(u)) = Total(u) + 2 * Len(u)
           Bad == { k \in Nat : \E u \in Seq(Nat) : Len(u) = k /\ ~OK(u) }
<1>1. ASSUME Bad # {} PROVE FALSE
  <2>1. PICK k \in Bad : \A m \in Bad : k <= m
    BY <1>1, LeastNatural
  <2>2. PICK u \in Seq(Nat) : Len(u) = k /\ ~OK(u)
    OBVIOUS
  <2>3. k # 0
    <3>1. SUFFICES ASSUME k = 0 PROVE FALSE
      OBVIOUS
    <3>2. u = << >>
      BY <2>2, <3>1
    <3>3. StringsOf(<< >>) = << >>
      BY DEF StringsOf
    <3> QED
      BY <2>2, <3>2, <3>3, TotalEmpty
  <2>4. PICK v \in Seq(Nat), x \in Nat : u = Append(v, x) /\ Len(v) = Len(u) - 1
    BY <2>2, <2>3, LastSplit
  <2>5. k - 1 \in Nat /\ k - 1 \notin Bad
    BY <2>1, <2>2, <2>3
  <2>6. OK(v)
    BY <2>2, <2>4, <2>5
  <2> DEFINE n == Len(v)
             g == StringsOf(v)
             h == Append(Append(g, 2), x)
             f == StringsOf(u)
  <2>7. n \in Nat /\ Len(u) = n + 1 /\ u[n + 1] = x /\ \A i \in 1..n : u[i] = v[i]
    BY <2>4
  <2>8. /\ g = [i \in 1..(2 * n) |-> IF i % 2 = 1 THEN 2 ELSE v[i \div 2]]
        /\ f = [i \in 1..(2 * (n + 1)) |-> IF i % 2 = 1 THEN 2 ELSE u[i \div 2]]
    BY <2>7 DEF StringsOf
  <2>9. g \in Seq(Nat) /\ Len(g) = 2 * n
    BY <2>6, <2>7, <2>8
  <2> HIDE DEF n, g, f
  <2>10. /\ h \in Seq(Nat) /\ Len(h) = 2 * n + 2 /\ h[2 * n + 1] = 2 /\ h[2 * n + 2] = x
         /\ \A i \in 1..(2 * n) : h[i] = g[i]
    BY <2>7, <2>9
  <2> HIDE DEF h
  <2>11. ASSUME NEW i \in 1..(2 * n + 2) PROVE f[i] = h[i]
    <3>1. i \in 1..(2 * (n + 1))
      BY <2>7
    <3>2. CASE i \in 1..(2 * n)
      <4>1. f[i] = (IF i % 2 = 1 THEN 2 ELSE u[i \div 2])
            /\ g[i] = IF i % 2 = 1 THEN 2 ELSE v[i \div 2]
        BY <3>1, <3>2, <2>8
      <4>2. CASE i % 2 = 1
        BY <3>2, <4>1, <4>2, <2>10
      <4>3. CASE i % 2 # 1
        <5>1. \A a \in Nat, b \in Nat : a >= 1 /\ a <= 2 * b /\ a % 2 # 1 => a \div 2 \in 1..b
          OBVIOUS
        <5>2. i \div 2 \in 1..n
          BY <5>1, <3>2, <4>3, <2>7
        <5>3. u[i \div 2] = v[i \div 2]
          BY <5>2, <2>7
        <5> QED
          BY <3>2, <4>1, <4>3, <5>3, <2>10
      <4> QED
        BY <4>2, <4>3
    <3>3. CASE i = 2 * n + 1
      <4>1. i % 2 = 1
        BY <3>3, <2>7
      <4> QED
        BY <3>1, <3>3, <4>1, <2>8, <2>10
    <3>4. CASE i = 2 * n + 2
      <4>1. i % 2 # 1 /\ i \div 2 = n + 1
        BY <3>4, <2>7
      <4> QED
        BY <3>1, <3>4, <4>1, <2>7, <2>8, <2>10
    <3> QED
      BY <3>2, <3>3, <3>4, <2>7
  <2>12. f = h
    <3>1. f = [i \in 1..(2 * n + 2) |-> f[i]]
      <4>1. 1..(2 * (n + 1)) = 1..(2 * n + 2)
        BY <2>7
      <4> QED
        BY <4>1, <2>8
    <3>2. h = [i \in 1..(2 * n + 2) |-> h[i]]
      BY <2>10
    <3> QED
      BY <3>1, <3>2, <2>11
  <2>13. Total(h) = Total(g) + 2 + x
    <3>1. Append(g, 2) \in Seq(Nat) /\ Total(Append(g, 2)) = Total(g) + 2
      BY <2>9, TotalAppend
    <3> QED
      BY <3>1, TotalAppend DEF h
  <2>14. Total(u) = Total(v) + x /\ Total(v) \in Nat
    BY <2>4, TotalAppend, WidthsOfSeq
  <2>15. Total(g) = Total(v) + 2 * n
    BY <2>6 DEF g, n
  <2>16. Total(f) = Total(u) + 2 * Len(u)
    BY <2>7, <2>12, <2>13, <2>14, <2>15
  <2>17. f \in Seq(Nat)
    BY <2>10, <2>12
  <2> QED
    BY <2>2, <2>16, <2>17 DEF f
<1>2. Len(l) \in Nat /\ Len(l) \notin Bad
  BY <1>1
<1> QED
  BY <1>2

\* One byte for each topic.
LEMMA TotalOnes ==
    ASSUME NEW n \in Nat
    PROVE  [i \in 1..n |-> 1] \in Seq(Nat) /\ Total([i \in 1..n |-> 1]) = n
<1> DEFINE w(k) == [i \in 1..k |-> 1]
           Bad == { k \in Nat : Total(w(k)) # k }
<1>1. \A k \in Nat : w(k) \in Seq(Nat) /\ Len(w(k)) = k
  OBVIOUS
<1>2. ASSUME Bad # {} PROVE FALSE
  <2>1. PICK k \in Bad : \A m \in Bad : k <= m
    BY <1>2, LeastNatural
  <2>2. k # 0
    <3>1. w(0) = << >>
      OBVIOUS
    <3> QED
      BY <3>1, TotalEmpty
  <2>3. k - 1 \in Nat /\ k - 1 \notin Bad
    BY <2>1, <2>2
  <2>4. Total(w(k - 1)) = k - 1
    BY <2>3
  <2>5. w(k) = Append(w(k - 1), 1)
    <3>1. \A a \in Nat : a # 0 => w(a) = Append(w(a - 1), 1)
      OBVIOUS
    <3> QED
      BY <2>2, <3>1
  <2> HIDE DEF w
  <2>6. Total(w(k)) = Total(w(k - 1)) + 1
    BY <1>1, <2>3, <2>5, TotalAppend
  <2> QED
    BY <2>3, <2>4, <2>6
<1>3. Total(w(n)) = n
  BY <1>2
<1> QED
  BY <1>1, <1>3

\* Of every packet the serializer writes as many bytes as it has announced.
LEMMA PublishAddsUp ==
    ASSUME NEW p, IsPacket(p), p.type = "PUBLISH"
    PROVE  RemainingLength(p) \in Nat /\ Total(Fields(p)) = RemainingLength(p)
<1> DEFINE t == p.topics[1]
           id == IF p.qos > 0 THEN << 2 >> ELSE << >>
           strings == StringsOf(p.topics)
<1>1. t \in Nat /\ p.payload \in Nat /\ p.qos \in Nat /\ p.topics = << t >>
  BY PublishFields
<1>2. RemainingLength(p) = t + p.payload + 2 + (IF p.qos > 0 THEN 2 ELSE 0)
  BY DEF RemainingLength
<1>3. Fields(p) = strings \o id \o << p.payload >>
  BY DEF Fields
<1>4. p.topics \in Seq(Nat) /\ Total(p.topics) = t /\ Len(p.topics) = 1
  BY <1>1, TotalOne
<1>5. strings \in Seq(Nat) /\ Total(strings) = t + 2
  <2>1. strings \in Seq(Nat) /\ Total(strings) = Total(p.topics) + 2 * Len(p.topics)
    BY <1>4, TotalStrings
  <2> HIDE DEF strings, t
  <2>2. 2 * Len(p.topics) = 2
    BY <1>4
  <2> QED
    BY <2>1, <2>2, <1>4
<1>6. id \in Seq(Nat) /\ Total(id) = IF p.qos > 0 THEN 2 ELSE 0
  BY <1>1, TotalOne, TotalEmpty
<1>7. << p.payload >> \in Seq(Nat) /\ Total(<< p.payload >>) = p.payload
  BY <1>1, TotalOne
<1> HIDE DEF id, strings, t
<1>8. strings \o id \in Seq(Nat) /\ Total(strings \o id) = Total(strings) + Total(id)
  BY <1>5, <1>6, TotalConcat
<1>9. Total(strings \o id \o << p.payload >>) = Total(strings \o id) + Total(<< p.payload >>)
  BY <1>7, <1>8, TotalConcat
<1> QED
  BY <1>1, <1>2, <1>3, <1>5, <1>6, <1>7, <1>8, <1>9

\* The id, the topics and, for SUBSCRIBE, the QoS of each.
LEMMA TopicsAddUp ==
    ASSUME NEW p, IsPacket(p), p.type \in { "SUBSCRIBE", "UNSUBSCRIBE" }
    PROVE  RemainingLength(p) \in Nat /\ Total(Fields(p)) = RemainingLength(p)
<1> DEFINE l == p.topics
           n == Len(p.topics)
           strings == StringsOf(p.topics)
           ones == [i \in DOMAIN p.topics |-> 1]
<1>1. p.type # "PUBLISH" /\ p.type # "CONNECT" /\ p # Ack /\ p # Zero
  BY DEF Ack, Zero
<1>2. l \in Seq(Nat) /\ n \in Nat /\ DOMAIN l = 1..n
  BY <1>1 DEF IsPacket
<1>3. Total(l) \in Nat /\ strings \in Seq(Nat) /\ Total(strings) = Total(l) + 2 * n
  BY <1>2, WidthsOfSeq, TotalStrings
<1>4. ones \in Seq(Nat) /\ Total(ones) = n
  BY <1>2, TotalOnes
<1>5. << 2 >> \in Seq(Nat) /\ Total(<< 2 >>) = 2
  BY TotalOne
<1>6. << 2 >> \o strings \in Seq(Nat) /\ Total(<< 2 >> \o strings) = 2 + Total(strings)
  BY <1>3, <1>5, TotalConcat
<1>7. Total(<< 2 >> \o strings \o ones) = Total(<< 2 >> \o strings) + Total(ones)
  BY <1>4, <1>6, TotalConcat
<1>8. CASE p.type = "SUBSCRIBE"
  <2>1. RemainingLength(p) = 2 + Total(l) + 3 * n
    BY <1>8 DEF RemainingLength
  <2>2. Fields(p) = << 2 >> \o strings \o ones
    BY <1>8 DEF Fields
  <2> HIDE DEF l, n, strings, ones
  <2> QED
    BY <2>1, <2>2, <1>2, <1>3, <1>4, <1>6, <1>7
<1>9. CASE p.type = "UNSUBSCRIBE"
  <2>1. RemainingLength(p) = 2 + Total(l) + 2 * n
    BY <1>9 DEF RemainingLength
  <2>2. Fields(p) = << 2 >> \o strings
    BY <1>9 DEF Fields
  <2> HIDE DEF l, n, strings, ones
  <2> QED
    BY <2>1, <2>2, <1>2, <1>3, <1>6
<1> QED
  BY <1>8, <1>9

\* A user name or a password that may be missing.
LEMMA OptionAddsUp ==
    ASSUME NEW o \in Seq(Nat), Len(o) \in { 0, 1 }
    PROVE  OptionLength(o) = Total(o) + 2 * Len(o) /\ Total(o) \in Nat
<1>1. CASE Len(o) = 0
  <2>1. o = << >>
    BY <1>1
  <2> QED
    BY <1>1, <2>1, TotalEmpty DEF OptionLength
<1>2. CASE Len(o) = 1
  <2>1. o = << o[1] >> /\ o[1] \in Nat /\ o # << >>
    BY <1>2
  <2>2. Total(o) = o[1]
    BY <2>1, TotalOne
  <2> QED
    BY <1>2, <2>1, <2>2 DEF OptionLength
<1> QED
  BY <1>1, <1>2

\* The two elements of a pair.
LEMMA PairOf ==
    ASSUME NEW o \in Seq(Nat), Len(o) = 2
    PROVE  o[1] \in Nat /\ o[2] \in Nat /\ o # << >>
<1>1. 1 \in 1..Len(o) /\ 2 \in 1..Len(o)
  OBVIOUS
<1>2. o[1] \in Nat /\ o[2] \in Nat
  BY ONLY <1>1, o \in Seq(Nat), ElementOfSeq
<1>3. o # << >>
  BY ONLY <1>1, o \in Seq(Nat)
<1> QED
  BY <1>2, <1>3

\* Topic and message of a will that may be missing.
LEMMA WillAddsUp ==
    ASSUME NEW p, p.will \in Seq(Nat), Len(p.will) \in { 0, 2 }
    PROVE  WillLength(p) = Total(p.will) + 2 * Len(p.will) /\ Total(p.will) \in Nat
<1> DEFINE o == p.will
<1>1. CASE Len(o) = 0
  <2>1. o = << >>
    BY <1>1
  <2> QED
    BY <1>1, <2>1, TotalEmpty DEF WillLength
<1>2. CASE Len(o) = 2
  <2>1. o[1] \in Nat /\ o[2] \in Nat /\ o # << >>
    BY <1>2, PairOf
  <2>2. o = Append(<< o[1] >>, o[2])
    BY <1>2, <2>1
  <2>3. Total(o) = o[1] + o[2]
    BY <2>1, <2>2, TotalOne, TotalAppend
  <2> QED
    BY <1>2, <2>1, <2>3 DEF WillLength
<1> QED
  BY <1>1, <1>2

\* The variable header of CONNECT and the strings of its payload.
LEMMA ConnectAddsUp ==
    ASSUME NEW p, IsPacket(p), p.type = "CONNECT"
    PROVE  RemainingLength(p) \in Nat /\ Total(Fields(p)) = RemainingLength(p)
<1> DEFINE front == << 2, 4, 1, 1, 2 >>
           a == << p.id >> \o p.will
           b == a \o p.user
           c == b \o p.password
<1>1. p.type # "PUBLISH" /\ p.type # "SUBSCRIBE" /\ p.type # "UNSUBSCRIBE"
      /\ p # Ack /\ p # Zero
  BY DEF Ack, Zero
<1>2. /\ p.id \in Nat /\ p.will \in Seq(Nat) /\ Len(p.will) \in { 0, 2 }
      /\ p.user \in Seq(Nat) /\ p.password \in Seq(Nat)
      /\ Len(p.user) \in { 0, 1 } /\ Len(p.password) \in { 0, 1 }
  BY <1>1 DEF IsPacket
<1>3. RemainingLength(p) = 10 + p.id + 2 + WillLength(p) + OptionLength(p.user)
                              + OptionLength(p.password)
  BY DEF RemainingLength
<1>4. Fields(p) = front \o StringsOf(c)
  BY DEF Fields
<1>5. front \in Seq(Nat) /\ Total(front) = 10
  <2> DEFINE f2 == Append(<< 2 >>, 4)
             f3 == Append(f2, 1)
             f4 == Append(f3, 1)
  <2>1. front = Append(f4, 2)
    OBVIOUS
  <2> HIDE DEF f4, front
  <2>2. << 2 >> \in Seq(Nat) /\ Total(<< 2 >>) = 2
    BY TotalOne
  <2>3. f2 \in Seq(Nat) /\ Total(f2) = 6
    BY <2>2, TotalAppend
  <2> HIDE DEF f2
  <2>4. f3 \in Seq(Nat) /\ Total(f3) = 7
    BY <2>3, TotalAppend
  <2> HIDE DEF f3
  <2>5. f4 \in Seq(Nat) /\ Total(f4) = 8
    BY <2>4, TotalAppend DEF f4
  <2> QED
    BY <2>1, <2>5, TotalAppend
<1>6. WillLength(p) = Total(p.will) + 2 * Len(p.will) /\ Total(p.will) \in Nat
  BY <1>2, WillAddsUp
<1>7. /\ OptionLength(p.user) = Total(p.user) + 2 * Len(p.user) /\ Total(p.user) \in Nat
      /\ OptionLength(p.password) = Total(p.password) + 2 * Len(p.password)
      /\ Total(p.password) \in Nat
  BY <1>2, OptionAddsUp
<1>8. << p.id >> \in Seq(Nat) /\ Total(<< p.id >>) = p.id /\ Len(<< p.id >>) = 1
  BY <1>2, TotalOne
<1>9. /\ a \in Seq(Nat) /\ Total(a) = p.id + Total(p.will)
      /\ Len(a) = 1 + Len(p.will)
  <2>1. a \in Seq(Nat) /\ Total(a) = Total(<< p.id >>) + Total(p.will)
    BY <1>2, <1>8, TotalConcat
  <2>2. Len(a) = Len(<< p.id >>) + Len(p.will)
    BY <1>2, <1>8
  <2> HIDE DEF a
  <2> QED
    BY <1>8, <2>1, <2>2
<1> HIDE DEF a
<1>10. /\ b \in Seq(Nat) /\ Total(b) = Total(a) + Total(p.user)
       /\ Len(b) = Len(a) + Len(p.user)
  <2>1. b \in Seq(Nat) /\ Total(b) = Total(a) + Total(p.user)
    BY <1>2, <1>9, TotalConcat
  <2>2. Len(b) = Len(a) + Len(p.user)
    BY <1>2, <1>9, ConcatLen
  <2> HIDE DEF b
  <2> QED
    BY <2>1, <2>2
<1> HIDE DEF b
<1>11. /\ c \in Seq(Nat) /\ Total(c) = Total(b) + Total(p.password)
       /\ Len(c) = Len(b) + Len(p.password)
  <2>1. c \in Seq(Nat) /\ Total(c) = Total(b) + Total(p.password)
    BY <1>2, <1>10, TotalConcat
  <2>2. Len(c) = Len(b) + Len(p.password)
    BY <1>2, <1>10, ConcatLen
  <2> HIDE DEF c
  <2> QED
    BY <2>1, <2>2
<1> HIDE DEF c
<1>12. StringsOf(c) \in Seq(Nat) /\ Total(StringsOf(c)) = Total(c) + 2 * Len(c)
  BY <1>11, TotalStrings
<1> HIDE DEF front
<1>13. Total(front \o StringsOf(c)) = Total(front) + Total(StringsOf(c))
  BY <1>5, <1>12, TotalConcat
<1>14. Len(p.will) \in Nat /\ Len(p.user) \in Nat /\ Len(p.password) \in Nat
  BY <1>2
<1>15. Total(c) = p.id + Total(p.will) + Total(p.user) + Total(p.password)
       /\ Len(c) = 1 + Len(p.will) + Len(p.user) + Len(p.password)
  BY <1>2, <1>6, <1>7, <1>9, <1>10, <1>11, <1>14
<1>16. Total(front \o StringsOf(c))
         = 10 + ((p.id + Total(p.will) + Total(p.user) + Total(p.password))
                  + 2 * (1 + Len(p.will) + Len(p.user) + Len(p.password)))
  BY <1>5, <1>12, <1>13, <1>15
<1>18. RemainingLength(p)
         = 10 + p.id + 2 + (Total(p.will) + 2 * Len(p.will))
             + (Total(p.user) + 2 * Len(p.user))
             + (Total(p.password) + 2 * Len(p.password))
  BY <1>3, <1>6, <1>7
<1>19. /\ p.id \in Nat /\ Total(p.will) \in Nat /\ Total(p.user) \in Nat
       /\ Total(p.password) \in Nat
  BY <1>2, <1>6, <1>7
<1> DEFINE w == Total(p.will)
           u == Total(p.user)
           s == Total(p.password)
           j == Len(p.will)
           k == Len(p.user)
           l == Len(p.password)
           i == p.id
           T == Total(front \o StringsOf(c))
           R == RemainingLength(p)
<1> HIDE DEF w, u, s, i, j, k, l, T, R
<1>20. /\ RemainingLength(p) = Total(front \o StringsOf(c))
       /\ RemainingLength(p) \in Nat
  <2>1. R = 10 + i + 2 + (w + 2 * j) + (u + 2 * k) + (s + 2 * l)
    BY <1>18 DEF w, u, s, i, j, k, l, R
  <2>2. T = 10 + ((i + w + u + s) + 2 * (1 + j + k + l))
    BY <1>16 DEF w, u, s, i, j, k, l, T
  <2>3. /\ w \in Nat /\ u \in Nat /\ s \in Nat /\ i \in Nat
        /\ j \in Nat /\ k \in Nat /\ l \in Nat
    BY <1>14, <1>19 DEF w, u, s, i, j, k, l
  <2>4. R = T /\ R \in Nat
    BY ONLY <2>1, <2>2, <2>3
  <2> QED
    BY <2>4 DEF R, T
<1> QED
  BY <1>4, <1>20

\* The packets without a topic.
LEMMA FixedAddUp ==
    ASSUME NEW p \in { Ack, Zero }
    PROVE  /\ RemainingLength(p) \in Nat /\ Total(Fields(p)) = RemainingLength(p)
           /\ RemainingLength(p) <= 2 /\ p.type \in { "PUBACK", "PINGREQ" }
<1>1. CASE p = Ack
  <2>1. p.type = "PUBACK"
    BY <1>1 DEF Ack
  <2>2. RemainingLength(p) = 2 /\ Fields(p) = << 2 >>
    BY <2>1 DEF RemainingLength, Fields
  <2> QED
    BY <2>1, <2>2, TotalOne
<1>2. CASE p = Zero
  <2>1. p.type = "PINGREQ"
    BY <1>2 DEF Zero
  <2>2. RemainingLength(p) = 0 /\ Fields(p) = << >>
    BY <2>1 DEF RemainingLength, Fields
  <2> QED
    BY <2>1, <2>2, TotalEmpty
<1> QED
  BY <1>1, <1>2

\* Every packet is as long as its remaining length says: the fields a serializer
\* writes, for any number of topics and whatever parts a CONNECT has, take exactly
\* the bytes it has announced.
THEOREM FieldsAddUp ==
    ASSUME NEW p, IsPacket(p)
    PROVE  /\ RemainingLength(p) \in Nat
           /\ SerializedLength(p) = PacketSize(RemainingLength(p))
<1>1. \/ p.type \in { "PUBLISH", "SUBSCRIBE", "UNSUBSCRIBE", "CONNECT" }
      \/ p \in { Ack, Zero }
  BY DEF IsPacket
<1>2. RemainingLength(p) \in Nat /\ Total(Fields(p)) = RemainingLength(p)
  <2>1. CASE p.type = "PUBLISH"
    BY <2>1, PublishAddsUp
  <2>2. CASE p.type \in { "SUBSCRIBE", "UNSUBSCRIBE" }
    BY <2>2, TopicsAddUp
  <2>3. CASE p.type = "CONNECT"
    BY <2>3, ConnectAddsUp
  <2>4. CASE p \in { Ack, Zero }
    BY <2>4, FixedAddUp
  <2> QED
    BY <1>1, <2>1, <2>2, <2>3, <2>4
<1> QED
  BY <1>2 DEF SerializedLength, PacketSize

-----------------------------------------------------------------------------
(* The inductive invariant. *)

Places == { "idle", "header", "length", "drop", "body" }

Reads == [at : Places, want : 0..ReadBufSize, rx : Nat, pieces : Nat, len : Nat,
          mult : Nat, rem : Nat, total : Nat]

Writes == [at : { "idle", "loop", "for", "while", "add", "exit" },
           packet : OutPackets \cup { Zero }, length : Nat, sent : Nat,
           written : 0..(SizeMax - 1), ret : Int]

Types ==
    /\ inbound \in Seq(InLengths) /\ Len(inbound) <= MaxQueued /\ pos \in Nat
    /\ rd \in Reads /\ wr \in Writes /\ onWire \in Nat
    /\ late \in BOOLEAN /\ expired \in BOOLEAN /\ guessed \in BOOLEAN /\ open \in BOOLEAN

\* The bytes of the length of n that are not read encode q.
LengthLeft(n, p, q) ==
    /\ Len(WriteLen[n]) = (p - 1) + Len(WriteLen[q])
    /\ \A i \in 1..Len(WriteLen[q]) : WriteLen[n][(p - 1) + i] = WriteLen[q][i]

\* A read r with p bytes of the packet of remaining length n read.
AtHeader(r, p) ==
    /\ p = 0 /\ r.want = 1 /\ r.len = 0 /\ r.mult = 1 /\ r.rem = 0 /\ r.total = 0

AtLength(r, n, p) ==
    /\ p > 0 /\ r.want = 1 /\ r.len = 1 /\ r.total = 0
    /\ \E q \in 0..n : n = r.rem + r.mult * q /\ LengthLeft(n, p, q)

AtDrop(r, n, p) ==
    /\ r.rem = n /\ p = 1 + Len(WriteLen[n]) + r.total + r.rx
    /\ r.want > 0 /\ r.total + r.rx + r.want <= n /\ r.rx + r.want <= ReadBufSize

AtBody(r, n, p) ==
    /\ r.rem = n /\ p = 1 + Len(WriteLen[n]) + r.rx
    /\ r.want > 0 /\ r.rx + r.want = n /\ n < ReadBufSize

InPlace(r, in, p) ==
    /\ r.at = "header" => AtHeader(r, p)
    /\ r.at = "length" => in # << >> /\ AtLength(r, Head(in), p)
    /\ r.at = "drop" => in # << >> /\ AtDrop(r, Head(in), p)
    /\ r.at = "body" => in # << >> /\ AtBody(r, Head(in), p)

\* The bytes read are bytes of a packet that is not complete.
WithinPacket(in, p) == p > 0 => in # << >> /\ p < PacketSize(Head(in))

AtBoundary(r, rc, stalled, p) == r.at = "idle" /\ (rc = "SUCCESS" \/ ~stalled) => p = 0

ReadInv ==
    /\ WithinPacket(inbound, pos) /\ InPlace(rd, inbound, pos)
    /\ AtBoundary(rd, result, late, pos)

\* A send in progress: what has been counted has been sent.
Counted(w, timeout, bytes) ==
    /\ w.at = "loop" => w.sent = bytes /\ w.sent \in { 0, w.length }
    /\ w.at = "for" => w.sent = 0 /\ w.written = bytes /\ w.written <= w.length
    /\ w.at = "while" => w.sent = 0 /\ w.written = bytes /\ w.written < w.length
    /\ w.at = "add" => /\ w.sent = 0 /\ w.ret \in Nat
                       /\ w.written + w.ret = bytes /\ bytes <= w.length
    /\ w.at = "exit" => /\ w.sent = 0 /\ w.written = bytes
                        /\ w.written = w.length \/ (timeout = TRUE /\ w.written <= w.length)

InBuffer(w) ==
    w.at # "idle" => /\ w.packet \in OutPackets /\ w.length = SerializedLength(w.packet)
                     /\ w.length > 0 /\ w.length < WriteBufSize

WriteInv ==
    /\ InBuffer(wr)
    /\ guessed => expired
    /\ wr.at # "idle" => outcome = "NONE"
    /\ ~guessed => Counted(wr, expired, onWire)
    /\ outcome = "SUCCESS" /\ ~guessed => onWire = PacketSize(RemainingLength(wr.packet))

StreamInv == Types /\ ReadInv /\ WriteInv

\* What is assumed of the sizes,
LEMMA Bounds ==
    /\ ReadBufSize \in Nat /\ ReadBufSize > 0 /\ WriteBufSize \in Nat
    /\ SizeMax \in Nat /\ WriteBufSize < SizeMax /\ MaxQueued \in Nat
    /\ InLengths \subseteq Nat /\ Unset \subseteq Int
BY StreamAssumption

\* and of the packets.
LEMMA PacketsOut ==
    ASSUME NEW p \in OutPackets \cup { Zero }
    PROVE  IsPacket(p)
BY StreamAssumption DEF IsPacket

\* The places, and the sizes that are asked for in them.
LEMMA Asked ==
    /\ 1 \in 0..ReadBufSize /\ ReadBufSize \in 0..ReadBufSize
    /\ "length" \in Places /\ "drop" \in Places /\ "body" \in Places
    /\ "header" \in Places
BY Bounds DEF Places

\* The first element of a sequence and the others.
LEMMA HeadOf ==
    ASSUME NEW S, NEW s \in Seq(S), s # << >>
    PROVE  /\ Head(s) \in S /\ Tail(s) \in Seq(S)
           /\ Len(Tail(s)) = Len(s) - 1 /\ Len(s) \in Nat
<1>1. Head(s) \in S /\ Tail(s) \in Seq(S)
  BY HeadTailProperties
<1>2. Len(Tail(s)) = Len(s) - 1 /\ Len(s) \in Nat
  BY HeadTailProperties
<1> QED
  BY <1>1, <1>2

\* The remaining length of the packet that is being read.
LEMMA HeadNat ==
    ASSUME Types, inbound # << >>
    PROVE  /\ Head(inbound) \in Nat /\ Tail(inbound) \in Seq(InLengths)
           /\ Len(Tail(inbound)) = Len(inbound) - 1 /\ Len(inbound) \in Nat
<1>1. inbound \in Seq(InLengths)
  BY DEF Types
<1>2. /\ Head(inbound) \in InLengths /\ Tail(inbound) \in Seq(InLengths)
      /\ Len(Tail(inbound)) = Len(inbound) - 1 /\ Len(inbound) \in Nat
  BY <1>1, HeadOf
<1>3. InLengths \subseteq Nat
  BY Bounds
<1> QED
  BY <1>2, <1>3

\* The fields of a read after it has asked for the first byte,
LEMMA AskHeader ==
    ASSUME NEW r \in Reads
    PROVE  /\ Ask(r, "header", 1) \in Reads /\ Ask(r, "header", 1).at = "header"
           /\ Ask(r, "header", 1).want = 1 /\ Ask(r, "header", 1).rx = 0
           /\ Ask(r, "header", 1).len = r.len /\ Ask(r, "header", 1).mult = r.mult
           /\ Ask(r, "header", 1).rem = r.rem /\ Ask(r, "header", 1).total = r.total
<1>1. 1 \in 0..ReadBufSize /\ "header" \in Places
  BY Asked
<1>2. Ask(r, "header", 1) \in Reads
  BY <1>1 DEF Ask, Reads
<1>3. /\ Ask(r, "header", 1).at = "header"
      /\ Ask(r, "header", 1).want = 1 /\ Ask(r, "header", 1).rx = 0
      /\ Ask(r, "header", 1).len = r.len /\ Ask(r, "header", 1).mult = r.mult
      /\ Ask(r, "header", 1).rem = r.rem /\ Ask(r, "header", 1).total = r.total
  BY DEF Ask, Reads
<1> QED
  BY <1>2, <1>3

\* a byte of the length,
LEMMA AskLength ==
    ASSUME NEW r \in Reads
    PROVE  /\ Ask(r, "length", 1) \in Reads /\ Ask(r, "length", 1).at = "length"
           /\ Ask(r, "length", 1).want = 1 /\ Ask(r, "length", 1).rx = 0
           /\ Ask(r, "length", 1).len = r.len /\ Ask(r, "length", 1).mult = r.mult
           /\ Ask(r, "length", 1).rem = r.rem /\ Ask(r, "length", 1).total = r.total
<1>1. 1 \in 0..ReadBufSize /\ "length" \in Places
  BY Asked
<1>2. Ask(r, "length", 1) \in Reads
  BY <1>1 DEF Ask, Reads
<1>3. /\ Ask(r, "length", 1).at = "length"
      /\ Ask(r, "length", 1).want = 1 /\ Ask(r, "length", 1).rx = 0
      /\ Ask(r, "length", 1).len = r.len /\ Ask(r, "length", 1).mult = r.mult
      /\ Ask(r, "length", 1).rem = r.rem /\ Ask(r, "length", 1).total = r.total
  BY DEF Ask, Reads
<1> QED
  BY <1>2, <1>3

\* a part of what is dropped,
LEMMA AskDrop ==
    ASSUME NEW r \in Reads, NEW n \in 0..ReadBufSize
    PROVE  /\ Ask(r, "drop", n) \in Reads /\ Ask(r, "drop", n).at = "drop"
           /\ Ask(r, "drop", n).want = n /\ Ask(r, "drop", n).rx = 0
           /\ Ask(r, "drop", n).len = r.len /\ Ask(r, "drop", n).mult = r.mult
           /\ Ask(r, "drop", n).rem = r.rem /\ Ask(r, "drop", n).total = r.total
<1>1. n \in 0..ReadBufSize /\ "drop" \in Places
  BY Asked
<1>2. Ask(r, "drop", n) \in Reads
  BY <1>1 DEF Ask, Reads
<1>3. /\ Ask(r, "drop", n).at = "drop"
      /\ Ask(r, "drop", n).want = n /\ Ask(r, "drop", n).rx = 0
      /\ Ask(r, "drop", n).len = r.len /\ Ask(r, "drop", n).mult = r.mult
      /\ Ask(r, "drop", n).rem = r.rem /\ Ask(r, "drop", n).total = r.total
  BY DEF Ask, Reads
<1> QED
  BY <1>2, <1>3

\* or the rest of the packet;
LEMMA AskBody ==
    ASSUME NEW r \in Reads, NEW n \in 0..ReadBufSize
    PROVE  /\ Ask(r, "body", n) \in Reads /\ Ask(r, "body", n).at = "body"
           /\ Ask(r, "body", n).want = n /\ Ask(r, "body", n).rx = 0
           /\ Ask(r, "body", n).len = r.len /\ Ask(r, "body", n).mult = r.mult
           /\ Ask(r, "body", n).rem = r.rem /\ Ask(r, "body", n).total = r.total
<1>1. n \in 0..ReadBufSize /\ "body" \in Places
  BY Asked
<1>2. Ask(r, "body", n) \in Reads
  BY <1>1 DEF Ask, Reads
<1>3. /\ Ask(r, "body", n).at = "body"
      /\ Ask(r, "body", n).want = n /\ Ask(r, "body", n).rx = 0
      /\ Ask(r, "body", n).len = r.len /\ Ask(r, "body", n).mult = r.mult
      /\ Ask(r, "body", n).rem = r.rem /\ Ask(r, "body", n).total = r.total
  BY DEF Ask, Reads
<1> QED
  BY <1>2, <1>3

\* A read that has got k more bytes.
Got(r, k) == [r EXCEPT !.want = @ - k, !.rx = @ + k, !.pieces = @ + 1]

\* after bytes have arrived,
LEMMA GotFields ==
    ASSUME NEW r \in Reads, NEW k \in 1..ReadBufSize, k <= r.want
    PROVE  /\ Got(r, k) \in Reads /\ Got(r, k).at = r.at
           /\ Got(r, k).want = r.want - k /\ Got(r, k).rx = r.rx + k
           /\ Got(r, k).len = r.len /\ Got(r, k).mult = r.mult
           /\ Got(r, k).rem = r.rem /\ Got(r, k).total = r.total
<1>1. r.want - k \in 0..ReadBufSize /\ r.rx + k \in Nat /\ r.pieces + 1 \in Nat
  BY Bounds DEF Reads
<1>2. Got(r, k) \in Reads
  BY <1>1 DEF Got, Reads
<1>3. /\ Got(r, k).at = r.at
      /\ Got(r, k).want = r.want - k /\ Got(r, k).rx = r.rx + k
      /\ Got(r, k).len = r.len /\ Got(r, k).mult = r.mult
      /\ Got(r, k).rem = r.rem /\ Got(r, k).total = r.total
  BY DEF Got, Reads
<1> QED
  BY <1>2, <1>3

\* and after a byte of the length was looked at.
HasDigit(w, r, byte) ==
    /\ w \in Reads /\ w.at = r.at /\ w.len = r.len /\ w.mult = r.mult * 128
    /\ w.rem = r.rem + (byte % 128) * r.mult /\ w.total = r.total

LEMMA WithDigitFields ==
    ASSUME NEW r \in Reads, NEW byte \in Nat
    PROVE  HasDigit(WithDigit(r, byte), r, byte)
<1> DEFINE rem == r.rem + (byte % 128) * r.mult
           mult == r.mult * 128
<1>1. r.mult \in Nat /\ r.rem \in Nat /\ (byte % 128) \in Nat
  BY Div128 DEF Reads
<1>2. \A a \in Nat, b \in Nat, c \in Nat : a * 128 \in Nat /\ c + b * a \in Nat
  OBVIOUS
<1>3. mult \in Nat /\ rem \in Nat
  BY <1>1, <1>2
<1>4. WithDigit(r, byte) = [r EXCEPT !.rem = rem, !.mult = mult]
  BY DEF WithDigit, Reads
<1> HIDE DEF rem, mult
<1>5. WithDigit(r, byte) \in Reads
  BY <1>3, <1>4 DEF Reads
<1>6. /\ WithDigit(r, byte).at = r.at /\ WithDigit(r, byte).len = r.len
      /\ WithDigit(r, byte).mult = mult /\ WithDigit(r, byte).rem = rem
      /\ WithDigit(r, byte).total = r.total
  BY <1>4 DEF Reads
<1> QED
  BY <1>5, <1>6 DEF rem, mult, HasDigit

\* No read is in progress,
LEMMA NotReadingType ==
    NotReading \in Reads /\ NotReading.at = "idle"
BY Bounds DEF NotReading, Reads, Places

\* and no send.
LEMMA NotWritingType ==
    /\ NotWriting \in Writes /\ NotWriting.at = "idle" /\ NotWriting.packet = Zero
    /\ NotWriting.length = 0
BY Bounds DEF NotWriting, Writes

\* The fields of a send,
LEMMA WriteFields ==
    ASSUME NEW w \in Writes
    PROVE  /\ w.at \in { "idle", "loop", "for", "while", "add", "exit" }
           /\ w.packet \in OutPackets \cup { Zero } /\ w.length \in Nat /\ w.sent \in Nat
           /\ w.written \in 0..(SizeMax - 1) /\ w.ret \in Int
           /\ w = [at |-> w.at, packet |-> w.packet, length |-> w.length, sent |-> w.sent,
                   written |-> w.written, ret |-> w.ret]
BY DEF Writes

\* and of a read.
LEMMA ReadFields ==
    ASSUME NEW r \in Reads
    PROVE  /\ r.at \in Places /\ r.want \in 0..ReadBufSize /\ r.rx \in Nat
           /\ r.len \in Nat /\ r.mult \in Nat /\ r.rem \in Nat /\ r.total \in Nat
BY DEF Reads

\* Between two packets, or with nothing read of one.
LEMMA IdleRead ==
    ASSUME NEW in, NEW p, NEW rc, NEW stalled \in BOOLEAN,
           rc = "SUCCESS" \/ ~stalled => p = 0
    PROVE  InPlace(NotReading, in, p) /\ AtBoundary(NotReading, rc, stalled, p)
BY DEF InPlace, AtBoundary, NotReading

-----------------------------------------------------------------------------
(* read_packet keeps its place. *)

\* The k bytes that are read leave the stream.
Taken(k) ==
    IF pos + k >= PacketSize(Head(inbound))
    THEN inbound' = Tail(inbound) /\ pos' = pos + k - PacketSize(Head(inbound))
    ELSE inbound' = inbound /\ pos' = pos + k

\* Reading no further than the packet leaves the rest of it, or the next one.
LEMMA TakenFacts ==
    ASSUME Types, inbound # << >>, NEW k \in Nat, Taken(k),
           pos + k <= PacketSize(Head(inbound))
    PROVE  /\ inbound' \in Seq(InLengths) /\ Len(inbound') <= MaxQueued /\ pos' \in Nat
           /\ WithinPacket(inbound', pos')
           /\ pos + k = PacketSize(Head(inbound)) => pos' = 0
           /\ pos + k < PacketSize(Head(inbound)) => inbound' = inbound /\ pos' = pos + k
<1> DEFINE size == PacketSize(Head(inbound))
<1>1. inbound \in Seq(InLengths) /\ Len(inbound) <= MaxQueued /\ pos \in Nat
  BY DEF Types
<1>2. Head(inbound) \in Nat /\ Tail(inbound) \in Seq(InLengths)
      /\ Len(Tail(inbound)) = Len(inbound) - 1 /\ Len(inbound) \in Nat
  BY HeadNat
<1>3. size \in Nat
  BY <1>2, PacketSizeType
<1>4. CASE pos + k = size
  <2>1. inbound' = Tail(inbound) /\ pos' = (pos + k) - size
    BY <1>1, <1>3, <1>4 DEF Taken
  <2>2. pos' = 0
    BY <2>1, <1>1, <1>3, <1>4
  <2>3. Len(inbound') <= MaxQueued
    BY <2>1, <1>1, <1>2, Bounds
  <2>4. WithinPacket(inbound', pos') /\ inbound' \in Seq(InLengths) /\ pos' \in Nat
    <3>1. ~(0 > 0)
      OBVIOUS
    <3> QED
      BY <2>1, <2>2, <3>1, <1>2 DEF WithinPacket
  <2>5. ~(pos + k < size)
    BY <1>1, <1>3, <1>4
  <2> HIDE DEF size
  <2>6. /\ pos + k = size => pos' = 0
        /\ pos + k < size => inbound' = inbound /\ pos' = pos + k
    BY <2>2, <2>5
  <2> QED
    BY <2>3, <2>4, <2>6 DEF size
<1>5. CASE pos + k < size
  <2>1. inbound' = inbound /\ pos' = pos + k
    BY <1>1, <1>3, <1>5 DEF Taken
  <2>2. WithinPacket(inbound', pos')
    BY <2>1, <1>5 DEF WithinPacket
  <2>3. pos' \in Nat /\ pos + k # size
    BY <2>1, <1>1, <1>3, <1>5
  <2> QED
    BY <1>1, <2>1, <2>2, <2>3
<1>6. pos + k = size \/ pos + k < size
  BY <1>1, <1>3
<1> QED
  BY <1>4, <1>5, <1>6

\* What mbedtls_ssl_read does to the stream and to the read in progress.
LEMMA BytesSplit ==
    ASSUME NEW k, TlsReadBytes(k)
    PROVE  /\ rd.at # "idle" /\ inbound # << >> /\ k <= rd.want
           /\ Taken(k) /\ late' = late /\ UNCHANGED writeVars
           /\ IF Got(rd, k).want > 0 THEN rd' = Got(rd, k) /\ UNCHANGED << result, open >>
              ELSE Complete(Got(rd, k), ByteAt(Head(inbound), pos))
<1>1. /\ rd.at # "idle" /\ inbound # << >> /\ k <= rd.want
      /\ late' = late /\ UNCHANGED writeVars
  BY DEF TlsReadBytes
<1>2. Taken(k)
  <2>1. CASE pos + k >= PacketSize(Head(inbound))
    <3>1. inbound' = Tail(inbound) /\ pos' = pos + k - PacketSize(Head(inbound))
      BY <2>1 DEF TlsReadBytes
    <3> QED
      BY <2>1, <3>1 DEF Taken
  <2>2. CASE ~(pos + k >= PacketSize(Head(inbound)))
    <3>1. inbound' = inbound /\ pos' = pos + k
      BY <2>2 DEF TlsReadBytes
    <3> QED
      BY <2>2, <3>1 DEF Taken
  <2> QED
    BY <2>1, <2>2
<1>3. IF Got(rd, k).want > 0 THEN rd' = Got(rd, k) /\ UNCHANGED << result, open >>
      ELSE Complete(Got(rd, k), ByteAt(Head(inbound), pos))
  BY DEF TlsReadBytes, Got
<1> QED
  BY <1>1, <1>2, <1>3

\* What is to hold after a step of read_packet.
ReadStays ==
    /\ rd' \in Reads /\ open' \in BOOLEAN
    /\ InPlace(rd', inbound', pos') /\ AtBoundary(rd', result', late', pos')

\* read_packet returns at the end of the packet.
LEMMA ReturnsAtBoundary ==
    ASSUME Types, NEW rc, ReadReturns(rc), pos' = 0, late' = late
    PROVE  ReadStays
<1>1. rd' = NotReading /\ result' = rc /\ open' = (rc \notin TlsErrors)
  BY DEF ReadReturns
<1>2. InPlace(NotReading, inbound', 0) /\ AtBoundary(NotReading, rc, late, 0)
  BY IdleRead DEF Types
<1> QED
  BY <1>1, <1>2, NotReadingType DEF ReadStays

\* The first byte of the packet.
LEMMA HeaderStep ==
    ASSUME Types, ReadInv, rd.at = "header", NEW k \in 1..ReadBufSize, TlsReadBytes(k)
    PROVE  WithinPacket(inbound', pos') /\ pos' \in Nat /\ inbound' \in Seq(InLengths)
           /\ Len(inbound') <= MaxQueued /\ ReadStays
<1> DEFINE n == Head(inbound)
           r == Got(rd, k)
           s == [r EXCEPT !.len = 1]
<1>1. /\ inbound # << >> /\ k <= rd.want /\ Taken(k) /\ late' = late
      /\ IF r.want > 0 THEN rd' = r /\ UNCHANGED << result, open >>
         ELSE Complete(r, ByteAt(n, pos))
  BY BytesSplit
<1>2. pos = 0 /\ rd.want = 1 /\ rd.len = 0 /\ rd.mult = 1 /\ rd.rem = 0 /\ rd.total = 0
  BY DEF ReadInv, InPlace, AtHeader
<1>3. k = 1
  BY <1>1, <1>2
<1>4. n \in Nat /\ rd \in Reads
  BY <1>1, HeadNat DEF Types
<1>5. PacketSize(n) \in Nat /\ PacketSize(n) >= n + 2
  BY <1>4, PacketSizeType
<1>6. /\ inbound' \in Seq(InLengths) /\ Len(inbound') <= MaxQueued
      /\ WithinPacket(inbound', pos') /\ inbound' = inbound /\ pos' = 1
  <2>1. pos + k <= PacketSize(n) /\ pos + k < PacketSize(n) /\ pos + k = 1
    BY <1>2, <1>3, <1>4, <1>5
  <2> QED
    BY <1>1, <2>1, <1>3, TakenFacts
<1>7. /\ r \in Reads /\ r.at = "header" /\ r.want = 0 /\ r.len = 0 /\ r.mult = 1
      /\ r.rem = 0 /\ r.total = 0
  BY <1>1, <1>2, <1>3, <1>4, GotFields
<1> HIDE DEF r
<1>8. NextLengthByte(r)
  BY <1>1, <1>7 DEF Complete
<1>9. rd' = Ask(s, "length", 1) /\ result' = result /\ open' = open
  BY <1>7, <1>8 DEF NextLengthByte, MaxLengthBytes
<1>10. s \in Reads /\ s.len = 1 /\ s.mult = 1 /\ s.rem = 0 /\ s.total = 0
  BY <1>7 DEF Reads
<1> HIDE DEF s
<1>11. /\ rd' \in Reads /\ rd'.at = "length" /\ rd'.want = 1 /\ rd'.len = 1
       /\ rd'.mult = 1 /\ rd'.rem = 0 /\ rd'.total = 0
  BY <1>9, <1>10, AskLength
<1>12. LengthLeft(n, 1, n)
  BY <1>4, WriteLenType DEF LengthLeft
<1>13. AtLength(rd', n, 1)
  <2>1. n \in 0..n /\ n = 0 + 1 * n
    BY <1>4
  <2> HIDE DEF n
  <2> QED
    BY <1>11, <1>12, <2>1 DEF AtLength
<1>14. InPlace(rd', inbound', pos') /\ AtBoundary(rd', result', late', pos')
  BY <1>1, <1>6, <1>11, <1>13 DEF InPlace, AtBoundary
<1> QED
  BY <1>6, <1>9, <1>11, <1>14 DEF ReadStays, Types

\* What is known of the length and what is left of it make it up.
LEMMA NextDigit ==
    ASSUME NEW m \in Nat, NEW q \in Nat, NEW r \in Nat
    PROVE  r + m * q = (r + (q % 128) * m) + (m * 128) * (q \div 128)
BY Div128

\* After a byte with the top bit the bytes of the rest are left.
LEMMA LengthLeftNext ==
    ASSUME NEW n \in Nat, NEW p \in Nat, p > 0, NEW q \in Nat, q >= 128, LengthLeft(n, p, q)
    PROVE  LengthLeft(n, p + 1, q \div 128) /\ p < Len(WriteLen[n])
<1> DEFINE d == q \div 128
<1>1. /\ Len(WriteLen[q]) = 1 + Len(WriteLen[d])
      /\ \A i \in 1..Len(WriteLen[d]) : WriteLen[q][i + 1] = WriteLen[d][i]
  BY WriteLenRest
<1>2. d \in Nat
  BY Div128
<1>3. Len(WriteLen[d]) \in Nat \ { 0 }
  BY <1>2, WriteLenType
<1> HIDE DEF d
<1>4. Len(WriteLen[n]) = (p - 1) + Len(WriteLen[q])
  BY DEF LengthLeft
<1>5. Len(WriteLen[n]) = ((p + 1) - 1) + Len(WriteLen[d]) /\ p < Len(WriteLen[n])
  BY <1>1, <1>3, <1>4
<1>6. ASSUME NEW i \in 1..Len(WriteLen[d])
      PROVE  WriteLen[n][((p + 1) - 1) + i] = WriteLen[d][i]
  <2>1. i + 1 \in 1..Len(WriteLen[q]) /\ (p - 1) + (i + 1) = ((p + 1) - 1) + i
    BY <1>1, <1>3
  <2>2. WriteLen[n][(p - 1) + (i + 1)] = WriteLen[q][i + 1]
    BY <2>1 DEF LengthLeft
  <2> QED
    BY <1>1, <2>1, <2>2
<1> QED
  BY <1>5, <1>6 DEF LengthLeft, d

\* A byte of the remaining length with the top bit.
LEMMA DigitStep ==
    ASSUME Types, NEW n \in Nat, NEW r \in Reads, r.len = 1, r.total = 0,
           NEW p \in Nat, p > 0, NEW q \in 0..n, q >= 128,
           n = r.rem + r.mult * q, LengthLeft(n, p, q), ByteAt(n, p) = (q % 128) + 128,
           GotLengthByte(r, ByteAt(n, p))
    PROVE  /\ rd' \in Reads /\ rd'.at = "length" /\ AtLength(rd', n, p + 1)
           /\ result' = result /\ open' = open
<1> DEFINE byte == (q % 128) + 128
           w == WithDigit(r, byte)
           s == [w EXCEPT !.len = 1]
<1>1. byte \in Nat /\ byte >= 128 /\ byte % 128 = q % 128 /\ q \in Nat
  BY Div128, Digit128
<1>2. NextLengthByte(w)
  BY <1>1 DEF GotLengthByte
<1> HIDE DEF byte
<1>3. /\ w \in Reads /\ w.len = 1 /\ w.total = 0 /\ w.mult = r.mult * 128
      /\ w.rem = r.rem + (q % 128) * r.mult
  <2>0. byte \in Nat
    BY <1>1
  <2>1. /\ w \in Reads /\ w.len = r.len /\ w.total = r.total /\ w.mult = r.mult * 128
        /\ w.rem = r.rem + (byte % 128) * r.mult
    <3>1. HasDigit(w, r, byte)
      BY <2>0, WithDigitFields
    <3> HIDE DEF w
    <3> QED
      BY <3>1 DEF HasDigit
  <2> HIDE DEF w
  <2> QED
    BY <1>1, <2>1
<1> HIDE DEF w
<1>4. rd' = Ask(s, "length", 1) /\ result' = result /\ open' = open
  BY <1>2, <1>3 DEF NextLengthByte, MaxLengthBytes
<1>5. s \in Reads /\ s.len = 1 /\ s.total = 0 /\ s.mult = w.mult /\ s.rem = w.rem
  BY <1>3 DEF Reads
<1> HIDE DEF s
<1>6. /\ rd' \in Reads /\ rd'.at = "length" /\ rd'.want = 1 /\ rd'.len = 1 /\ rd'.total = 0
      /\ rd'.mult = r.mult * 128 /\ rd'.rem = r.rem + (q % 128) * r.mult
  BY <1>3, <1>4, <1>5, AskLength
<1>7. LengthLeft(n, p + 1, q \div 128)
  BY <1>1, LengthLeftNext
<1>8. q \div 128 \in 0..n
  BY <1>1, Div128
<1>9. n = (r.rem + (q % 128) * r.mult) + (r.mult * 128) * (q \div 128)
  BY <1>1, NextDigit, ReadFields
<1>10. n = rd'.rem + rd'.mult * (q \div 128)
  BY <1>6, <1>9
<1>11. p + 1 > 0
  OBVIOUS
<1>12. AtLength(rd', n, p + 1)
  BY <1>6, <1>7, <1>8, <1>10, <1>11 DEF AtLength
<1> QED
  BY <1>4, <1>6, <1>12

\* Its last byte.
LEMMA LastDigitStep ==
    ASSUME Types, NEW n \in Nat, NEW r \in Reads, r.total = 0,
           NEW p \in Nat, p = Len(WriteLen[n]), NEW q \in 0..n, q < 128,
           n = r.rem + r.mult * q, ByteAt(n, p) = q, GotLengthByte(r, ByteAt(n, p))
    PROVE  \/ /\ rd' \in Reads /\ rd'.at = "drop" /\ AtDrop(rd', n, p + 1)
              /\ n > 0 /\ result' = result /\ open' = open
           \/ /\ rd' \in Reads /\ rd'.at = "body" /\ AtBody(rd', n, p + 1)
              /\ n > 0 /\ result' = result /\ open' = open
           \/ n = 0 /\ ReadReturns("SUCCESS")
<1> DEFINE w == WithDigit(r, q)
<1>1. q \in Nat /\ q % 128 = q
  OBVIOUS
<1>2. LengthKnown(w)
  BY <1>1 DEF GotLengthByte
<1>3. w \in Reads /\ w.total = 0 /\ w.rem = n
  <2>1. w \in Reads /\ w.total = 0 /\ w.rem = r.rem + (q % 128) * r.mult
    <3>1. HasDigit(w, r, q)
      BY <1>1, WithDigitFields
    <3> HIDE DEF w
    <3> QED
      BY <3>1 DEF HasDigit
  <2>2. r.mult \in Nat /\ r.rem \in Nat
    BY ReadFields
  <2>3. \A a \in Nat, b \in Nat : a * b = b * a
    OBVIOUS
  <2>4. r.mult * q = q * r.mult
    BY <1>1, <2>2, <2>3
  <2> QED
    BY <1>1, <2>1, <2>4
<1> HIDE DEF w
<1>4. \/ /\ n >= ReadBufSize /\ rd' = Ask(w, "drop", ReadBufSize)
         /\ result' = result /\ open' = open
      \/ /\ n < ReadBufSize /\ n > 0 /\ rd' = Ask(w, "body", n)
         /\ result' = result /\ open' = open
      \/ n = 0 /\ ReadReturns("SUCCESS")
  BY <1>2, <1>3 DEF LengthKnown
<1>5. CASE n >= ReadBufSize /\ rd' = Ask(w, "drop", ReadBufSize)
           /\ result' = result /\ open' = open
  <2>1. ReadBufSize \in 0..ReadBufSize /\ ReadBufSize \in Nat /\ ReadBufSize > 0
    BY Bounds
  <2>2. /\ rd' \in Reads /\ rd'.at = "drop" /\ rd'.want = ReadBufSize /\ rd'.rx = 0
        /\ rd'.rem = n /\ rd'.total = 0
    BY <1>3, <1>5, <2>1, AskDrop
  <2>3. p + 1 = 1 + Len(WriteLen[n]) + 0 + 0 /\ 0 + ReadBufSize <= ReadBufSize
    BY <2>1
  <2>4. AtDrop(rd', n, p + 1)
    BY <1>5, <2>1, <2>2, <2>3 DEF AtDrop
  <2> QED
    BY <1>5, <2>1, <2>2, <2>4
<1>6. CASE n < ReadBufSize /\ n > 0 /\ rd' = Ask(w, "body", n)
           /\ result' = result /\ open' = open
  <2>1. n \in 0..ReadBufSize
    BY <1>6, Bounds
  <2>2. /\ rd' \in Reads /\ rd'.at = "body" /\ rd'.want = n /\ rd'.rx = 0
        /\ rd'.rem = n /\ rd'.total = 0
    BY <1>3, <1>6, <2>1, AskBody
  <2>3. p + 1 = 1 + Len(WriteLen[n]) + 0
    OBVIOUS
  <2>4. AtBody(rd', n, p + 1)
    BY <1>6, <2>2, <2>3 DEF AtBody
  <2> QED
    BY <1>6, <2>2, <2>4
<1> QED
  BY <1>4, <1>5, <1>6

\* A byte of the length, the last of an empty packet too.
LEMMA LengthStep ==
    ASSUME Types, ReadInv, rd.at = "length", NEW k \in 1..ReadBufSize, TlsReadBytes(k)
    PROVE  WithinPacket(inbound', pos') /\ pos' \in Nat /\ inbound' \in Seq(InLengths)
           /\ Len(inbound') <= MaxQueued /\ ReadStays
<1> DEFINE n == Head(inbound)
           r == Got(rd, k)
<1>1. /\ inbound # << >> /\ k <= rd.want /\ Taken(k) /\ late' = late
      /\ IF r.want > 0 THEN rd' = r /\ UNCHANGED << result, open >>
         ELSE Complete(r, ByteAt(n, pos))
  BY BytesSplit
<1>2. pos > 0 /\ rd.want = 1 /\ rd.len = 1 /\ rd.total = 0
  BY DEF ReadInv, InPlace, AtLength
<1>3. PICK q \in 0..n : n = rd.rem + rd.mult * q /\ LengthLeft(n, pos, q)
  BY DEF ReadInv, InPlace, AtLength
<1>4. k = 1
  BY <1>1, <1>2
<1>5. n \in Nat /\ rd \in Reads /\ pos \in Nat
  BY <1>1, HeadNat DEF Types
<1> DEFINE L == Len(WriteLen[n])
<1>6. L \in Nat \ { 0 } /\ PacketSize(n) = 1 + L + n
  BY <1>5, WriteLenType DEF PacketSize
<1>7. /\ r \in Reads /\ r.at = "length" /\ r.want = 0 /\ r.len = 1 /\ r.mult = rd.mult
      /\ r.rem = rd.rem /\ r.total = 0
  BY <1>1, <1>2, <1>4, <1>5, GotFields
<1> HIDE DEF r
<1>8. GotLengthByte(r, ByteAt(n, pos))
  BY <1>1, <1>7 DEF Complete
<1>9. q \in Nat
  BY <1>5
<1>10. /\ Len(WriteLen[q]) \in Nat \ { 0 } /\ L = (pos - 1) + Len(WriteLen[q])
       /\ WriteLen[n][(pos - 1) + 1] = WriteLen[q][1]
  <2>1. Len(WriteLen[q]) \in Nat \ { 0 }
    BY <1>9, WriteLenType
  <2>2. 1 \in 1..Len(WriteLen[q])
    BY <2>1
  <2> QED
    BY <1>3, <2>1, <2>2 DEF LengthLeft
<1>11. pos <= L /\ ByteAt(n, pos) = WriteLen[q][1]
  <2>1. pos \in 1..L /\ (pos - 1) + 1 = pos
    BY <1>2, <1>5, <1>6, <1>10
  <2> QED
    BY <1>5, <1>6, <1>10, <2>1 DEF ByteAt
<1>12. pos + 1 <= PacketSize(n)
  BY <1>5, <1>6, <1>11
<1>13. /\ inbound' \in Seq(InLengths) /\ Len(inbound') <= MaxQueued /\ pos' \in Nat
       /\ WithinPacket(inbound', pos')
       /\ pos + 1 = PacketSize(n) => pos' = 0
       /\ pos + 1 < PacketSize(n) => inbound' = inbound /\ pos' = pos + 1
  BY <1>1, <1>4, <1>12, TakenFacts
<1>14. CASE q >= 128
  <2>1. ByteAt(n, pos) = (q % 128) + 128
    BY <1>9, <1>11, <1>14, WriteLenRest
  <2>2. pos < L
    BY <1>2, <1>3, <1>5, <1>9, <1>14, LengthLeftNext
  <2>3. inbound' = inbound /\ pos' = pos + 1
    BY <1>5, <1>6, <1>13, <2>2
  <2>4. n = r.rem + r.mult * q
    BY <1>3, <1>7
  <2> HIDE DEF n
  <2>5. /\ rd' \in Reads /\ rd'.at = "length" /\ AtLength(rd', n, pos + 1)
        /\ result' = result /\ open' = open
    BY <1>2, <1>3, <1>5, <1>7, <1>8, <1>14, <2>1, <2>4, DigitStep
  <2>6. InPlace(rd', inbound', pos') /\ AtBoundary(rd', result', late', pos')
    BY <1>1, <2>3, <2>5 DEF InPlace, AtBoundary, n
  <2> QED
    BY <1>13, <2>5, <2>6 DEF ReadStays, Types
<1>15. CASE q < 128
  <2>1. ByteAt(n, pos) = q /\ Len(WriteLen[q]) = 1
    BY <1>9, <1>11, <1>15, WriteLenShort
  <2>2. pos = L
    BY <1>5, <1>10, <2>1
  <2>3. n > 0 => inbound' = inbound /\ pos' = pos + 1
    BY <1>5, <1>6, <1>13, <2>2
  <2>4. n = 0 => pos' = 0
    BY <1>5, <1>6, <1>13, <2>2
  <2>5. n = r.rem + r.mult * q
    BY <1>3, <1>7
  <2>6. \/ /\ rd' \in Reads /\ rd'.at = "drop" /\ AtDrop(rd', n, pos + 1)
           /\ n > 0 /\ result' = result /\ open' = open
        \/ /\ rd' \in Reads /\ rd'.at = "body" /\ AtBody(rd', n, pos + 1)
           /\ n > 0 /\ result' = result /\ open' = open
        \/ n = 0 /\ ReadReturns("SUCCESS")
    <3> HIDE DEF n
    <3> QED
      BY <1>3, <1>5, <1>7, <1>8, <1>15, <2>1, <2>2, <2>5, LastDigitStep
  <2>7. CASE n = 0 /\ ReadReturns("SUCCESS")
    BY <1>1, <1>13, <2>4, <2>7, ReturnsAtBoundary
  <2>8. CASE rd' \in Reads /\ rd'.at = "drop" /\ AtDrop(rd', n, pos + 1)
             /\ n > 0 /\ result' = result /\ open' = open
    <3>1. InPlace(rd', inbound', pos') /\ AtBoundary(rd', result', late', pos')
      BY <1>1, <2>3, <2>8 DEF InPlace, AtBoundary
    <3> QED
      BY <1>13, <2>8, <3>1 DEF ReadStays, Types
  <2>9. CASE rd' \in Reads /\ rd'.at = "body" /\ AtBody(rd', n, pos + 1)
             /\ n > 0 /\ result' = result /\ open' = open
    <3>1. InPlace(rd', inbound', pos') /\ AtBoundary(rd', result', late', pos')
      BY <1>1, <2>3, <2>9 DEF InPlace, AtBoundary
    <3> QED
      BY <1>13, <2>9, <3>1 DEF ReadStays, Types
  <2> QED
    BY <2>6, <2>7, <2>8, <2>9
<1> QED
  BY <1>9, <1>14, <1>15

\* Bytes of a packet that fits into the buffer.
LEMMA BodyStep ==
    ASSUME Types, ReadInv, rd.at = "body", NEW k \in 1..ReadBufSize, TlsReadBytes(k)
    PROVE  WithinPacket(inbound', pos') /\ pos' \in Nat /\ inbound' \in Seq(InLengths)
           /\ Len(inbound') <= MaxQueued /\ ReadStays
<1> DEFINE n == Head(inbound)
           r == Got(rd, k)
           L == Len(WriteLen[n])
<1>1. /\ inbound # << >> /\ k <= rd.want /\ Taken(k) /\ late' = late
      /\ IF r.want > 0 THEN rd' = r /\ UNCHANGED << result, open >>
         ELSE Complete(r, ByteAt(n, pos))
  BY BytesSplit
<1>2. /\ rd.rem = n /\ pos = 1 + L + rd.rx /\ rd.want > 0 /\ rd.rx + rd.want = n
      /\ n < ReadBufSize
  BY DEF ReadInv, InPlace, AtBody
<1>3. n \in Nat /\ rd \in Reads /\ pos \in Nat /\ rd.want \in Nat /\ rd.rx \in Nat
  <2>1. rd \in Reads /\ pos \in Nat
    BY DEF Types
  <2>2. rd.want \in Nat /\ rd.rx \in Nat /\ rd.total \in Nat
    BY <2>1, ReadFields, Bounds
  <2> QED
    BY <1>1, <2>1, <2>2, HeadNat
<1>4. L \in Nat \ { 0 } /\ PacketSize(n) = 1 + L + n
  BY <1>3, WriteLenType DEF PacketSize
<1>5. /\ r \in Reads /\ r.at = "body" /\ r.want = rd.want - k /\ r.rx = rd.rx + k
      /\ r.rem = rd.rem /\ r.total = rd.total
  BY <1>1, <1>3, GotFields
<1> HIDE DEF r, L, n
<1>6. pos + k <= PacketSize(n)
  BY <1>1, <1>2, <1>3, <1>4
<1>7. /\ inbound' \in Seq(InLengths) /\ Len(inbound') <= MaxQueued /\ pos' \in Nat
      /\ WithinPacket(inbound', pos')
      /\ pos + k = PacketSize(n) => pos' = 0
      /\ pos + k < PacketSize(n) => inbound' = inbound /\ pos' = pos + k
  BY <1>1, <1>6, TakenFacts DEF n
<1>8. CASE r.want > 0
  <2>1. rd' = r /\ result' = result /\ open' = open
    BY <1>1, <1>8
  <2>2. pos + k < PacketSize(n)
    BY <1>2, <1>3, <1>4, <1>5, <1>8
  <2>3. pos + k = 1 + L + r.rx /\ r.rx + r.want = n
    BY <1>2, <1>3, <1>4, <1>5
  <2>4. AtBody(r, n, pos + k)
    BY <1>2, <1>5, <1>8, <2>3 DEF AtBody, L
  <2>5. InPlace(rd', inbound', pos') /\ AtBoundary(rd', result', late', pos')
    BY <1>1, <1>5, <1>7, <2>1, <2>2, <2>4 DEF InPlace, AtBoundary, n
  <2> QED
    BY <1>5, <1>7, <2>1, <2>5 DEF ReadStays, Types
<1>9. CASE ~(r.want > 0)
  <2>1. ReadReturns("SUCCESS")
    BY <1>1, <1>5, <1>9 DEF Complete
  <2>2. pos + k = PacketSize(n)
    BY <1>1, <1>2, <1>3, <1>4, <1>5, <1>9, SMTT(20)
  <2> QED
    BY <1>1, <1>7, <2>1, <2>2, ReturnsAtBoundary
<1> QED
  BY <1>8, <1>9

\* Bytes of one that does not.
LEMMA DropStep ==
    ASSUME Types, ReadInv, rd.at = "drop", NEW k \in 1..ReadBufSize, TlsReadBytes(k)
    PROVE  WithinPacket(inbound', pos') /\ pos' \in Nat /\ inbound' \in Seq(InLengths)
           /\ Len(inbound') <= MaxQueued /\ ReadStays
<1> DEFINE n == Head(inbound)
           r == Got(rd, k)
           L == Len(WriteLen[n])
           s == [r EXCEPT !.total = @ + r.rx]
<1>1. /\ inbound # << >> /\ k <= rd.want /\ Taken(k) /\ late' = late
      /\ IF r.want > 0 THEN rd' = r /\ UNCHANGED << result, open >>
         ELSE Complete(r, ByteAt(n, pos))
  BY BytesSplit
<1>2. /\ rd.rem = n /\ pos = 1 + L + rd.total + rd.rx /\ rd.want > 0
      /\ rd.total + rd.rx + rd.want <= n /\ rd.rx + rd.want <= ReadBufSize
  BY DEF ReadInv, InPlace, AtDrop
<1>3. /\ n \in Nat /\ rd \in Reads /\ pos \in Nat /\ rd.want \in Nat /\ rd.rx \in Nat
      /\ rd.total \in Nat
  <2>1. rd \in Reads /\ pos \in Nat
    BY DEF Types
  <2>2. rd.want \in Nat /\ rd.rx \in Nat /\ rd.total \in Nat
    BY <2>1, ReadFields, Bounds
  <2> QED
    BY <1>1, <2>1, <2>2, HeadNat
<1>4. L \in Nat \ { 0 } /\ PacketSize(n) = 1 + L + n
  BY <1>3, WriteLenType DEF PacketSize
<1>5. /\ r \in Reads /\ r.at = "drop" /\ r.want = rd.want - k /\ r.rx = rd.rx + k
      /\ r.rem = rd.rem /\ r.total = rd.total
  BY <1>1, <1>3, GotFields
<1> HIDE DEF r, L, n
<1>6. pos + k <= PacketSize(n)
  BY <1>1, <1>2, <1>3, <1>4
<1>7. /\ inbound' \in Seq(InLengths) /\ Len(inbound') <= MaxQueued /\ pos' \in Nat
      /\ WithinPacket(inbound', pos')
      /\ pos + k = PacketSize(n) => pos' = 0
      /\ pos + k < PacketSize(n) => inbound' = inbound /\ pos' = pos + k
  BY <1>1, <1>6, TakenFacts DEF n
<1>8. CASE r.want > 0
  <2>1. rd' = r /\ result' = result /\ open' = open
    BY <1>1, <1>8
  <2>2. pos + k < PacketSize(n)
    BY <1>2, <1>3, <1>4, <1>5, <1>8
  <2>3. /\ pos + k = 1 + L + r.total + r.rx /\ r.total + r.rx + r.want <= n
        /\ r.rx + r.want <= ReadBufSize
    BY <1>2, <1>3, <1>4, <1>5, Bounds
  <2>4. AtDrop(r, n, pos + k)
    BY <1>2, <1>5, <1>8, <2>3 DEF AtDrop, L
  <2>5. InPlace(rd', inbound', pos') /\ AtBoundary(rd', result', late', pos')
    BY <1>1, <1>5, <1>7, <2>1, <2>2, <2>4 DEF InPlace, AtBoundary, n
  <2> QED
    BY <1>5, <1>7, <2>1, <2>5 DEF ReadStays, Types
<1>9. CASE ~(r.want > 0)
  <2>1. GotDropped(s)
    BY <1>1, <1>5, <1>9 DEF Complete
  <2>2. s \in Reads /\ s.rem = n /\ s.total = r.total + r.rx
    <3>1. r.total + r.rx \in Nat
      BY <1>3, <1>5
    <3> QED
      BY <1>2, <1>5, <3>1 DEF Reads
  <2> HIDE DEF s
  <2>3. /\ s.total \in Nat /\ pos + k = 1 + L + s.total /\ s.total <= n
    <3>1. k \in Nat /\ rd.want = k
      BY <1>1, <1>3, <1>5, <1>9
    <3>2. s.total = rd.total + (rd.rx + k)
      BY <1>5, <2>2
    <3> QED
      BY <1>2, <1>3, <1>4, <3>1, <3>2
  <2>4. CASE s.total < n
    <3> DEFINE size == DropSize(s)
    <3>1. size \in 0..ReadBufSize /\ size > 0 /\ s.total + size <= n
      BY <1>3, <2>2, <2>3, <2>4, Bounds DEF DropSize
    <3>2. rd' = Ask(s, "drop", size) /\ result' = result /\ open' = open
      BY <2>1, <2>2, <2>3, <2>4, <1>3 DEF GotDropped
    <3> HIDE DEF size
    <3>3. /\ rd' \in Reads /\ rd'.at = "drop" /\ rd'.want = size /\ rd'.rx = 0
          /\ rd'.rem = n /\ rd'.total = s.total
      BY <2>2, <3>1, <3>2, AskDrop
    <3>4. pos + k < PacketSize(n)
      BY <1>3, <1>4, <2>3, <2>4
    <3>5. AtDrop(rd', n, pos + k)
      <4>1. pos + k = 1 + L + s.total + 0 /\ s.total + 0 + size <= n /\ 0 + size <= ReadBufSize
        BY <1>3, <1>4, <2>3, <3>1, Bounds
      <4> QED
        BY <3>1, <3>3, <4>1 DEF AtDrop, L
    <3>6. InPlace(rd', inbound', pos') /\ AtBoundary(rd', result', late', pos')
      BY <1>1, <1>7, <3>3, <3>4, <3>5 DEF InPlace, AtBoundary, n
    <3> QED
      BY <1>7, <3>2, <3>3, <3>6 DEF ReadStays, Types
  <2>5. CASE ~(s.total < n)
    <3>1. ReadReturns("MQTT_RX_BUFFER_TOO_SHORT_ERROR")
      BY <2>1, <2>2, <2>5 DEF GotDropped
    <3>2. pos + k = PacketSize(n)
      BY <1>3, <1>4, <2>3, <2>5
    <3> QED
      BY <1>1, <1>7, <3>1, <3>2, ReturnsAtBoundary
  <2> QED
    BY <2>4, <2>5
<1> QED
  BY <1>8, <1>9

\* What a step that leaves the send alone keeps of it.
LEMMA WriteFrame ==
    ASSUME Types, WriteInv, UNCHANGED writeVars
    PROVE  /\ WriteInv' /\ wr' \in Writes /\ onWire' \in Nat
           /\ expired' \in BOOLEAN /\ guessed' \in BOOLEAN
BY DEF writeVars, WriteInv, Types, InBuffer, Counted

\* Whatever is read.
LEMMA TlsReadKeeps ==
    ASSUME StreamInv, TlsRead
    PROVE  StreamInv'
<1>1. Types /\ ReadInv /\ WriteInv
  BY DEF StreamInv
<1>2. PICK k \in 1..ReadBufSize : TlsReadBytes(k)
  BY DEF TlsRead
<1>3. rd.at \in { "header", "length", "drop", "body" } /\ late' = late /\ UNCHANGED writeVars
  BY <1>1, <1>2, BytesSplit, ReadFields DEF Types, Places
<1>4. WithinPacket(inbound', pos') /\ pos' \in Nat /\ inbound' \in Seq(InLengths)
      /\ Len(inbound') <= MaxQueued /\ ReadStays
  BY <1>1, <1>2, <1>3, HeaderStep, LengthStep, DropStep, BodyStep
<1>5. /\ WriteInv' /\ wr' \in Writes /\ onWire' \in Nat
      /\ expired' \in BOOLEAN /\ guessed' \in BOOLEAN
  BY <1>1, <1>3, WriteFrame
<1>6. late' \in BOOLEAN
  BY <1>1, <1>3 DEF Types
<1>7. Types'
  BY <1>4, <1>5, <1>6 DEF Types, ReadStays
<1>8. ReadInv'
  BY <1>4 DEF ReadInv, ReadStays
<1> QED
  BY <1>5, <1>7, <1>8 DEF StreamInv

\* A read that stalls or breaks leaves the client where it is.
LEMMA ReadGivesUp ==
    ASSUME StreamInv, rd.at # "idle", NEW rc, rc # "SUCCESS", ReadReturns(rc),
           late' = (late \/ rd.at # "header"), UNCHANGED << inbound, pos, writeVars >>
    PROVE  StreamInv'
<1>1. Types /\ ReadInv /\ WriteInv
  BY DEF StreamInv
<1>2. rd' = NotReading /\ result' = rc /\ open' = (rc \notin TlsErrors)
  BY DEF ReadReturns
<1>3. late' \in BOOLEAN /\ open' \in BOOLEAN
  BY <1>2
<1>4. ~late' => pos' = 0
  <2>1. ~late' => rd.at = "header"
    OBVIOUS
  <2>2. rd.at = "header" => pos = 0
    BY <1>1 DEF ReadInv, InPlace, AtHeader
  <2> QED
    BY <2>1, <2>2
<1>5. InPlace(NotReading, inbound', pos') /\ AtBoundary(NotReading, rc, late', pos')
  BY <1>3, <1>4, IdleRead
<1>6. /\ WriteInv' /\ wr' \in Writes /\ onWire' \in Nat
      /\ expired' \in BOOLEAN /\ guessed' \in BOOLEAN
  BY <1>1, WriteFrame
<1>7. Types'
  BY <1>1, <1>2, <1>3, <1>6, NotReadingType DEF Types
<1>8. ReadInv'
  BY <1>1, <1>2, <1>5 DEF ReadInv, WithinPacket
<1> QED
  BY <1>6, <1>7, <1>8 DEF StreamInv

\* A read that fails is no success of read_packet.
LEMMA FailedReadNoSuccess ==
    ASSUME Types, rd.at # "idle", NEW rc, rc # "SUCCESS"
    PROVE  FailedRead(rc) # "SUCCESS"
<1>1. rd.at \in { "header", "length", "drop", "body" }
  BY ReadFields DEF Types, Places
<1>2. CASE rd.at = "header"
  BY <1>2 DEF FailedRead
<1>3. CASE rd.at = "length"
  BY <1>3 DEF FailedRead
<1>4. CASE rd.at = "drop"
  BY <1>4 DEF FailedRead
<1>5. CASE rd.at = "body"
  BY <1>5 DEF FailedRead
<1> QED
  BY <1>1, <1>2, <1>3, <1>4, <1>5

\* The timer has expired,
LEMMA TlsReadExpiresKeeps ==
    ASSUME StreamInv, TlsReadExpires
    PROVE  StreamInv'
<1> DEFINE rc == IF rd.rx = 0 THEN "NETWORK_SSL_NOTHING_TO_READ"
                 ELSE "NETWORK_SSL_READ_TIMEOUT_ERROR"
<1>1. /\ rd.at # "idle" /\ ReadReturns(FailedRead(rc))
      /\ late' = (late \/ rd.at # "header") /\ UNCHANGED << inbound, pos, writeVars >>
  BY DEF TlsReadExpires
<1>2. rc # "SUCCESS"
  OBVIOUS
<1> HIDE DEF rc
<1>3. FailedRead(rc) # "SUCCESS"
  BY <1>1, <1>2, FailedReadNoSuccess DEF StreamInv
<1> QED
  BY <1>1, <1>3, ReadGivesUp

\* or the connection is broken.
LEMMA TlsReadFailsKeeps ==
    ASSUME StreamInv, TlsReadFails
    PROVE  StreamInv'
<1>1. /\ rd.at # "idle" /\ ReadReturns(FailedRead("NETWORK_SSL_READ_ERROR"))
      /\ late' = (late \/ rd.at # "header") /\ UNCHANGED << inbound, pos, writeVars >>
  BY DEF TlsReadFails
<1>2. FailedRead("NETWORK_SSL_READ_ERROR") # "SUCCESS"
  BY <1>1, FailedReadNoSuccess DEF StreamInv
<1> QED
  BY <1>1, <1>2, ReadGivesUp

\* No send is in progress.
LEMMA NoWrite ==
    ASSUME wr' = NotWriting, expired' = FALSE, onWire' = 0, outcome' = "NONE",
           guessed' = FALSE
    PROVE  /\ WriteInv' /\ wr' \in Writes /\ onWire' \in Nat
           /\ expired' \in BOOLEAN /\ guessed' \in BOOLEAN
<1>1. wr' \in Writes /\ wr'.at = "idle"
  BY NotWritingType
<1>2. InBuffer(wr') /\ Counted(wr', expired', onWire')
  BY <1>1 DEF InBuffer, Counted
<1>3. WriteInv'
  BY <1>1, <1>2 DEF WriteInv
<1> QED
  BY <1>1, <1>3

\* read_packet begins between two packets.
LEMMA ReadPacketKeeps ==
    ASSUME StreamInv, ReadPacket
    PROVE  StreamInv'
<1>1. Types /\ ReadInv
  BY DEF StreamInv
<1>2. /\ pos = 0 /\ rd' = Ask(NotReading, "header", 1) /\ inbound' = inbound /\ pos' = pos
      /\ late' = late /\ open' = open
  BY DEF ReadPacket
<1>3. /\ WriteInv' /\ wr' \in Writes /\ onWire' \in Nat
      /\ expired' \in BOOLEAN /\ guessed' \in BOOLEAN
  BY NoWrite DEF ReadPacket
<1>4. /\ rd' \in Reads /\ rd'.at = "header" /\ rd'.want = 1 /\ rd'.len = 0
      /\ rd'.mult = 1 /\ rd'.rem = 0 /\ rd'.total = 0
  <2>1. 1 \in 0..ReadBufSize /\ "header" \in Places
    BY Bounds DEF Places
  <2>2. NotReading.len = 0 /\ NotReading.mult = 1 /\ NotReading.rem = 0 /\ NotReading.total = 0
    BY DEF NotReading
  <2> QED
    BY <1>2, <2>1, <2>2, NotReadingType, AskHeader
<1>5. Types'
  BY <1>1, <1>2, <1>3, <1>4 DEF Types
<1>6. ReadInv'
  BY <1>1, <1>2, <1>4 DEF ReadInv, WithinPacket, InPlace, AtHeader, AtBoundary
<1> QED
  BY <1>3, <1>5, <1>6 DEF StreamInv

\* A packet more in the stream does not change where the client is in it.
LEMMA BrokerSendsKeeps ==
    ASSUME StreamInv, NEW n \in InLengths, BrokerSends(n)
    PROVE  StreamInv'
<1>1. Types /\ ReadInv /\ WriteInv
  BY DEF StreamInv
<1>2. /\ Len(inbound) < MaxQueued /\ inbound' = Append(inbound, n) /\ pos' = pos
      /\ rd' = rd /\ result' = result /\ late' = late /\ UNCHANGED writeVars /\ open' = open
  BY DEF BrokerSends
<1>3. /\ WriteInv' /\ wr' \in Writes /\ onWire' \in Nat
      /\ expired' \in BOOLEAN /\ guessed' \in BOOLEAN
  BY <1>1, <1>2, WriteFrame
<1>4. /\ inbound' \in Seq(InLengths) /\ inbound' # << >> /\ Len(inbound') <= MaxQueued
      /\ inbound # << >> => Head(inbound') = Head(inbound)
  <2>1. inbound \in Seq(InLengths) /\ Len(inbound) \in Nat
    BY <1>1 DEF Types
  <2>2. Len(inbound') = Len(inbound) + 1 /\ inbound' \in Seq(InLengths) /\ inbound' # << >>
    BY <1>2, <2>1
  <2>3. inbound # << >> => Head(inbound') = Head(inbound)
    BY <1>2, <2>1
  <2> QED
    BY <1>2, <2>1, <2>2, <2>3, Bounds
<1>5. Types'
  BY <1>1, <1>2, <1>3, <1>4 DEF Types
<1>6. ReadInv'
  <2>1. WithinPacket(inbound', pos')
    BY <1>1, <1>2, <1>4 DEF ReadInv, WithinPacket
  <2>2. InPlace(rd', inbound', pos')
    BY <1>1, <1>2, <1>4 DEF ReadInv, InPlace
  <2>3. AtBoundary(rd', result', late', pos')
    BY <1>1, <1>2 DEF ReadInv
  <2> QED
    BY <2>1, <2>2, <2>3 DEF ReadInv
<1> QED
  BY <1>3, <1>5, <1>6 DEF StreamInv

\* A connection nothing has been read from.
LEMMA FreshRead ==
    ASSUME NEW in, in = << >>
    PROVE  /\ in \in Seq(InLengths) /\ Len(in) <= MaxQueued /\ WithinPacket(in, 0)
           /\ InPlace(NotReading, in, 0) /\ AtBoundary(NotReading, "NONE", FALSE, 0)
<1>1. in \in Seq(InLengths) /\ Len(in) <= MaxQueued
  BY Bounds
<1>2. WithinPacket(in, 0)
  BY DEF WithinPacket
<1>3. InPlace(NotReading, in, 0) /\ AtBoundary(NotReading, "NONE", FALSE, 0)
  BY IdleRead
<1> QED
  BY <1>1, <1>2, <1>3

\* A new connection begins with a packet,
LEMMA ReconnectKeeps ==
    ASSUME Reconnect
    PROVE  StreamInv'
<1>1. /\ inbound' = << >> /\ pos' = 0 /\ rd' = NotReading /\ result' = "NONE"
      /\ late' = FALSE /\ open' = TRUE
  BY DEF Reconnect
<1>2. /\ WriteInv' /\ wr' \in Writes /\ onWire' \in Nat
      /\ expired' \in BOOLEAN /\ guessed' \in BOOLEAN
  BY NoWrite DEF Reconnect
<1>3. ReadInv'
  BY <1>1, FreshRead DEF ReadInv
<1>4. Types'
  BY <1>1, <1>2, FreshRead, NotReadingType DEF Types
<1> QED
  BY <1>2, <1>3, <1>4 DEF StreamInv

\* and so does the first.
LEMMA InitStream ==
    ASSUME Init
    PROVE  StreamInv
<1>1. /\ inbound = << >> /\ pos = 0 /\ rd = NotReading /\ result = "NONE"
      /\ late = FALSE /\ open = TRUE
  BY DEF Init, Fresh
<1>2. wr = NotWriting /\ expired = FALSE /\ onWire = 0 /\ outcome = "NONE" /\ guessed = FALSE
  BY DEF Init, Fresh
<1>3. wr \in Writes /\ wr.at = "idle"
  BY <1>2, NotWritingType
<1>4. InBuffer(wr) /\ Counted(wr, expired, onWire)
  BY <1>3 DEF InBuffer, Counted
<1>5. WriteInv
  BY <1>2, <1>3, <1>4 DEF WriteInv
<1>6. ReadInv
  BY <1>1, FreshRead DEF ReadInv
<1>7. Types
  BY <1>1, <1>2, <1>3, FreshRead, NotReadingType DEF Types
<1> QED
  BY <1>5, <1>6, <1>7 DEF StreamInv

-----------------------------------------------------------------------------
(* send_packet counts what it has sent. *)

\* What a step of send_packet leaves alone.
LEMMA ReadFrame ==
    ASSUME Types, ReadInv, UNCHANGED << readVars, open >>
    PROVE  /\ ReadInv' /\ inbound' \in Seq(InLengths) /\ Len(inbound') <= MaxQueued
           /\ pos' \in Nat /\ rd' \in Reads /\ late' \in BOOLEAN /\ open' \in BOOLEAN
<1>1. /\ inbound' = inbound /\ pos' = pos /\ rd' = rd /\ result' = result /\ late' = late
      /\ open' = open
  BY DEF readVars
<1>2. ReadInv'
  BY <1>1 DEF ReadInv, WithinPacket, InPlace, AtBoundary
<1> QED
  BY <1>1, <1>2 DEF Types

\* It is enough to look at the send.
LEMMA WriteStepKeeps ==
    ASSUME StreamInv, UNCHANGED << readVars, open >>, WriteInv',
           wr' \in Writes, onWire' \in Nat, expired' \in BOOLEAN, guessed' \in BOOLEAN
    PROVE  StreamInv'
<1>1. /\ ReadInv' /\ inbound' \in Seq(InLengths) /\ Len(inbound') <= MaxQueued
      /\ pos' \in Nat /\ rd' \in Reads /\ late' \in BOOLEAN /\ open' \in BOOLEAN
  BY ReadFrame DEF StreamInv
<1>2. Types'
  BY <1>1 DEF Types
<1> QED
  BY <1>1, <1>2 DEF StreamInv

\* A packet that is not refused leaves a byte of the buffer unused.
LEMMA SendKeeps ==
    ASSUME StreamInv, NEW p \in OutPackets, Send(p)
    PROVE  StreamInv'
<1>1. Types /\ ReadInv
  BY DEF StreamInv
<1>2. /\ wr' = [at |-> IF Refused(p) THEN "idle" ELSE "loop", packet |-> p,
                length |-> Serialized(p), sent |-> 0, written |-> 0, ret |-> 0]
      /\ outcome' = (IF Refused(p) THEN "MQTT_TX_BUFFER_TOO_SHORT_ERROR" ELSE "NONE")
      /\ result' = "NONE" /\ expired' = FALSE /\ onWire' = 0 /\ guessed' = FALSE
      /\ inbound' = inbound /\ pos' = pos /\ rd' = rd /\ late' = late /\ open' = open
      /\ Idle
  BY DEF Send
<1>3. IsPacket(p)
  BY PacketsOut
<1>4. RemainingLength(p) \in Nat /\ SerializedLength(p) = PacketSize(RemainingLength(p))
  BY <1>3, FieldsAddUp
<1>5. SerializedLength(p) \in Nat /\ SerializedLength(p) > 0
  BY <1>4, PacketSizeType
<1>6. Serialized(p) \in Nat
  BY <1>5 DEF Serialized
<1>7. wr' \in Writes
  BY <1>2, <1>6, Bounds DEF Writes
<1>8. InBuffer(wr')
  <2>1. wr'.at # "idle" => ~Refused(p)
    BY <1>2
  <2>2. ~Refused(p) => Serialized(p) = SerializedLength(p) /\ SerializedLength(p) < WriteBufSize
    BY <1>5, Bounds DEF Refused, Serialized
  <2>3. wr'.packet = p /\ wr'.length = Serialized(p)
    BY <1>2
  <2> QED
    BY <1>5, <2>1, <2>2, <2>3 DEF InBuffer
<1>9. Counted(wr', expired', onWire')
  <2>1. wr'.at \in { "idle", "loop" } /\ wr'.sent = 0
    BY <1>2
  <2> QED
    BY <1>2, <2>1 DEF Counted
<1>10. outcome' # "SUCCESS" /\ (wr'.at # "idle" => outcome' = "NONE")
  BY <1>2
<1>11. WriteInv'
  BY <1>2, <1>8, <1>9, <1>10 DEF WriteInv
<1>12. Types'
  BY <1>1, <1>2, <1>7 DEF Types
<1>13. ReadInv'
  <2>1. WithinPacket(inbound', pos') /\ InPlace(rd', inbound', pos')
    BY <1>1, <1>2 DEF ReadInv
  <2>2. AtBoundary(rd', result', late', pos')
    BY <1>1, <1>2 DEF ReadInv, AtBoundary
  <2> QED
    BY <2>1, <2>2 DEF ReadInv
<1> QED
  BY <1>11, <1>12, <1>13 DEF StreamInv

\* A send that ends: SUCCESS is returned for a packet that is sent.
LEMMA SendEnds ==
    ASSUME StreamInv, NEW rc, SendReturns(rc),
           UNCHANGED << readVars, expired, onWire, guessed, open >>,
           rc = "SUCCESS" /\ ~guessed => onWire = PacketSize(RemainingLength(wr.packet))
    PROVE  StreamInv'
<1>1. Types /\ WriteInv
  BY DEF StreamInv
<1>2. wr' = [wr EXCEPT !.at = "idle"] /\ outcome' = rc
  BY DEF SendReturns
<1>3. wr' \in Writes /\ wr'.at = "idle" /\ wr'.packet = wr.packet
  BY <1>1, <1>2 DEF Types, Writes
<1>4. InBuffer(wr') /\ Counted(wr', expired', onWire')
  BY <1>3 DEF InBuffer, Counted
<1>5. WriteInv'
  BY <1>1, <1>2, <1>3, <1>4 DEF WriteInv
<1> QED
  BY <1>1, <1>3, <1>5, WriteStepKeeps DEF Types

\* A send that goes on.
LEMMA SendGoesOn ==
    ASSUME StreamInv, wr.at # "idle", wr' \in Writes, wr'.packet = wr.packet,
           wr'.length = wr.length, UNCHANGED << readVars, expired, outcome, open >>,
           onWire' \in Nat, guessed' \in BOOLEAN, guessed' => expired,
           ~guessed' => Counted(wr', expired, onWire')
    PROVE  StreamInv'
<1>1. Types /\ WriteInv
  BY DEF StreamInv
<1>2. InBuffer(wr) /\ outcome = "NONE"
  BY <1>1 DEF WriteInv
<1>3. InBuffer(wr')
  BY <1>2 DEF InBuffer
<1>4. WriteInv'
  BY <1>2, <1>3 DEF WriteInv
<1> QED
  BY <1>1, <1>4, WriteStepKeeps DEF Types

\* send_packet calls iot_tls_write once, or returns.
LEMMA SendLoopKeeps ==
    ASSUME StreamInv, SendLoop
    PROVE  StreamInv'
<1>1. Types /\ WriteInv /\ wr.at = "loop" /\ wr \in Writes
  BY DEF StreamInv, Types, SendLoop
<1>2. UNCHANGED << readVars, expired, onWire, guessed, open >>
  BY DEF SendLoop
<1>3. /\ wr.packet \in OutPackets /\ wr.length = SerializedLength(wr.packet)
      /\ wr.length \in Nat /\ wr.length > 0 /\ wr.sent \in Nat
  BY <1>1, WriteFields DEF WriteInv, InBuffer
<1>4. ~guessed => wr.sent = onWire /\ wr.sent \in { 0, wr.length }
  BY <1>1 DEF WriteInv, Counted
<1>5. ASSUME wr.sent < wr.length, NEW unset \in Unset, outcome' = outcome,
             wr' = [wr EXCEPT !.at = "for", !.written = 0, !.ret = unset]
      PROVE  StreamInv'
  <2>1. /\ wr'.at = "for" /\ wr'.packet = wr.packet /\ wr'.length = wr.length
        /\ wr'.sent = wr.sent /\ wr'.written = 0
    BY <1>1, <1>5 DEF Writes
  <2>2. wr' \in Writes
    <3>1. unset \in Int /\ 0 \in 0..(SizeMax - 1)
      BY <1>5, Bounds
    <3> QED
      BY <1>1, <1>5, <3>1 DEF Writes
  <2>3. ~guessed => Counted(wr', expired, onWire)
    <3>1. ~guessed => wr.sent = 0 /\ onWire = 0
      BY <1>3, <1>4, <1>5
    <3>2. wr'.at = "for" /\ wr'.sent = wr.sent /\ wr'.written = 0 /\ wr'.length = wr.length
      BY <2>1
    <3> QED
      BY <1>3, <3>1, <3>2 DEF Counted
  <2>4. onWire' = onWire /\ guessed' = guessed /\ expired' = expired /\ UNCHANGED readVars
        /\ open' = open
    BY <1>2
  <2>5. onWire \in Nat /\ guessed \in BOOLEAN /\ (guessed => expired)
    BY <1>1 DEF Types, WriteInv
  <2>6. wr'.packet = wr.packet /\ wr'.length = wr.length
    BY <2>1
  <2> QED
    BY <1>1, <1>5, <2>2, <2>3, <2>4, <2>5, <2>6, SendGoesOn
<1>6. ASSUME SendReturns(IF wr.sent = wr.length THEN "SUCCESS" ELSE "FAILURE")
      PROVE  StreamInv'
  <2>1. wr.sent = wr.length /\ ~guessed => onWire = PacketSize(RemainingLength(wr.packet))
    <3>1. SerializedLength(wr.packet) = PacketSize(RemainingLength(wr.packet))
      BY <1>3, PacketsOut, FieldsAddUp
    <3> QED
      BY <1>3, <1>4, <3>1
  <2>2. CASE wr.sent = wr.length
    BY <1>2, <1>6, <2>1, <2>2, SendEnds
  <2>3. CASE wr.sent # wr.length
    BY <1>2, <1>6, <2>3, SendEnds
  <2> QED
    BY <2>2, <2>3
<1>7. \/ /\ wr.sent < wr.length /\ outcome' = outcome
         /\ \E unset \in Unset :
                wr' = [wr EXCEPT !.at = "for", !.written = 0, !.ret = unset]
      \/ SendReturns(IF wr.sent = wr.length THEN "SUCCESS" ELSE "FAILURE")
  BY DEF SendLoop
<1> QED
  BY <1>5, <1>6, <1>7

\* The outer loop of iot_tls_write ends with everything written or the timer.
LEMMA WriteForKeeps ==
    ASSUME StreamInv, WriteFor
    PROVE  StreamInv'
<1>1. Types /\ WriteInv /\ wr.at = "for" /\ wr \in Writes
  BY DEF StreamInv, Types, WriteFor
<1> DEFINE at == IF wr.written < wr.length /\ ~expired THEN "while" ELSE "exit"
<1>2. wr' = [wr EXCEPT !.at = at]
      /\ UNCHANGED << readVars, expired, onWire, outcome, guessed, open >>
  BY DEF WriteFor
<1>3. wr' = [at |-> at, packet |-> wr.packet, length |-> wr.length, sent |-> wr.sent,
             written |-> wr.written, ret |-> wr.ret]
  BY <1>1, <1>2, WriteFields
<1>4. wr' \in Writes
  BY <1>1, <1>3, WriteFields DEF Writes
<1>5. ~guessed => Counted(wr', expired, onWire)
  <2>1. ~guessed => wr.sent = 0 /\ wr.written = onWire /\ wr.written <= wr.length
    BY <1>1 DEF WriteInv, Counted
  <2>2. wr.written \in Nat /\ wr.length \in Nat /\ expired \in BOOLEAN
    BY <1>1, WriteFields, Bounds DEF Types
  <2>3. wr'.at = at /\ wr'.sent = wr.sent /\ wr'.written = wr.written
        /\ wr'.length = wr.length
    BY <1>3
  <2>4. CASE wr.written < wr.length /\ ~expired
    BY <2>1, <2>3, <2>4 DEF Counted
  <2>5. CASE ~(wr.written < wr.length)
    <3>1. ~guessed => wr.written = wr.length
      BY <2>1, <2>2, <2>5
    <3> QED
      BY <2>1, <2>3, <2>5, <3>1 DEF Counted
  <2>6. CASE expired
    <3>1. wr'.at = "exit" /\ expired = TRUE
      BY <2>2, <2>3, <2>6
    <3> QED
      BY <2>1, <2>3, <3>1 DEF Counted
  <2> QED
    BY <2>4, <2>5, <2>6
<1>6. onWire \in Nat /\ guessed \in BOOLEAN /\ (guessed => expired)
  BY <1>1 DEF Types, WriteInv
<1>7. wr'.packet = wr.packet /\ wr'.length = wr.length
  BY <1>3
<1> QED
  BY <1>1, <1>2, <1>4, <1>5, <1>6, <1>7, SendGoesOn

\* The timer expires between the two loops: from here on the count is a guess.
LEMMA WriteTimesOutKeeps ==
    ASSUME StreamInv, WriteTimesOut
    PROVE  StreamInv'
<1>1. Types /\ wr.at = "while" /\ wr \in Writes /\ expired
  BY DEF StreamInv, Types, WriteTimesOut
<1>2. wr' = [wr EXCEPT !.at = "add"] /\ guessed' = TRUE
      /\ UNCHANGED << readVars, expired, onWire, outcome, open >>
  BY DEF WriteTimesOut
<1>3. wr' = [at |-> "add", packet |-> wr.packet, length |-> wr.length, sent |-> wr.sent,
             written |-> wr.written, ret |-> wr.ret]
  BY <1>1, <1>2, WriteFields
<1>4. wr' \in Writes
  BY <1>1, <1>3, WriteFields DEF Writes
<1>5. wr'.packet = wr.packet /\ wr'.length = wr.length /\ onWire' \in Nat
  BY <1>1, <1>2, <1>3 DEF Types
<1> QED
  BY <1>1, <1>2, <1>4, <1>5, SendGoesOn

\* What mbedTLS has sent is counted next.
LEMMA WriteBytesKeeps ==
    ASSUME StreamInv, NEW k \in { 1, wr.length - wr.written } \ { 0 }, WriteBytes(k)
    PROVE  StreamInv'
<1>1. Types /\ WriteInv /\ wr.at = "while" /\ wr \in Writes
  BY DEF StreamInv, Types, WriteBytes
<1>2. /\ k <= wr.length - wr.written /\ wr' = [wr EXCEPT !.at = "add", !.ret = k]
      /\ onWire' = onWire + k /\ ~expired
      /\ UNCHANGED << readVars, expired, outcome, guessed, open >>
  BY DEF WriteBytes
<1>3. wr.written \in Nat /\ wr.length \in Nat /\ onWire \in Nat
  BY <1>1, WriteFields, Bounds DEF Types
<1>4. ~guessed /\ wr.sent = 0 /\ wr.written = onWire /\ wr.written < wr.length
  BY <1>1, <1>2 DEF WriteInv, Counted
<1>5. k \in Nat /\ wr.written + k <= wr.length
  BY <1>2, <1>3, <1>4
<1>6. /\ wr'.at = "add" /\ wr'.packet = wr.packet /\ wr'.length = wr.length
      /\ wr'.sent = wr.sent /\ wr'.written = wr.written /\ wr'.ret = k
  BY <1>1, <1>2 DEF Writes
<1>7. wr' \in Writes
  <2>1. k \in Int
    BY <1>5
  <2> QED
    BY <1>1, <1>2, <2>1 DEF Writes
<1>8. Counted(wr', expired, onWire')
  <2>1. /\ wr'.at = "add" /\ wr'.sent = 0 /\ wr'.written = onWire /\ wr'.ret = k
        /\ wr'.length = wr.length
    BY <1>4, <1>6
  <2> QED
    BY <1>2, <1>3, <1>4, <1>5, <2>1 DEF Counted
<1>9. wr'.packet = wr.packet /\ wr'.length = wr.length /\ onWire' \in Nat
  BY <1>2, <1>3, <1>5, <1>6
<1>10. guessed' \in BOOLEAN /\ ~guessed'
  BY <1>1, <1>2, <1>4 DEF Types
<1> QED
  BY <1>1, <1>2, <1>7, <1>8, <1>9, <1>10, SendGoesOn

\* A negative answer leaves the count alone.
LEMMA WriteBusyKeeps ==
    ASSUME StreamInv, WriteBusy
    PROVE  StreamInv'
<1>1. Types /\ WriteInv /\ wr.at = "while" /\ wr \in Writes
  BY DEF StreamInv, Types, WriteBusy
<1>2. wr' = [wr EXCEPT !.ret = WantWrite]
      /\ UNCHANGED << readVars, expired, onWire, outcome, guessed, open >>
  BY DEF WriteBusy
<1>3. wr' = [at |-> "while", packet |-> wr.packet, length |-> wr.length, sent |-> wr.sent,
             written |-> wr.written, ret |-> WantWrite]
  BY <1>1, <1>2, WriteFields
<1>4. wr' \in Writes
  BY <1>1, <1>3, WriteFields DEF Writes, WantWrite
<1>5. ~guessed => Counted(wr', expired, onWire)
  <2>1. ~guessed => wr.sent = 0 /\ wr.written = onWire /\ wr.written < wr.length
    BY <1>1 DEF WriteInv, Counted
  <2> QED
    BY <1>3, <2>1 DEF Counted
<1>6. onWire \in Nat /\ guessed \in BOOLEAN /\ (guessed => expired)
  BY <1>1 DEF Types, WriteInv
<1>7. wr'.packet = wr.packet /\ wr'.length = wr.length
  BY <1>3
<1> QED
  BY <1>1, <1>2, <1>4, <1>5, <1>6, <1>7, SendGoesOn

\* Unsigned addition is exact below the limit.
LEMMA Remainder ==
    ASSUME NEW a \in Int, NEW b \in Nat, b > 0
    PROVE  a % b \in 0..(b - 1) /\ (a >= 0 /\ a < b => a % b = a)
OBVIOUS

\* The count of a buffer below the largest size_t does not wrap.
LEMMA WriteAddKeeps ==
    ASSUME StreamInv, WriteAdd
    PROVE  StreamInv'
<1>1. Types /\ WriteInv /\ wr.at = "add" /\ wr \in Writes
  BY DEF StreamInv, Types, WriteAdd
<1> DEFINE count == (wr.written + wr.ret) % SizeMax
<1>2. wr' = [wr EXCEPT !.at = "for", !.written = count]
      /\ UNCHANGED << readVars, expired, onWire, outcome, guessed, open >>
  BY DEF WriteAdd
<1>3. wr.written \in Nat /\ wr.ret \in Int /\ wr.length \in Nat
  BY <1>1, WriteFields, Bounds
<1>4. count \in 0..(SizeMax - 1)
        /\ (wr.written + wr.ret >= 0 /\ wr.written + wr.ret < SizeMax
              => count = wr.written + wr.ret)
  BY <1>3, Bounds, Remainder
<1> HIDE DEF count
<1>5. /\ wr'.at = "for" /\ wr'.packet = wr.packet /\ wr'.length = wr.length
      /\ wr'.sent = wr.sent /\ wr'.written = count
  BY <1>1, <1>2 DEF Writes
<1>6. wr' \in Writes
  BY <1>1, <1>2, <1>4 DEF Writes
<1>7. ~guessed => Counted(wr', expired, onWire)
  <2>1. ASSUME ~guessed
        PROVE  /\ wr.sent = 0 /\ wr.ret \in Nat /\ wr.written + wr.ret = onWire
               /\ onWire <= wr.length
    BY <1>1, <2>1 DEF WriteInv, Counted
  <2>2. wr.length < SizeMax
    BY <1>1, <1>3, Bounds DEF WriteInv, InBuffer
  <2>3. ASSUME ~guessed PROVE count = onWire
    BY <1>3, <1>4, <2>1, <2>2, <2>3, Bounds
  <2> QED
    BY <1>5, <2>1, <2>3 DEF Counted
<1>8. onWire \in Nat /\ guessed \in BOOLEAN /\ (guessed => expired)
  BY <1>1 DEF Types, WriteInv
<1>9. wr'.packet = wr.packet /\ wr'.length = wr.length
  BY <1>5
<1> QED
  BY <1>1, <1>2, <1>6, <1>7, <1>8, <1>9, SendGoesOn

\* Only a complete write is no error once the timer has expired.
LEMMA WriteExitKeeps ==
    ASSUME StreamInv, WriteExit
    PROVE  StreamInv'
<1>1. Types /\ WriteInv /\ wr.at = "exit" /\ wr \in Writes
  BY DEF StreamInv, Types, WriteExit
<1>2. UNCHANGED << readVars, expired, onWire, guessed, open >>
  BY DEF WriteExit
<1>3. CASE expired /\ wr.written # wr.length
  <2>1. SendReturns("FAILURE")
    BY <1>3 DEF WriteExit
  <2> QED
    BY <1>2, <2>1, SendEnds
<1>4. CASE ~(expired /\ wr.written # wr.length)
  <2>1. wr' = [wr EXCEPT !.at = "loop", !.sent = @ + wr.written] /\ outcome' = outcome
    BY <1>4 DEF WriteExit
  <2>2. wr.written \in Nat /\ wr.sent \in Nat /\ wr.length \in Nat /\ expired \in BOOLEAN
    BY <1>1, WriteFields, Bounds DEF Types
  <2>3. /\ wr'.at = "loop" /\ wr'.packet = wr.packet /\ wr'.length = wr.length
        /\ wr'.sent = wr.sent + wr.written
    BY <1>1, <2>1 DEF Writes
  <2>4. wr' \in Writes
    <3>1. wr.sent + wr.written \in Nat
      BY <2>2
    <3> QED
      BY <1>1, <2>1, <3>1 DEF Writes
  <2>5. ASSUME ~guessed PROVE Counted(wr', expired, onWire)
    <3>1. /\ wr.sent = 0 /\ wr.written = onWire
          /\ wr.written = wr.length \/ expired = TRUE
      BY <1>1, <2>5 DEF WriteInv, Counted
    <3>2. wr.written = wr.length
      BY <1>4, <3>1
    <3>3. wr'.at = "loop" /\ wr'.sent = onWire /\ wr'.sent = wr'.length
      BY <2>2, <2>3, <3>1, <3>2
    <3> QED
      BY <3>3 DEF Counted
  <2>6. onWire \in Nat /\ guessed \in BOOLEAN /\ (guessed => expired)
    BY <1>1 DEF Types, WriteInv
  <2>7. wr'.packet = wr.packet /\ wr'.length = wr.length
    BY <2>3
  <2> QED
    BY <1>1, <1>2, <2>1, <2>4, <2>5, <2>6, <2>7, SendGoesOn
<1> QED
  BY <1>3, <1>4

\* The timer may expire at any time.
LEMMA TimerExpiresKeeps ==
    ASSUME StreamInv, TimerExpires
    PROVE  StreamInv'
<1>1. Types /\ WriteInv
  BY DEF StreamInv
<1>2. /\ expired' = TRUE /\ wr' = wr /\ onWire' = onWire /\ outcome' = outcome
      /\ guessed' = guessed /\ UNCHANGED << readVars, open >> /\ ~expired /\ wr.at # "idle"
  BY DEF TimerExpires
<1>3. expired \in BOOLEAN /\ expired = FALSE
  BY <1>1, <1>2 DEF Types
<1>4. Counted(wr, expired, onWire) => Counted(wr, TRUE, onWire)
  BY <1>3 DEF Counted
<1>5. InBuffer(wr) /\ outcome = "NONE" /\ (~guessed => Counted(wr, expired, onWire))
  BY <1>1, <1>2 DEF WriteInv
<1>6. WriteInv'
  BY <1>2, <1>4, <1>5 DEF WriteInv
<1> QED
  BY <1>1, <1>2, <1>6, WriteStepKeeps DEF Types

\* Nothing happens.
LEMMA StutterKeeps ==
    ASSUME StreamInv, UNCHANGED vars
    PROVE  StreamInv'
<1>1. UNCHANGED readVars /\ UNCHANGED writeVars /\ UNCHANGED open
  BY DEF vars
<1>2. /\ WriteInv' /\ wr' \in Writes /\ onWire' \in Nat
      /\ expired' \in BOOLEAN /\ guessed' \in BOOLEAN
  BY <1>1, WriteFrame DEF StreamInv
<1> QED
  BY <1>1, <1>2, WriteStepKeeps

\* Every step keeps the invariant.
LEMMA NextKeeps ==
    ASSUME StreamInv, [Next]_vars
    PROVE  StreamInv'
<1>1. CASE ReadStep
  BY <1>1, ReadPacketKeeps, TlsReadKeeps, TlsReadExpiresKeeps, TlsReadFailsKeeps
  DEF ReadStep
<1>2. CASE WriteStep
  <2>1. CASE \E p \in OutPackets : Send(p)
    BY <2>1, SendKeeps
  <2>2. CASE SendLoop
    BY <2>2, SendLoopKeeps
  <2>3. CASE WriteFor
    BY <2>3, WriteForKeeps
  <2>4. CASE WriteTimesOut
    BY <2>4, WriteTimesOutKeeps
  <2>5. CASE \E k \in { 1, wr.length - wr.written } \ { 0 } : WriteBytes(k)
    BY <2>5, WriteBytesKeeps
  <2>6. CASE WriteBusy
    BY <2>6, WriteBusyKeeps
  <2>7. CASE WriteFails
    <3>1. SendReturns("FAILURE") /\ UNCHANGED << readVars, expired, onWire, guessed, open >>
      BY <2>7 DEF WriteFails
    <3> QED
      BY <3>1, SendEnds
  <2>8. CASE WriteAdd
    BY <2>8, WriteAddKeeps
  <2>9. CASE WriteExit
    BY <2>9, WriteExitKeeps
  <2>10. CASE TimerExpires
    BY <2>10, TimerExpiresKeeps
  <2> QED
    BY <1>2, <2>1, <2>2, <2>3, <2>4, <2>5, <2>6, <2>7, <2>8, <2>9, <2>10 DEF WriteStep
<1>3. CASE \E n \in InLengths : BrokerSends(n)
  BY <1>3, BrokerSendsKeeps
<1>4. CASE Reconnect
  BY <1>4, ReconnectKeeps
<1>5. CASE UNCHANGED vars
  BY <1>5, StutterKeeps
<1> QED
  BY <1>1, <1>2, <1>3, <1>4, <1>5 DEF Next

\* Reader and sender are always where the invariant says: within one packet, with
\* as many bytes counted as have been read or sent.
THEOREM StreamInvariant == Spec => []StreamInv
<1>1. Init => StreamInv
  BY InitStream
<1>2. StreamInv /\ [Next]_vars => StreamInv'
  BY NextKeeps
<1> QED
  BY <1>1, <1>2, PTL DEF Spec

-----------------------------------------------------------------------------
(* The properties. *)

\* The variables have their types; also the counter of iot_tls_write, whatever an
\* uninitialized ret adds to it.
THEOREM StreamTypes == Spec => []TypeOK
<1>1. StreamInv => TypeOK
  <2>1. ASSUME Types PROVE TypeOK
    <3>1. rd.at \in Places /\ rd.want \in 0..ReadBufSize
      BY <2>1, ReadFields DEF Types
    <3>2. /\ wr.at \in { "idle", "loop", "for", "while", "add", "exit" }
          /\ wr.written \in 0..(SizeMax - 1)
      BY <2>1, WriteFields DEF Types
    <3> QED
      BY <2>1, <3>1, <3>2 DEF Types, TypeOK, Places
  <2> QED
    BY <2>1 DEF StreamInv
<1> QED
  BY <1>1, StreamInvariant, PTL

\* read_packet never reads beyond the packet it is in and takes it for as long as
\* the broker has made it; a packet that was handed on, and one that was dropped for
\* want of room, leaves the client at the beginning of the next.
THEOREM ReadsInStep == Spec => []InStep
<1>1. StreamInv => InStep
  <2> SUFFICES ASSUME StreamInv PROVE InStep
    OBVIOUS
  <2>1. Types /\ ReadInv
    BY DEF StreamInv
  <2>2. ASSUME rd.at \in { "drop", "body" }
        PROVE  /\ inbound # << >> /\ rd.rem = Head(inbound)
               /\ pos + rd.want <= PacketSize(rd.rem)
    <3>1. inbound # << >> /\ rd \in Reads
      BY <2>1, <2>2 DEF ReadInv, InPlace, Types
    <3> DEFINE n == Head(inbound)
               L == Len(WriteLen[n])
    <3>2. n \in Nat
      BY <2>1, <3>1, HeadNat
    <3>3. L \in Nat /\ PacketSize(n) = 1 + L + n
      BY <3>2, WriteLenType DEF PacketSize
    <3>4. rd.want \in Nat /\ rd.rx \in Nat /\ rd.total \in Nat
      BY <3>1, Bounds, ReadFields
    <3>5. CASE rd.at = "drop"
      <4>1. /\ rd.rem = n /\ pos = 1 + L + rd.total + rd.rx
            /\ rd.total + rd.rx + rd.want <= n
        BY <2>1, <3>5 DEF ReadInv, InPlace, AtDrop
      <4> HIDE DEF L, n
      <4>2. pos + rd.want <= PacketSize(n)
        BY <3>2, <3>3, <3>4, <4>1
      <4> QED
        BY <3>1, <4>1, <4>2 DEF n
    <3>6. CASE rd.at = "body"
      <4>1. rd.rem = n /\ pos = 1 + L + rd.rx /\ rd.rx + rd.want = n
        BY <2>1, <3>6 DEF ReadInv, InPlace, AtBody
      <4> HIDE DEF L, n
      <4>2. pos + rd.want <= PacketSize(n)
        BY <3>2, <3>3, <3>4, <4>1
      <4> QED
        BY <3>1, <4>1, <4>2 DEF n
    <3> QED
      BY <2>2, <3>5, <3>6
  <2>3. rd.at = "idle" /\ (result = "SUCCESS" \/ ~late) => pos = 0
    BY <2>1 DEF ReadInv, AtBoundary
  <2> QED
    BY <2>2, <2>3 DEF InStep
<1> QED
  BY <1>1, StreamInvariant, PTL

\* However often mbedTLS is busy or sends a part, iot_tls_write goes on with the
\* first byte that was not sent, and SUCCESS of send_packet means that the broker
\* has got as many bytes as the remaining length announced.
THEOREM SendsWhole == Spec => []SentWhole
<1>1. StreamInv => SentWhole
  <2> SUFFICES ASSUME StreamInv PROVE SentWhole
    OBVIOUS
  <2>1. Types /\ WriteInv /\ wr \in Writes
    BY DEF StreamInv, Types
  <2>2. ASSUME wr.at = "while", ~expired PROVE wr.sent + wr.written = onWire
    <3>1. wr.sent = 0 /\ wr.written = onWire
      BY <2>1, <2>2 DEF WriteInv, Counted
    <3>2. onWire \in Nat
      BY <2>1 DEF Types
    <3> QED
      BY <3>1, <3>2
  <2>3. outcome = "SUCCESS" /\ ~guessed => onWire = PacketSize(RemainingLength(wr.packet))
    BY <2>1 DEF WriteInv
  <2> QED
    BY <2>2, <2>3 DEF SentWhole
<1> QED
  BY <1>1, StreamInvariant, PTL

\* What is written for a packet that is not refused fits into the buffer.
LEMMA SerializedFits ==
    ASSUME WriteBufSize < FourBytes, NEW p, IsPacket(p)
    PROVE  Serialized(p) <= WriteBufSize
<1> DEFINE n == RemainingLength(p)
<1>1. n \in Nat /\ SerializedLength(p) = PacketSize(n)
  BY FieldsAddUp
<1>2. CASE TooLong(p, WriteBufSize)
  BY <1>2, Bounds DEF Serialized
<1>3. CASE ~TooLong(p, WriteBufSize) /\ p \in { Ack, Zero }
  <2>1. n <= 2 /\ p.type \in { "PUBACK", "PINGREQ" }
    BY <1>3, FixedAddUp
  <2>2. ~(WriteBufSize < 4)
    BY <1>3, <2>1 DEF TooLong
  <2>3. Len(WriteLen[n]) = 1
    BY <1>1, <2>1, LengthBytes
  <2>4. PacketSize(n) <= 4
    BY <1>1, <2>1, <2>3 DEF PacketSize
  <2>5. PacketSize(n) \in Nat
    BY <1>1, PacketSizeType
  <2> QED
    BY <1>1, <1>3, <2>2, <2>4, <2>5, Bounds DEF Serialized
<1>4. CASE ~TooLong(p, WriteBufSize) /\ p \notin { Ack, Zero }
  <2>1. p.type \notin { "PUBACK", "PINGREQ" }
    BY <1>4 DEF IsPacket
  <2>2. ~(FinalPacketLength(n) > WriteBufSize)
    BY <1>4, <2>1 DEF TooLong
  <2>3. n < FourBytes
    <3>1. SUFFICES ASSUME ~(n < FourBytes) PROVE FALSE
      OBVIOUS
    <3>2. FinalPacketLength(n) = n + 5
      BY <1>1, <3>1 DEF FinalPacketLength, FourBytes
    <3>3. FourBytes \in Nat
      BY DEF FourBytes
    <3>4. WriteBufSize < n + 5
      BY <1>1, <3>1, <3>3, Bounds
    <3> QED
      BY <1>1, <2>2, <3>2, <3>4, Bounds
  <2>4. FinalPacketLength(n) \in { PacketSize(n), PacketSize(n) + 1 } /\ PacketSize(n) \in Nat
    BY <1>1, <2>3, FinalLength, PacketSizeType
  <2>5. PacketSize(n) <= WriteBufSize
    BY <2>2, <2>4, Bounds
  <2> QED
    BY <1>1, <1>4, <2>5 DEF Serialized
<1> QED
  BY <1>2, <1>3, <1>4

Filled == wr.length <= WriteBufSize

\* Only a serializer changes the length of what is in the write buffer.
LEMMA FilledKept ==
    ASSUME WriteBufSize < FourBytes, StreamInv, Filled, [Next]_vars
    PROVE  Filled'
<1>1. wr \in Writes
  BY DEF StreamInv, Types
<1>2. CASE wr' = wr \/ wr' = NotWriting
  BY <1>2, NotWritingType, Bounds DEF Filled
<1>3. CASE \E p \in OutPackets : Send(p)
  <2>1. PICK p \in OutPackets : Send(p)
    BY <1>3
  <2>2. wr'.length = Serialized(p)
    BY <2>1 DEF Send
  <2> QED
    BY <2>2, PacketsOut, SerializedFits DEF Filled
<1>4. CASE wr'.length = wr.length
  BY <1>4 DEF Filled
<1>5. ReadStep => wr' = wr \/ wr' = NotWriting
  <2>1. ReadPacket => wr' = NotWriting
    BY DEF ReadPacket
  <2>2. TlsRead => wr' = wr
    BY BytesSplit DEF TlsRead, writeVars
  <2>3. TlsReadExpires \/ TlsReadFails => wr' = wr
    BY DEF TlsReadExpires, TlsReadFails, writeVars
  <2> QED
    BY <2>1, <2>2, <2>3 DEF ReadStep
<1>6. (\E n \in InLengths : BrokerSends(n)) \/ Reconnect \/ UNCHANGED vars
         => wr' = wr \/ wr' = NotWriting
  BY DEF BrokerSends, Reconnect, vars, writeVars
<1>7. WriteStep => (\E p \in OutPackets : Send(p)) \/ wr'.length = wr.length
  <2>1. SendLoop => wr'.length = wr.length
    BY <1>1 DEF SendLoop, SendReturns, Writes
  <2>2. WriteFor \/ WriteTimesOut => wr'.length = wr.length
    BY <1>1 DEF WriteFor, WriteTimesOut, Writes
  <2>3. ASSUME NEW k, WriteBytes(k) PROVE wr'.length = wr.length
    BY <1>1, <2>3 DEF WriteBytes, Writes
  <2>4. WriteBusy \/ WriteFails => wr'.length = wr.length
    BY <1>1 DEF WriteBusy, WriteFails, SendReturns, Writes
  <2>5. WriteAdd => wr'.length = wr.length
    BY <1>1 DEF WriteAdd, Writes
  <2>6. WriteExit => wr'.length = wr.length
    BY <1>1 DEF WriteExit, SendReturns, Writes
  <2>7. TimerExpires => wr'.length = wr.length
    BY DEF TimerExpires
  <2> QED
    BY <2>1, <2>2, <2>3, <2>4, <2>5, <2>6, <2>7 DEF WriteStep
<1> QED
  BY <1>2, <1>3, <1>4, <1>5, <1>6, <1>7 DEF Next

\* With a buffer shorter than the longest packet of MQTT no serializer writes
\* beyond its end, also when send_packet refuses what it has written.  read_packet
\* stays in its own buffer while it drops a packet, and ends at most the bytes of
\* the remaining length behind it while it reads one.
THEOREM BuffersFit ==
    ASSUME WriteBufSize < FourBytes
    PROVE  Spec => []FitsBuffer
<1>1. Init => Filled
  BY Bounds, NotWritingType DEF Init, Fresh, Filled
<1>2. StreamInv /\ Filled /\ [Next]_vars => Filled'
  BY FilledKept
<1>3. StreamInv /\ Filled => FitsBuffer
  <2> SUFFICES ASSUME StreamInv, Filled PROVE FitsBuffer
    OBVIOUS
  <2>1. rd \in Reads /\ ReadInv
    BY DEF StreamInv, Types
  <2>2. rd.want \in Nat /\ rd.rx \in Nat /\ rd.rem \in Nat
    BY <2>1, ReadFields, Bounds
  <2>3. ASSUME rd.at = "drop" PROVE BufferEnd(rd) <= ReadBufSize
    <3>1. rd.rx + rd.want <= ReadBufSize
      BY <2>1, <2>3 DEF ReadInv, InPlace, AtDrop
    <3>2. BufferEnd(rd) = 0 + rd.rx + rd.want
      BY <2>3 DEF BufferEnd, ReadOffset
    <3> QED
      BY <2>2, <3>1, <3>2, Bounds
  <2>4. ASSUME rd.at = "body" PROVE BufferEnd(rd) <= ReadBufSize + Len(WriteLen[rd.rem])
    <3> DEFINE L == Len(WriteLen[rd.rem])
    <3>1. rd.rx + rd.want = rd.rem /\ rd.rem < ReadBufSize
      BY <2>1, <2>4 DEF ReadInv, InPlace, AtBody
    <3>2. BufferEnd(rd) = 1 + L + rd.rx + rd.want
      BY <2>4 DEF BufferEnd, ReadOffset
    <3>3. L \in Nat
      BY <2>2, WriteLenType
    <3> HIDE DEF L
    <3>4. BufferEnd(rd) <= ReadBufSize + L
      BY <2>2, <3>1, <3>2, <3>3, Bounds
    <3> QED
      BY <3>4 DEF L
  <2>5. wr.length <= WriteBufSize
    BY DEF Filled
  <2> QED
    BY <2>3, <2>4, <2>5 DEF FitsBuffer
<1> QED
  BY <1>1, <1>2, <1>3, StreamInvariant, PTL DEF Spec

\* Encoder and decoder of a length agree for every length a packet of MQTT may
\* have, the room that is asked for is enough, and what one client publishes
\* another takes apart at the same places.
THEOREM LengthsAlwaysAgree ==
    ASSUME \A n \in InLengths : n < FourBytes
    PROVE  Spec => []LengthsAgree
<1>1. StreamInv => LengthsAgree
  <2> SUFFICES ASSUME StreamInv PROVE LengthsAgree
    OBVIOUS
  <2>1. ASSUME NEW n \in Boundaries \cup Range(inbound)
        PROVE  n \in Nat /\ n < FourBytes
    <3>1. inbound \in Seq(InLengths)
      BY DEF StreamInv, Types
    <3>2. Range(inbound) \subseteq InLengths
      BY <3>1, RangeOf
    <3>3. \A b \in Boundaries : b \in Nat /\ b < FourBytes
      BY DEF Boundaries, FourBytes
    <3> QED
      BY <3>2, <3>3, Bounds
  <2>2. ASSUME NEW n \in Boundaries \cup Range(inbound)
        PROVE  /\ DecodeLen(WriteLen[n]) = n
               /\ Len(WriteLen[n]) = Min({ d \in 1..4 : n < 128^d \/ d = 4 })
               /\ FinalPacketLength(n) \in { PacketSize(n), PacketSize(n) + 1 }
    <3>1. n \in Nat /\ n < FourBytes
      BY <2>1
    <3>2. DecodeLen(WriteLen[n]) = n
      BY <3>1, DecodeEncoded
    <3>3. Len(WriteLen[n]) = Min({ d \in 1..4 : n < 128^d \/ d = 4 })
      BY <3>1, LeastPower
    <3>4. FinalPacketLength(n) \in { PacketSize(n), PacketSize(n) + 1 }
      BY <3>1, FinalLength
    <3> QED
      BY <3>2, <3>3, <3>4
  <2>3. \A p \in { q \in OutPackets : q.type = "PUBLISH" } :
          PayloadLen(RemainingLength(p), p.topics[1], p.qos) = p.payload
    BY PacketsOut, PayloadAgrees
  <2>4. \A n \in { b \in Boundaries : b < 65536 } : ReadUint16(WriteUint16(n)) = n
    <3>1. \A b \in Boundaries : b \in Nat
      BY DEF Boundaries
    <3> QED
      BY <3>1, Uint16Agrees
  <2> QED
    BY <2>2, <2>3, <2>4 DEF LengthsAgree
<1> QED
  BY <1>1, StreamInvariant, PTL

=============================================================================
