------------------------- MODULE MqttReceiver_proof -------------------------
(***************************************************************************)
(* Proofs about the receiver, for every set of well-formed packets, every  *)
(* caller and connections of any length.                                   *)
(*                                                                         *)
(* The inductive invariant says, for each state of poll(), which byte of   *)
(* which packet comes next and what has been learned of it.  One thing     *)
(* breaks it: an empty message read without a callback.  With a callback,  *)
(* or where no message is empty, the receiver never loses its place.       *)
(*                                                                         *)
(* So the messages the application is told of are the PUBLISH packets the  *)
(* broker wrote, each once and in order, and what is acknowledged is the   *)
(* message the application was told of last.                               *)
(***************************************************************************)
EXTENDS MqttReceiver, TLAPS

-----------------------------------------------------------------------------
(* Packets as bytes.                                                       *)

\* What a proof may use of bytes and words.
LEMMA Bounds ==
  /\ \A x : x \in Bytes <=> x \in Nat /\ x <= 255
  /\ \A x : x \in Words <=> x \in Nat /\ x < 256 * 256
  /\ Bytes \subseteq Words
<1>1. MaxByte \in Int /\ \A x \in Int : x <= MaxByte <=> x <= 255
  BY DEF MaxByte
<1>2. MaxWord \in Int /\ \A x \in Int : x <= MaxWord <=> x < 256 * 256
  BY DEF MaxWord
<1>3. \A x : x \in Bytes <=> x \in Nat /\ x <= MaxByte
  BY <1>1 DEF Bytes
<1>4. \A x : x \in Words <=> x \in Nat /\ x <= MaxWord
  BY <1>2 DEF Words
<1>5. \A x : x \in Bytes <=> x \in Nat /\ x <= 255
  BY <1>1, <1>3
<1>6. \A x : x \in Words <=> x \in Nat /\ x < 256 * 256
  BY <1>2, <1>4
<1> QED BY <1>5, <1>6

\* The fields of a packet.
LEMMA PacketFields ==
  ASSUME NEW p, WellFormed(p)
  PROVE  /\ p.type \in PacketTypes /\ p.qos \in 0..2 /\ p.pid \in Words
         /\ p.code \in Bytes /\ p.topic \in Nat /\ p.payload \in Nat
         /\ Rem(p) < Radix * Radix * Radix
         /\ p.type = PUBLISH => p.topic \in Words \ {0}
         /\ p.type # PUBLISH => p.qos = 0
<1>1. p \in Packet
  BY DEF WellFormed
<1>2. /\ p.type \in PacketTypes /\ p.qos \in 0..2 /\ p.pid \in Words
      /\ p.code \in Bytes /\ p.topic \in Nat /\ p.payload \in Nat
  BY <1>1 DEF Packet
<1> QED BY <1>2 DEF WellFormed

\* The parts of a packet's size.
LEMMA Sizes ==
  ASSUME NEW p, WellFormed(p)
  PROVE  /\ Rem(p) \in Nat /\ Rem(p) < Radix * Radix * Radix
         /\ LengthSize(p) \in 1..3
         /\ HeaderSize(p) = 1 + LengthSize(p)
         /\ Size(p) = HeaderSize(p) + Rem(p)
         /\ Size(p) \in Nat
         /\ p.type = PUBLISH =>
              Rem(p) = 2 + p.topic + (IF p.qos > 0 THEN 2 ELSE 0) + p.payload
         /\ p.type # PUBLISH => Rem(p) \in 0..3
<1>1. p.type = PUBLISH =>
        Rem(p) = 2 + p.topic + (IF p.qos > 0 THEN 2 ELSE 0) + p.payload
  BY DEF Rem, IdSize
<1>2. p.type # PUBLISH => Rem(p) \in 0..3
  BY DEF Rem
<1>3. Rem(p) \in Nat /\ Rem(p) < Radix * Radix * Radix
  <2>1. CASE p.type = PUBLISH
    BY PacketFields, <1>1, <2>1
  <2>2. CASE p.type # PUBLISH
    BY PacketFields, <1>2, <2>2
  <2> QED BY <2>1, <2>2
<1>4. LengthSize(p) \in 1..3
  BY DEF LengthSize
<1>5. Size(p) \in Nat
  BY <1>3, <1>4 DEF Size, HeaderSize
<1> QED BY <1>1, <1>2, <1>3, <1>4, <1>5 DEF Size, HeaderSize

\* The first byte is the type and the flags, in its two halves.
LEMMA FirstByte ==
  ASSUME NEW p, WellFormed(p)
  PROVE  /\ ByteAt(p, 1) \in Bytes
         /\ ByteAt(p, 1) \div 16 = p.type
         /\ ByteAt(p, 1) % 16 = Flags(p)
<1>1. p.type \in 2..13
  BY PacketFields DEF PacketTypes, CONNACK, PUBLISH, PUBACK, PUBREC, PUBREL, PUBCOMP,
     SUBACK, UNSUBACK, PINGRESP
<1>2. Flags(p) \in 0..4
  BY PacketFields DEF Flags
<1>3. ByteAt(p, 1) = 16 * p.type + Flags(p)
  BY DEF ByteAt
<1>4. \A t \in 2..13, f \in 0..4 :
        16 * t + f \in Bytes /\ (16 * t + f) \div 16 = t /\ (16 * t + f) % 16 = f
  BY Bounds
<1> QED BY <1>1, <1>2, <1>3, <1>4

\* The length bytes: all but the last have their highest bit set, and the sum
\* of their digits so far is the remaining length but for higher digits.
LEMMA LengthBytes ==
  ASSUME NEW p, WellFormed(p), NEW i \in 1..LengthSize(p)
  PROVE  LET b == ByteAt(p, i + 1) IN
         /\ b \in Bytes
         /\ b >= Radix <=> i < LengthSize(p)
         /\ i = 1 => b % Radix = Rem(p) % Radix
         /\ i = 2 => (Rem(p) % Radix) + (b % Radix) * Radix = Rem(p) % (Radix * Radix)
         /\ i = 3 => (Rem(p) % (Radix * Radix)) + (b % Radix) * (Radix * Radix) = Rem(p)
<1> DEFINE r == Rem(p)
<1>1. /\ r \in Nat /\ r < Radix * Radix * Radix /\ LengthSize(p) \in 1..3 /\ i \in 1..3
      /\ HeaderSize(p) = 1 + LengthSize(p)
  BY Sizes
<1>2. ByteAt(p, i + 1) = LengthByte(p, i)
  BY <1>1 DEF ByteAt
<1>3. /\ LengthSize(p) = 1 <=> r < 128
      /\ LengthSize(p) = 2 <=> 128 <= r /\ r < 128 * 128
      /\ LengthSize(p) = 3 <=> 128 * 128 <= r
  BY <1>1 DEF LengthSize, Radix
<1> HIDE DEF r
<1>4. CASE i = 1
  BY <1>1, <1>2, <1>3, <1>4, Bounds DEF LengthByte, Radix, r
<1>5. CASE i = 2
  <2> DEFINE d == (r \div 128) % 128
  <2>1. LengthByte(p, i) = IF 2 < LengthSize(p) THEN d + 128 ELSE r \div 128
    <3>1. LengthByte(p, i) = IF 2 < LengthSize(p) THEN d + 128 ELSE d
      BY <1>5 DEF LengthByte, Radix, r
    <3>2. LengthSize(p) = 2 => d = r \div 128
      BY <1>1, <1>3
    <3> QED BY <1>1, <1>5, <3>1, <3>2
  <2>2. /\ d \in 0..127
        /\ (d + 128) % 128 = d
        /\ (r % 128) + d * 128 = r % (128 * 128)
    BY <1>1
  <2>3. LengthSize(p) = 2 => d = r \div 128
    BY <1>1, <1>3
  <2> HIDE DEF d
  <2>4. LengthByte(p, i) = IF 2 < LengthSize(p) THEN d + 128 ELSE d
    BY <1>1, <1>5, <2>1, <2>3
  <2>5. LengthByte(p, i) % 128 = d
    BY <2>2, <2>4
  <2>6. LengthByte(p, i) \in Bytes
    BY <2>2, <2>4, Bounds
  <2>7. LengthByte(p, i) >= 128 <=> i < LengthSize(p)
    BY <1>1, <1>5, <2>2, <2>4
  <2> QED BY <1>2, <1>5, <2>2, <2>5, <2>6, <2>7 DEF Radix, r
<1>6. CASE i = 3
  <2>1. LengthByte(p, i) = r \div (128 * 128)
    BY <1>1, <1>3, <1>6 DEF LengthByte, Radix, r
  <2>2. /\ r \div (128 * 128) \in 0..127
        /\ (r % (128 * 128)) + (r \div (128 * 128)) * (128 * 128) = r
    BY <1>1 DEF Radix
  <2>3. LengthByte(p, i) \in Bytes /\ LengthByte(p, i) % 128 = LengthByte(p, i)
    BY <2>1, <2>2, Bounds
  <2>4. LengthByte(p, i) \in 0..127 /\ ~(i < LengthSize(p))
    BY <1>1, <1>6, <2>1, <2>2
  <2>5. (r % (128 * 128)) + (LengthByte(p, i) % 128) * (128 * 128) = r
    BY <2>1, <2>2, <2>3
  <2> QED BY <1>2, <1>6, <2>3, <2>4, <2>5 DEF Radix, r
<1> QED BY <1>1, <1>4, <1>5, <1>6

\* With the last length byte the sum is the remaining length.
LEMMA LastLengthByte ==
  ASSUME NEW p, WellFormed(p)
  PROVE  /\ LengthSize(p) = 1 => Rem(p) % Radix = Rem(p)
         /\ LengthSize(p) = 2 => Rem(p) % (Radix * Radix) = Rem(p)
<1>1. Rem(p) \in Nat
  BY Sizes
<1> QED BY <1>1 DEF LengthSize, Radix

\* A word of two bytes.
LEMMA WordBytes ==
  ASSUME NEW n \in Words
  PROVE  High(n) \in Bytes /\ Low(n) \in Bytes /\ 256 * High(n) + Low(n) = n
BY Bounds DEF High, Low

\* The topic length and the packet identifier of a PUBLISH, where they stand.
LEMMA PublishBytes ==
  ASSUME NEW p, WellFormed(p), p.type = PUBLISH
  PROVE  /\ ByteAt(p, HeaderSize(p) + 1) = High(p.topic)
         /\ ByteAt(p, HeaderSize(p) + 2) = Low(p.topic)
         /\ p.qos > 0 => /\ ByteAt(p, HeaderSize(p) + 3 + p.topic) = High(p.pid)
                         /\ ByteAt(p, HeaderSize(p) + 4 + p.topic) = Low(p.pid)
<1>1. HeaderSize(p) \in 2..4 /\ p.topic \in Nat /\ p.topic > 0
  <2>1. HeaderSize(p) \in 2..4
    BY Sizes
  <2>2. p.topic \in Nat /\ p.topic # 0
    BY PacketFields DEF Words
  <2> QED BY <2>1, <2>2
<1>2. \A j \in Nat \ {0} : ByteAt(p, HeaderSize(p) + j) = PublishByte(p, j)
  <2> TAKE j \in Nat \ {0}
  <2>1. /\ HeaderSize(p) + j # 1 /\ ~(HeaderSize(p) + j <= HeaderSize(p))
        /\ (HeaderSize(p) + j) - HeaderSize(p) = j
    BY <1>1
  <2> QED BY <2>1 DEF ByteAt
<1>3. /\ PublishByte(p, 1) = High(p.topic) /\ PublishByte(p, 2) = Low(p.topic)
      /\ p.qos > 0 => /\ PublishByte(p, 3 + p.topic) = High(p.pid)
                      /\ PublishByte(p, 4 + p.topic) = Low(p.pid)
  BY <1>1 DEF PublishByte
<1>4. /\ HeaderSize(p) + 3 + p.topic = HeaderSize(p) + (3 + p.topic)
      /\ HeaderSize(p) + 4 + p.topic = HeaderSize(p) + (4 + p.topic)
      /\ 3 + p.topic \in Nat \ {0} /\ 4 + p.topic \in Nat \ {0}
  BY <1>1
<1> QED BY <1>2, <1>3, <1>4

\* Every byte is a byte.
LEMMA ByteRange ==
  ASSUME NEW p, WellFormed(p), NEW k \in Nat \ {0}
  PROVE  ByteAt(p, k) \in Bytes
<1>1. HeaderSize(p) = 1 + LengthSize(p) /\ LengthSize(p) \in 1..3
  BY Sizes
<1>2. CASE k = 1
  BY <1>2, FirstByte
<1>3. CASE k > 1 /\ k <= HeaderSize(p)
  <2>1. k - 1 \in 1..LengthSize(p) /\ (k - 1) + 1 = k
    BY <1>1, <1>3
  <2> QED BY <2>1, LengthBytes
<1>4. CASE k > HeaderSize(p)
  <2>1. /\ p.pid \in Words /\ p.code \in Bytes
        /\ p.type = PUBLISH => p.topic \in Words
    BY DEF WellFormed, Packet
  <2>2. CASE p.type = PUBLISH
    <3>1. /\ High(p.topic) \in Bytes /\ Low(p.topic) \in Bytes
          /\ High(p.pid) \in Bytes /\ Low(p.pid) \in Bytes
      BY <2>1, <2>2, WordBytes
    <3>2. Data \in Bytes
      BY Bounds DEF Data
    <3>3. \A j : PublishByte(p, j) \in Bytes
      BY <3>1, <3>2 DEF PublishByte
    <3> QED BY <1>1, <1>4, <2>2, <3>3 DEF ByteAt
  <2>3. CASE p.type # PUBLISH
    <3>1. High(p.pid) \in Bytes /\ Low(p.pid) \in Bytes /\ 0 \in Bytes
      BY <2>1, WordBytes, Bounds
    <3>2. \A j : AckByte(p, j) \in Bytes
      BY <2>1, <3>1 DEF AckByte
    <3> QED BY <1>1, <1>4, <2>3, <3>2 DEF ByteAt
  <2> QED BY <2>2, <2>3
<1> QED BY <1>1, <1>2, <1>3, <1>4

-----------------------------------------------------------------------------
(* The bytes and what is written.                                          *)

\* What poll() and read() take is a byte of a packet the broker wrote.
LEMMA ByteFacts ==
  ASSUME TypeOK, HasByte
  PROVE  /\ Cur \in Packets /\ WellFormed(Cur)
         /\ Byte \in Bytes
         /\ taken + 1 \in 1..Len(sent)
<1>1. taken + 1 \in 1..Len(sent)
  BY DEF TypeOK, HasByte
<1>2. Cur \in Packets
  BY <1>1 DEF TypeOK, Cur
<1>3. WellFormed(Cur)
  BY <1>2, PacketsAssumption
<1>4. off + 1 \in Nat \ {0}
  BY DEF TypeOK
<1> QED BY <1>1, <1>2, <1>3, <1>4, ByteRange DEF Byte

\* Reading a byte keeps the types of the connection.
LEMMA AdvanceType ==
  ASSUME TypeOK, HasByte, Advance
  PROVE  link' = link /\ sent' = sent /\ taken' \in 0..Len(sent) /\ off' \in Nat
BY ByteFacts DEF Advance, TypeOK

\* What the client writes is a packet of the client.
LEMMA WriteType ==
  ASSUME NEW q \in Seq(ClientPacket), NEW type \in ClientTypes, NEW pid \in Words
  PROVE  /\ Write(q, type, pid) \in Seq(ClientPacket)
         /\ \A qos \in 0..2 : WriteQos(q, type, qos, pid) \in Seq(ClientPacket)
<1>1. \A qos \in 0..2 : [type |-> type, qos |-> qos, pid |-> pid] \in ClientPacket
  BY DEF ClientPacket
<1> QED BY <1>1 DEF Write, WriteQos

\* Two bytes make a word.
LEMMA WordType ==
  ASSUME NEW b \in Bytes, NEW c \in Bytes
  PROVE  256 * b + c \in Words
BY Bounds

\* What the length field has said so far is a number.
LEMMA LengthType ==
  ASSUME TypeOK, HasByte
  PROVE  LengthSoFar \in Nat /\ rxMult * Radix \in Nat
<1>1. Byte \in Nat
  BY ByteFacts, Bounds
<1>2. Byte % 128 \in Nat
  BY <1>1
<1>3. rxMult \in Nat /\ rxLength \in Nat
  BY DEF TypeOK
<1>4. \A m, n \in Nat : m * n \in Nat
  OBVIOUS
<1> QED BY <1>2, <1>3, <1>4 DEF LengthSoFar, Radix

\* Subtraction in size_t.
LEMMA RemainderType ==
  ASSUME NEW n \in Nat
  PROVE  (n - 2) % SizeT \in Nat
<1>1. SizeT \in Nat \ {0}
  BY DEF SizeT
<1> QED BY <1>1

\* What each type constant is, and that 0 is a word.
LEMMA ClientTypeFacts ==
  /\ {PUBACK, PUBREC, PUBCOMP, PINGREQ, DISCONNECT} \subseteq ClientTypes
  /\ Requests \subseteq ClientTypes
  /\ 0 \in Words
  /\ 0..MaxPacketId \subseteq Words
  /\ MaxPacketId \in Nat \ {0}
<1>1. MaxPacketId \in Nat \ {0} /\ 0..MaxPacketId \subseteq Words /\ 0 \in Words
  BY MaxPacketIdAssumption, Bounds
<1>2. {PUBACK, PUBREC, PUBCOMP, PINGREQ, DISCONNECT} \subseteq ClientTypes
  BY DEF ClientTypes
<1>3. Requests \subseteq ClientTypes
  BY RequestsAssumption, Zenon DEF ClientTypes
<1> QED BY <1>1, <1>2, <1>3

\* stop() keeps the types and closes the connection.
LEMMA StopType ==
  ASSUME TypeOK, Stop
  PROVE  out' \in Seq(ClientPacket) /\ link' = FALSE /\ connected' = FALSE
BY WriteType, ClientTypeFacts DEF Stop, TypeOK

\* An acknowledgement keeps the types.
LEMMA AckType ==
  ASSUME TypeOK, AckRxMessage
  PROVE  out' \in Seq(ClientPacket) /\ acks' \in Nat
<1>1. out \in Seq(ClientPacket) /\ rxPid \in Words /\ acks \in Nat
  BY DEF TypeOK
<1>2. /\ Write(out, PUBACK, rxPid) \in Seq(ClientPacket)
      /\ Write(out, PUBREC, rxPid) \in Seq(ClientPacket)
  BY <1>1, WriteType, ClientTypeFacts
<1> QED BY <1>1, <1>2 DEF AckRxMessage

-----------------------------------------------------------------------------
(* Types.                                                                  *)

\* TypeOK in parts: the connection, the header being read, the PUBLISH being
\* read, the requests, and the history.
NetTypes ==
  link \in BOOLEAN /\ sent \in Seq(Packets) /\ taken \in 0..Len(sent) /\ off \in Nat
HdrTypes ==
  /\ rxState \in RxStates /\ rxType \in 0..15 /\ rxFlags \in 0..15
  /\ rxLength \in Nat /\ rxMult \in Nat /\ rxIndex \in 0..3
  /\ rxBuf \in [0..2 -> Bytes]
PubTypes ==
  topicLen \in Words /\ topicGot \in Nat /\ rxQos \in 0..3 /\ rxPid \in Words
ReqTypes ==
  /\ out \in Seq(ClientPacket) /\ pc \in {"out", "poll", "callback", "tail"}
  /\ connected \in BOOLEAN
  /\ returnCode \in Bytes \cup {-1} /\ txPid \in 0..MaxPacketId /\ txStream \in BOOLEAN
HisTypes == delivered \in Seq(Message) /\ acks \in Nat

Types == NetTypes /\ HdrTypes /\ PubTypes /\ ReqTypes /\ HisTypes

\* The parts are TypeOK.
LEMMA TypeParts == TypeOK <=> Types
BY Zenon DEF TypeOK, Types, NetTypes, HdrTypes, PubTypes, ReqTypes, HisTypes

\* What the fields of the receiver may be in each of its states, whatever the
\* bytes it has read.
StateFields ==
  /\ rxState = "READ_VARIABLE_HEADER" => rxLength \in {2, 3} /\ rxIndex < rxLength
  /\ rxState = "READ_PUBLISH_TOPIC_LENGTH" => rxIndex \in 0..1
  /\ rxState = "READ_PUBLISH_TOPIC" =>
       rxIndex = 0 /\ rxLength >= topicLen + (IF rxQos > 0 THEN 2 ELSE 0)
  /\ rxState = "READ_PUBLISH_PACKET_ID" => rxIndex \in 0..1 /\ rxLength >= 2

TypeInv == Types /\ (link => StateFields)

\* The inductive invariant: every step keeps the types and, while the
\* connection is up, StateFields.
LEMMA TypeStep == TypeInv /\ [Next]_vars => TypeInv'
<1> SUFFICES ASSUME TypeInv, [Next]_vars PROVE TypeInv'
  OBVIOUS
<1>0. TypeOK /\ NetTypes /\ HdrTypes /\ PubTypes /\ ReqTypes /\ HisTypes
  BY TypeParts DEF TypeInv, Types
<1>00. link => StateFields
  BY DEF TypeInv
<1> USE DEF netVars, hdrVars, pubVars, rxVars, reqVars, hisVars
<1>1. CASE \E discard \in BOOLEAN : PollBegins(discard)
  <2>1. NetTypes' /\ HisTypes'
    BY <1>0, <1>1 DEF PollBegins, NetTypes, HisTypes
  <2>4. ReqTypes' /\ PubTypes'
    BY <1>0, <1>1 DEF PollBegins, ReqTypes, PubTypes
  <2>2. HdrTypes'
    BY <1>0, <1>1 DEF PollBegins, HdrTypes, RxStates
  <2>3. (link => StateFields)'
    BY <1>00, <1>1 DEF PollBegins, StateFields
  <2> QED BY <2>1, <2>2, <2>3, <2>4 DEF TypeInv, Types
<1>2. CASE RxType
  <2>1. HasByte /\ Advance
    BY <1>2 DEF RxType, InPoll
  <2>2. Byte \in Nat /\ Byte <= 255
    BY <1>0, <2>1, ByteFacts, Bounds
  <2>3. Byte \div 16 \in 0..15 /\ Byte % 16 \in 0..15
    BY <2>2
  <2>4. NetTypes' /\ HisTypes' /\ ReqTypes' /\ PubTypes'
    BY <1>0, <1>2, <2>1, AdvanceType DEF RxType, NetTypes, HisTypes, ReqTypes, PubTypes
  <2>5. HdrTypes'
    BY <1>0, <1>2, <2>3 DEF RxType, HdrTypes, RxStates
  <2>6. StateFields'
    BY <1>2 DEF RxType, StateFields
  <2> QED BY <2>4, <2>5, <2>6 DEF TypeInv, Types
<1>3. CASE RxLengthByte
  <2>1. HasByte /\ Advance
    BY <1>3 DEF RxLengthByte, InPoll
  <2>2. LengthSoFar \in Nat /\ rxMult * Radix \in Nat
    BY <1>0, <2>1, LengthType
  <2>3. /\ rxLength' = LengthSoFar /\ rxMult' = rxMult * Radix
        /\ rxState = "READ_REMAINING_LENGTH"
        /\ rxState' \in {rxState, "READ_TYPE"} \/ rxIndex' = 0
        /\ rxState' \in RxStates
        /\ rxState' \notin {"READ_PUBLISH_TOPIC", "READ_PUBLISH_PACKET_ID"}
        /\ rxIndex' \in {rxIndex, 0}
    BY <1>3 DEF RxLengthByte, InPoll, RxStates
  <2>4. rxQos' \in 0..3
    BY <1>0, <1>3 DEF RxLengthByte, PubTypes, HdrTypes
  <2>5. rxState' = "READ_VARIABLE_HEADER" => rxLength' \in {2, 3}
    BY <1>3, <2>2, <2>3 DEF RxLengthByte, Malformed
  <2>6. NetTypes' /\ HisTypes' /\ ReqTypes'
    BY <1>0, <1>3, <2>1, AdvanceType DEF RxLengthByte, NetTypes, HisTypes, ReqTypes
  <2>7. PubTypes'
    BY <1>0, <1>3, <2>4 DEF RxLengthByte, PubTypes
  <2>8. HdrTypes'
    BY <1>0, <1>3, <2>2, <2>3 DEF RxLengthByte, HdrTypes
  <2>9. StateFields'
    BY <2>3, <2>5 DEF StateFields
  <2> QED BY <2>6, <2>7, <2>8, <2>9 DEF TypeInv, Types
<1>4. CASE RxMalformed
  <2>1. HasByte
    BY <1>4 DEF RxMalformed
  <2>2. LengthSoFar \in Nat /\ rxMult * Radix \in Nat
    BY <1>0, <2>1, LengthType
  <2>3. out' \in Seq(ClientPacket) /\ link' = FALSE /\ connected' = FALSE
    BY <1>0, <1>4, StopType DEF RxMalformed
  <2>4. NetTypes' /\ HisTypes' /\ PubTypes'
    <3>1. NetTypes'
      <4>1. sent' = sent /\ taken' = taken /\ off' = off + 1
        BY <1>4 DEF RxMalformed
      <4>2. link' \in BOOLEAN
        BY <2>3
      <4>3. sent \in Seq(Packets) /\ taken \in 0..Len(sent) /\ off + 1 \in Nat
        BY <1>0 DEF NetTypes
      <4> QED BY <4>1, <4>2, <4>3 DEF NetTypes
    <3>2. HisTypes' /\ PubTypes'
      BY <1>0, <1>4 DEF RxMalformed, HisTypes, PubTypes
    <3> QED BY <3>1, <3>2
  <2>5. ReqTypes'
    BY <1>0, <1>4, <2>3 DEF RxMalformed, ReqTypes
  <2>6. HdrTypes'
    BY <1>0, <1>4, <2>2 DEF RxMalformed, HdrTypes
  <2> QED BY <2>3, <2>4, <2>5, <2>6 DEF TypeInv, Types
<1>5. CASE RxVariableHeader
  <2>1. HasByte /\ Advance /\ link /\ rxState = "READ_VARIABLE_HEADER"
    BY <1>5 DEF RxVariableHeader, InPoll, HasByte
  <2>2. Byte \in Bytes
    BY <1>0, <2>1, ByteFacts
  <2>3. rxLength \in {2, 3} /\ rxIndex < rxLength /\ rxIndex \in 0..2
    BY <1>0, <1>00, <2>1 DEF StateFields, HdrTypes
  <2>4. rxBuf' \in [0..2 -> Bytes]
    BY <1>0, <1>5, <2>2, <2>3 DEF RxVariableHeader, HdrTypes
  <2>5. Word(rxBuf') \in Words
    BY <2>4, WordType DEF Word
  <2>6. /\ rxIndex' = rxIndex + 1 /\ rxLength' = rxLength
        /\ rxState' = "READ_TYPE" \/ (rxState' = rxState /\ rxIndex + 1 < rxLength)
    <3>1. CASE rxIndex + 1 < rxLength
      BY <1>5, <3>1 DEF RxVariableHeader
    <3>2. CASE ~(rxIndex + 1 < rxLength)
      BY <1>5, <3>2 DEF RxVariableHeader
    <3> QED BY <3>1, <3>2
  <2>7. out' \in Seq(ClientPacket)
    <3>1. out \in Seq(ClientPacket)
      BY <1>0 DEF ReqTypes
    <3>2. Write(out, PUBCOMP, Word(rxBuf')) \in Seq(ClientPacket)
      BY <2>5, <3>1, WriteType, ClientTypeFacts
    <3> QED BY <1>5, <3>1, <3>2 DEF RxVariableHeader
  <2>8. returnCode' \in Bytes \cup {-1}
    <3>1. returnCode' \in {returnCode, rxBuf'[1], rxBuf'[2], 0}
      BY <1>5 DEF RxVariableHeader
    <3>2. rxBuf'[1] \in Bytes /\ rxBuf'[2] \in Bytes /\ 0 \in Bytes
      BY <2>4, Bounds
    <3>3. returnCode \in Bytes \cup {-1}
      BY <1>0 DEF ReqTypes
    <3> QED BY <3>1, <3>2, <3>3
  <2>9. NetTypes' /\ HisTypes' /\ PubTypes'
    BY <1>0, <1>5, <2>1, AdvanceType DEF RxVariableHeader, NetTypes, HisTypes, PubTypes
  <2>10. ReqTypes'
    BY <1>0, <1>5, <2>7, <2>8 DEF RxVariableHeader, ReqTypes
  <2>11. HdrTypes'
    BY <1>0, <1>5, <2>3, <2>4, <2>6 DEF RxVariableHeader, HdrTypes, RxStates
  <2>12. StateFields'
    BY <2>1, <2>3, <2>6 DEF StateFields
  <2> QED BY <2>9, <2>10, <2>11, <2>12 DEF TypeInv, Types
<1>6. CASE RxTopicLength
  <2>1. HasByte /\ Advance /\ link /\ rxState = "READ_PUBLISH_TOPIC_LENGTH"
    BY <1>6 DEF RxTopicLength, InPoll, HasByte
  <2>2. Byte \in Bytes
    BY <1>0, <2>1, ByteFacts
  <2>3. rxIndex \in 0..1
    BY <1>0, <1>00, <2>1 DEF StateFields
  <2>4. rxBuf' \in [0..2 -> Bytes]
    BY <1>0, <1>6, <2>2, <2>3 DEF RxTopicLength, HdrTypes
  <2>5. Word(rxBuf') \in Words
    BY <2>4, WordType DEF Word
  <2>6. NetTypes' /\ HisTypes' /\ ReqTypes'
    BY <1>0, <1>6, <2>1, AdvanceType DEF RxTopicLength, NetTypes, HisTypes, ReqTypes
  <2>7. PubTypes' /\ HdrTypes' /\ StateFields'
    <3>1. CASE rxIndex = 0
      <4>1. rxIndex' = 1 /\ rxState' = rxState /\ UNCHANGED <<rxLength, topicLen, topicGot>>
        BY <1>6, <3>1 DEF RxTopicLength
      <4>2. StateFields'
        BY <2>1, <4>1 DEF StateFields
      <4> QED BY <1>0, <1>6, <2>4, <4>1, <4>2 DEF RxTopicLength, PubTypes, HdrTypes
    <3>2. CASE rxIndex # 0
      <4>1. /\ topicLen' = Word(rxBuf') /\ rxLength' = (rxLength - 2) % SizeT
            /\ topicGot' = 0 /\ rxIndex' = 0 /\ rxState' = "READ_PUBLISH_TOPIC"
            /\ ~(rxLength' < topicLen' + (IF rxQos > 0 THEN 2 ELSE 0))
        BY <1>6, <3>2 DEF RxTopicLength, TopicTooLong
      <4>2. rxLength' \in Nat
        BY <1>0, <4>1, RemainderType DEF HdrTypes
      <4>3. PubTypes'
        BY <1>0, <1>6, <2>5, <4>1 DEF RxTopicLength, PubTypes
      <4>4. HdrTypes'
        BY <1>0, <1>6, <2>4, <4>1, <4>2 DEF RxTopicLength, HdrTypes, RxStates
      <4>5. topicLen' \in Nat
        BY <2>5, <4>1, Bounds
      <4>6. rxQos' = rxQos
        BY <1>6 DEF RxTopicLength
      <4>7. rxLength' >= topicLen' + (IF rxQos' > 0 THEN 2 ELSE 0)
        BY <4>1, <4>2, <4>5, <4>6
      <4>8. StateFields'
        BY <4>1, <4>7 DEF StateFields
      <4> QED BY <4>3, <4>4, <4>8
    <3> QED BY <3>1, <3>2
  <2> QED BY <2>6, <2>7 DEF TypeInv, Types
<1>7. CASE RxBadTopic
  <2>1. HasByte
    BY <1>7 DEF RxBadTopic
  <2>2. Byte \in Bytes
    BY <1>0, <2>1, ByteFacts
  <2>3. rxBuf' \in [0..2 -> Bytes]
    BY <1>0, <1>7, <2>2 DEF RxBadTopic, HdrTypes
  <2>4. Word(rxBuf') \in Words
    BY <2>3, WordType DEF Word
  <2>5. rxLength' \in Nat
    BY <1>0, <1>7, RemainderType DEF RxBadTopic, HdrTypes
  <2>6. out' \in Seq(ClientPacket) /\ link' = FALSE /\ connected' = FALSE
    BY <1>0, <1>7, StopType DEF RxBadTopic
  <2>7. NetTypes' /\ HisTypes' /\ PubTypes'
    <3>1. NetTypes'
      <4>1. sent' = sent /\ taken' = taken /\ off' = off + 1
        BY <1>7 DEF RxBadTopic
      <4>2. link' \in BOOLEAN
        BY <2>6
      <4>3. sent \in Seq(Packets) /\ taken \in 0..Len(sent) /\ off + 1 \in Nat
        BY <1>0 DEF NetTypes
      <4> QED BY <4>1, <4>2, <4>3 DEF NetTypes
    <3>2. HisTypes' /\ PubTypes'
      BY <1>0, <1>7, <2>4 DEF RxBadTopic, HisTypes, PubTypes
    <3> QED BY <3>1, <3>2
  <2>8. ReqTypes'
    BY <1>0, <1>7, <2>6 DEF RxBadTopic, ReqTypes
  <2>9. HdrTypes'
    BY <1>0, <1>7, <2>3, <2>5 DEF RxBadTopic, HdrTypes
  <2> QED BY <2>6, <2>7, <2>8, <2>9 DEF TypeInv, Types
<1>8. CASE RxTopic
  <2>1. HasByte /\ Advance /\ link /\ rxState = "READ_PUBLISH_TOPIC"
    BY <1>8 DEF RxTopic, InPoll, HasByte
  <2>2. /\ rxIndex = 0 /\ rxLength >= topicLen + (IF rxQos > 0 THEN 2 ELSE 0)
        /\ rxLength \in Nat /\ topicLen \in Nat /\ topicGot \in Nat /\ taken + 1 \in Nat
    BY <1>0, <1>00, <2>1, Bounds DEF StateFields, HdrTypes, PubTypes, NetTypes
  <2>3. topicGot' = topicGot + 1 /\ UNCHANGED <<rxIndex, rxQos, topicLen>>
    BY <1>8 DEF RxTopic
  <2>4. NetTypes' /\ PubTypes'
    BY <1>0, <1>8, <2>1, <2>2, <2>3, AdvanceType DEF RxTopic, NetTypes, PubTypes
  <2>5. CASE ~TopicComplete(topicGot + 1)
    <3>1. UNCHANGED <<rxState, rxLength, pc, delivered, acks>>
      BY <1>8, <2>5 DEF RxTopic
    <3>2. HisTypes' /\ ReqTypes'
      BY <1>0, <1>8, <3>1 DEF RxTopic, HisTypes, ReqTypes
    <3>3. HdrTypes'
      BY <1>0, <1>8, <2>3, <3>1 DEF RxTopic, HdrTypes
    <3>4. StateFields'
      BY <2>1, <2>2, <2>3, <3>1 DEF StateFields
    <3> QED BY <2>4, <3>2, <3>3, <3>4 DEF TypeInv, Types
  <2>6. CASE TopicComplete(topicGot + 1)
    <3>1. rxLength' = rxLength - topicLen
      BY <1>8, <2>6 DEF RxTopic
    <3>2. rxLength' \in Nat /\ (rxQos > 0 => rxLength' >= 2)
      BY <1>0, <2>2, <3>1 DEF PubTypes
    <3>3. CASE rxQos > 0
      <4>1. rxState' = "READ_PUBLISH_PACKET_ID" /\ UNCHANGED <<pc, delivered, acks>>
        BY <1>8, <2>6, <3>3 DEF RxTopic
      <4>2. HisTypes' /\ ReqTypes'
        BY <1>0, <1>8, <4>1 DEF RxTopic, HisTypes, ReqTypes
      <4>3. HdrTypes'
        BY <1>0, <1>8, <2>3, <3>2, <4>1 DEF RxTopic, HdrTypes, RxStates
      <4>4. StateFields'
        BY <2>2, <2>3, <3>2, <3>3, <4>1 DEF StateFields
      <4> QED BY <2>4, <4>2, <4>3, <4>4 DEF TypeInv, Types
    <3>4. CASE ~(rxQos > 0)
      <4>1. /\ rxState' = "READ_PUBLISH_PAYLOAD" /\ acks' = 0 /\ pc' \in {"callback", "tail"}
            /\ delivered' = Append(delivered, [at |-> taken + 1, qos |-> 0, pid |-> 0,
                                               topic |-> topicGot', payload |-> rxLength'])
        BY <1>8, <2>6, <3>4 DEF RxTopic, Announce
      <4>2. topicGot' \in Nat /\ 0 \in Words
        BY <2>2, <2>3, ClientTypeFacts
      <4>3. [at |-> taken + 1, qos |-> 0, pid |-> 0, topic |-> topicGot',
             payload |-> rxLength'] \in Message
        BY <2>2, <3>2, <4>2 DEF Message
      <4>4. HisTypes'
        BY <1>0, <4>1, <4>3 DEF HisTypes
      <4>5. ReqTypes'
        BY <1>0, <1>8, <4>1 DEF RxTopic, ReqTypes
      <4>6. HdrTypes'
        BY <1>0, <1>8, <2>3, <3>2, <4>1 DEF RxTopic, HdrTypes, RxStates
      <4>7. StateFields'
        BY <4>1 DEF StateFields
      <4> QED BY <2>4, <4>4, <4>5, <4>6, <4>7 DEF TypeInv, Types
    <3> QED BY <3>3, <3>4
  <2> QED BY <2>5, <2>6
<1>9. CASE RxPacketId
  <2>1. HasByte /\ Advance /\ link /\ rxState = "READ_PUBLISH_PACKET_ID"
    BY <1>9 DEF RxPacketId, InPoll, HasByte
  <2>2. Byte \in Bytes
    BY <1>0, <2>1, ByteFacts
  <2>3. rxIndex \in 0..1 /\ rxLength >= 2 /\ rxLength \in Nat /\ taken + 1 \in Nat
    BY <1>0, <1>00, <2>1 DEF StateFields, HdrTypes, NetTypes
  <2>4. rxBuf' \in [0..2 -> Bytes]
    BY <1>0, <1>9, <2>2, <2>3 DEF RxPacketId, HdrTypes
  <2>5. rxIndex' = rxIndex + 1
    BY <1>9 DEF RxPacketId
  <2>6. Word(rxBuf') \in Words
    BY <2>4, WordType DEF Word
  <2>7. NetTypes'
    BY <1>0, <1>9, <2>1, AdvanceType DEF RxPacketId, NetTypes
  <2>8. CASE rxIndex = 0
    <3>1. UNCHANGED <<out, rxState, rxLength, rxPid, pc, delivered, acks>>
      BY <1>9, <2>8 DEF RxPacketId
    <3>2. HisTypes' /\ ReqTypes' /\ PubTypes'
      BY <1>0, <1>9, <3>1 DEF RxPacketId, HisTypes, ReqTypes, PubTypes
    <3>3. HdrTypes'
      BY <1>0, <1>9, <2>4, <2>5, <2>8, <3>1 DEF RxPacketId, HdrTypes
    <3>4. StateFields'
      BY <2>1, <2>3, <2>5, <2>8, <3>1 DEF StateFields
    <3> QED BY <2>7, <3>2, <3>3, <3>4 DEF TypeInv, Types
  <2>9. CASE rxIndex # 0
    <3>1. /\ rxLength' = rxLength - 2 /\ rxPid' = Word(rxBuf')
          /\ rxState' = "READ_PUBLISH_PAYLOAD"
          /\ delivered' = Append(delivered, [at |-> taken + 1, qos |-> rxQos, pid |-> rxPid',
                                             topic |-> topicGot, payload |-> rxLength'])
      BY <1>9, <2>9 DEF RxPacketId, Announce
    <3>2. rxLength' \in Nat /\ rxPid' \in Words
      BY <2>3, <2>6, <3>1
    <3>3. pc' \in {"callback", "tail"} /\ acks' \in Nat /\ out' \in Seq(ClientPacket)
      <4>1. out \in Seq(ClientPacket)
        BY <1>0 DEF ReqTypes
      <4>2. /\ Write(out, PUBACK, rxPid') \in Seq(ClientPacket)
            /\ Write(out, PUBREC, rxPid') \in Seq(ClientPacket)
        BY <3>2, <4>1, WriteType, ClientTypeFacts
      <4> QED BY <1>9, <2>9, <4>1, <4>2 DEF RxPacketId
    <3>4. [at |-> taken + 1, qos |-> rxQos, pid |-> rxPid', topic |-> topicGot,
           payload |-> rxLength'] \in Message
      BY <1>0, <2>3, <3>2 DEF Message, PubTypes
    <3>5. HisTypes'
      BY <1>0, <3>1, <3>3, <3>4 DEF HisTypes
    <3>6. ReqTypes'
      BY <1>0, <1>9, <3>3 DEF RxPacketId, ReqTypes
    <3>7. PubTypes'
      BY <1>0, <1>9, <3>2 DEF RxPacketId, PubTypes
    <3>8. HdrTypes'
      BY <1>0, <1>9, <2>3, <2>4, <2>5, <3>1, <3>2 DEF RxPacketId, HdrTypes, RxStates
    <3>9. StateFields'
      BY <3>1 DEF StateFields
    <3> QED BY <2>7, <3>5, <3>6, <3>7, <3>8, <3>9 DEF TypeInv, Types
  <2> QED BY <2>8, <2>9
<1>10. CASE RxPayload
  <2>1. HasByte /\ Advance
    BY <1>10 DEF RxPayload, InPoll
  <2>2. rxLength' \in Nat /\ rxState' \in {"READ_TYPE", "DISCARD_PUBLISH_PAYLOAD"}
    BY <1>0, <1>10 DEF RxPayload, HdrTypes
  <2>3. NetTypes' /\ HisTypes'
    BY <1>0, <1>10, <2>1, AdvanceType DEF RxPayload, NetTypes, HisTypes
  <2>4. ReqTypes' /\ PubTypes'
    BY <1>0, <1>10 DEF RxPayload, ReqTypes, PubTypes
  <2>5. HdrTypes'
    BY <1>0, <1>10, <2>2 DEF RxPayload, HdrTypes, RxStates
  <2>6. StateFields'
    BY <2>2 DEF StateFields
  <2> QED BY <2>3, <2>4, <2>5, <2>6 DEF TypeInv, Types
<1>11. CASE PollEnds
  <2>1. NetTypes' /\ HisTypes' /\ ReqTypes'
    BY <1>0, <1>11 DEF PollEnds, NetTypes, HisTypes, ReqTypes
  <2>2. HdrTypes' /\ PubTypes' /\ (link => StateFields)'
    BY <1>0, <1>00, <1>11 DEF PollEnds, HdrTypes, PubTypes, StateFields
  <2> QED BY <2>1, <2>2 DEF TypeInv, Types
<1>12. CASE KeepAliveCheck
  <2>1. /\ out' \in Seq(ClientPacket) /\ link' \in BOOLEAN /\ connected' \in BOOLEAN
        /\ link' => link
    <3>1. CASE Stop
      BY <1>0, <3>1, StopType
    <3>2. CASE ~Stop
      <4>1. out \in Seq(ClientPacket) /\ link \in BOOLEAN /\ connected \in BOOLEAN
        BY <1>0 DEF ReqTypes, NetTypes
      <4>2. Write(out, PINGREQ, 0) \in Seq(ClientPacket)
        BY <4>1, WriteType, ClientTypeFacts
      <4> QED BY <1>12, <3>2, <4>1, <4>2 DEF KeepAliveCheck
    <3> QED BY <3>1, <3>2
  <2>2. /\ UNCHANGED <<sent, taken, off, rxVars, reqVars, hisVars>>
        /\ pc' = "out"
    BY <1>12 DEF KeepAliveCheck
  <2>3. NetTypes' /\ HisTypes' /\ ReqTypes'
    BY <1>0, <2>1, <2>2 DEF NetTypes, HisTypes, ReqTypes
  <2>4. HdrTypes' /\ PubTypes' /\ (link => StateFields)'
    BY <1>0, <1>00, <2>1, <2>2 DEF HdrTypes, PubTypes, StateFields
  <2> QED BY <2>3, <2>4 DEF TypeInv, Types
<1>13. CASE AppReads
  <2>1. HasByte /\ Advance
    BY <1>13 DEF AppReads
  <2>2. rxLength' \in Nat /\ rxState' \in {"READ_TYPE", "READ_PUBLISH_PAYLOAD"}
    BY <1>0, <1>13 DEF AppReads, HdrTypes
  <2>3. out' \in Seq(ClientPacket) /\ acks' \in Nat
    <3>1. CASE AckRxMessage
      BY <1>0, <3>1, AckType
    <3>2. CASE ~AckRxMessage
      BY <1>0, <1>13, <3>2 DEF AppReads, ReqTypes, HisTypes
    <3> QED BY <3>1, <3>2
  <2>4. NetTypes' /\ HisTypes'
    BY <1>0, <1>13, <2>1, <2>3, AdvanceType DEF AppReads, NetTypes, HisTypes
  <2>5. ReqTypes' /\ PubTypes'
    BY <1>0, <1>13, <2>3 DEF AppReads, ReqTypes, PubTypes
  <2>6. HdrTypes'
    BY <1>0, <1>13, <2>2 DEF AppReads, HdrTypes, RxStates
  <2>7. StateFields'
    BY <2>2 DEF StateFields
  <2> QED BY <2>4, <2>5, <2>6, <2>7 DEF TypeInv, Types
<1>14. CASE CallbackReturns
  <2>1. out' \in Seq(ClientPacket) /\ acks' \in Nat
    <3>1. CASE AckRxMessage
      BY <1>0, <3>1, AckType
    <3>2. CASE ~AckRxMessage
      BY <1>0, <1>14, <3>2 DEF CallbackReturns, ReqTypes, HisTypes
    <3> QED BY <3>1, <3>2
  <2>2. rxState' \in {rxState, "READ_TYPE"} /\ pc' \in {"poll", "tail"}
    BY <1>14 DEF CallbackReturns
  <2>3. /\ UNCHANGED <<link, sent, taken, off, rxLength, rxIndex, hdrVars, pubVars>>
        /\ UNCHANGED <<connected, reqVars, delivered>>
    BY <1>14 DEF CallbackReturns
  <2>4. NetTypes' /\ HisTypes' /\ ReqTypes'
    BY <1>0, <2>1, <2>2, <2>3 DEF NetTypes, HisTypes, ReqTypes
  <2>5. HdrTypes' /\ PubTypes' /\ (link => StateFields)'
    BY <1>0, <1>00, <2>2, <2>3 DEF HdrTypes, PubTypes, StateFields, RxStates
  <2> QED BY <2>4, <2>5 DEF TypeInv, Types
<1>15. CASE BrokerReads \/ \E p \in Packets : BrokerSends(p)
  <2>1. sent' = sent \/ \E p \in Packets : sent' = Append(sent, p)
    BY <1>15 DEF BrokerReads, BrokerSends, BrokerWrites
  <2>2. sent \in Seq(Packets) /\ taken \in 0..Len(sent)
    BY <1>0 DEF NetTypes
  <2>3. sent' \in Seq(Packets) /\ taken \in 0..Len(sent')
    BY <2>1, <2>2
  <2>4. out' \in Seq(ClientPacket)
    <3>1. out \in Seq(ClientPacket)
      BY <1>0 DEF ReqTypes
    <3>2. CASE BrokerReads
      BY <3>1, <3>2 DEF BrokerReads
    <3>3. CASE \E p \in Packets : BrokerSends(p)
      BY <3>1, <3>3 DEF BrokerSends
    <3> QED BY <1>15, <3>2, <3>3
  <2>5. UNCHANGED <<link, taken, off, rxVars, pc, connected, reqVars, hisVars>>
    BY <1>15 DEF BrokerReads, BrokerSends
  <2>6. NetTypes' /\ HisTypes'
    BY <1>0, <2>3, <2>5 DEF NetTypes, HisTypes
  <2>7. ReqTypes'
    BY <1>0, <2>4, <2>5 DEF ReqTypes
  <2>8. HdrTypes' /\ PubTypes' /\ (link => StateFields)'
    BY <1>0, <1>00, <2>5 DEF HdrTypes, PubTypes, StateFields
  <2> QED BY <2>6, <2>7, <2>8 DEF TypeInv, Types
<1>16. CASE LinkDrops
  <2>1. NetTypes' /\ HisTypes' /\ ReqTypes'
    BY <1>0, <1>16 DEF LinkDrops, NetTypes, HisTypes, ReqTypes
  <2>2. HdrTypes' /\ PubTypes' /\ ~link'
    BY <1>0, <1>16 DEF LinkDrops, HdrTypes, PubTypes
  <2> QED BY <2>1, <2>2 DEF TypeInv, Types
<1>17. CASE Reconnect
  <2>1. out' \in Seq(ClientPacket)
    <3>1. [type |-> CONNECT, qos |-> 0, pid |-> 0] \in ClientPacket
      BY ClientTypeFacts DEF ClientPacket, ClientTypes
    <3>2. \A x \in ClientPacket : <<x>> \in Seq(ClientPacket)
      OBVIOUS
    <3>3. <<>> \in Seq(ClientPacket)
      OBVIOUS
    <3> QED BY <1>17, <3>1, <3>2, <3>3, Zenon DEF Reconnect
  <2>2. NetTypes' /\ HisTypes'
    BY <1>17 DEF Reconnect, NetTypes, HisTypes
  <2>3. ReqTypes'
    <3>1. 0 \in 0..MaxPacketId
      BY ClientTypeFacts
    <3> QED BY <1>0, <1>17, <2>1, <3>1 DEF Reconnect, ReqTypes
  <2>4. HdrTypes' /\ PubTypes'
    BY <1>0, <1>17 DEF Reconnect, HdrTypes, PubTypes, RxStates
  <2>5. StateFields'
    BY <1>17 DEF Reconnect, StateFields
  <2> QED BY <2>2, <2>3, <2>4, <2>5 DEF TypeInv, Types
<1>18. CASE Accepted
  <2>1. NetTypes' /\ HisTypes' /\ ReqTypes'
    BY <1>0, <1>18 DEF Accepted, NetTypes, HisTypes, ReqTypes
  <2>2. HdrTypes' /\ PubTypes' /\ (link => StateFields)'
    BY <1>0, <1>00, <1>18 DEF Accepted, HdrTypes, PubTypes, StateFields
  <2> QED BY <2>1, <2>2 DEF TypeInv, Types
<1>19. CASE GiveUp
  <2>1. out' \in Seq(ClientPacket) /\ link' = FALSE /\ connected' = FALSE
    BY <1>0, <1>19, StopType DEF GiveUp
  <2>2. UNCHANGED <<sent, taken, off, rxVars, pc, reqVars, hisVars>>
    BY <1>19 DEF GiveUp
  <2>3. ReqTypes' /\ HisTypes'
    BY <1>0, <2>1, <2>2 DEF ReqTypes, HisTypes
  <2>4. NetTypes'
    <3>1. link' \in BOOLEAN
      BY <2>1
    <3> QED BY <1>0, <2>2, <3>1 DEF NetTypes
  <2>5. HdrTypes' /\ PubTypes'
    BY <1>0, <2>2 DEF HdrTypes, PubTypes
  <2> QED BY <2>1, <2>3, <2>4, <2>5 DEF TypeInv, Types
<1>20. CASE \E type \in Requests : Request(type)
  <2>1. PICK type \in Requests : Request(type)
    BY <1>20
  <2>2. txPid' \in 0..MaxPacketId
    BY <1>0, <2>1, ClientTypeFacts DEF Request, NextPid, ReqTypes
  <2>3. out' \in Seq(ClientPacket)
    <3>1. PICK qos \in 0..2, pid \in {0, txPid'} : out' = WriteQos(out, type, qos, pid)
      BY <2>1 DEF Request
    <3>2. pid \in Words /\ type \in ClientTypes /\ out \in Seq(ClientPacket)
      BY <1>0, <2>2, <3>1, ClientTypeFacts DEF ReqTypes
    <3> QED BY <3>1, <3>2, WriteType
  <2>4. UNCHANGED <<link, sent, taken, off, rxVars, pc, hisVars>>
    BY <2>1 DEF Request
  <2>5. connected' \in BOOLEAN /\ txStream' \in BOOLEAN
    BY <1>0, <2>1 DEF Request, ReqTypes, NetTypes
  <2>6. returnCode' \in Bytes \cup {-1}
    BY <1>0, <2>1 DEF Request, ReqTypes
  <2>7. NetTypes' /\ HisTypes' /\ ReqTypes'
    BY <1>0, <2>2, <2>3, <2>4, <2>5, <2>6 DEF NetTypes, HisTypes, ReqTypes
  <2>8. HdrTypes' /\ PubTypes' /\ (link => StateFields)'
    BY <1>0, <1>00, <2>4 DEF HdrTypes, PubTypes, StateFields
  <2> QED BY <2>7, <2>8 DEF TypeInv, Types
<1>21. CASE UNCHANGED vars
  <2>1. NetTypes' /\ HisTypes' /\ ReqTypes'
    BY <1>0, <1>21 DEF vars, NetTypes, HisTypes, ReqTypes
  <2>2. HdrTypes' /\ PubTypes' /\ (link => StateFields)'
    BY <1>0, <1>00, <1>21 DEF vars, HdrTypes, PubTypes, StateFields
  <2> QED BY <2>1, <2>2 DEF TypeInv, Types
<1> QED
  BY <1>1, <1>2, <1>3, <1>4, <1>5, <1>6, <1>7, <1>8, <1>9, <1>10, <1>11, <1>12, <1>13,
     <1>14, <1>15, <1>16, <1>17, <1>18, <1>19, <1>20, <1>21
  DEF Next, Poll, Environment, Caller

LEMMA TypeInit == Init => TypeInv
<1> SUFFICES ASSUME Init PROVE TypeInv
  OBVIOUS
<1>1. NetTypes /\ HisTypes
  BY DEF Init, NetTypes, HisTypes
<1>2. HdrTypes /\ PubTypes
  BY ClientTypeFacts, Bounds DEF Init, HdrTypes, PubTypes, RxStates
<1>3. ReqTypes
  <2>1. 0 \in Bytes /\ 0 \in 0..MaxPacketId
    BY ClientTypeFacts, Bounds
  <2> QED BY <2>1 DEF Init, ReqTypes
<1>4. ~link
  BY DEF Init
<1> QED BY <1>1, <1>2, <1>3, <1>4 DEF TypeInv, Types

\* So they hold in every behaviour.
LEMMA TypeInvariant == Spec => []TypeInv
BY TypeInit, TypeStep, PTL DEF Spec

\* Every field keeps its type, the index into _rxMessageBuffer included,
\* whatever bytes come: also when parseMessage() has lost its place.
THEOREM TypeCorrect == Spec => []TypeOK
<1>1. TypeInv => TypeOK
  BY TypeParts DEF TypeInv
<1> QED BY <1>1, TypeInvariant, PTL

-----------------------------------------------------------------------------
(* The receiver keeps its place.                                           *)

\* Where each state of poll() stands in the packet p.
LengthPlace(p) ==
  /\ off \in 1..LengthSize(p)
  /\ rxType = p.type /\ rxFlags = Flags(p)
  /\ off = 1 => rxLength = 0 /\ rxMult = 1
  /\ off = 2 => rxLength = Rem(p) % Radix /\ rxMult = Radix
  /\ off = 3 => rxLength = Rem(p) % (Radix * Radix) /\ rxMult = Radix * Radix

HeaderPlace(p) ==
  /\ p.type # PUBLISH /\ rxType = p.type
  /\ rxLength = Rem(p) /\ rxIndex < rxLength /\ off = HeaderSize(p) + rxIndex
  /\ \A i \in 0..2 : i < rxIndex => rxBuf[i] = AckByte(p, i + 1)

TopicLengthPlace(p) ==
  /\ p.type = PUBLISH /\ rxQos = p.qos
  /\ rxLength = Rem(p) /\ rxIndex \in 0..1 /\ off = HeaderSize(p) + rxIndex
  /\ rxIndex = 1 => rxBuf[0] = High(p.topic)

TopicPlace(p) ==
  /\ p.type = PUBLISH /\ rxQos = p.qos
  /\ topicLen = p.topic /\ rxLength = Rem(p) - 2 /\ rxIndex = 0
  /\ topicGot < topicLen /\ off = HeaderSize(p) + 2 + topicGot

IdPlace(p) ==
  /\ p.type = PUBLISH /\ rxQos = p.qos /\ p.qos > 0
  /\ topicGot = p.topic /\ rxLength = 2 + p.payload
  /\ rxIndex \in 0..1 /\ off = HeaderSize(p) + 2 + p.topic + rxIndex
  /\ rxIndex = 1 => rxBuf[0] = High(p.pid)

PayloadPlace(p) ==
  p.type = PUBLISH /\ rxLength > 0 /\ off = Size(p) - rxLength

Place(p) ==
  /\ rxState = "READ_REMAINING_LENGTH" => LengthPlace(p)
  /\ rxState = "READ_VARIABLE_HEADER" => HeaderPlace(p)
  /\ rxState = "READ_PUBLISH_TOPIC_LENGTH" => TopicLengthPlace(p)
  /\ rxState = "READ_PUBLISH_TOPIC" => TopicPlace(p)
  /\ rxState = "READ_PUBLISH_PACKET_ID" => IdPlace(p)
  /\ rxState \in {"READ_PUBLISH_PAYLOAD", "DISCARD_PUBLISH_PAYLOAD"} => PayloadPlace(p)

Between == rxState = "READ_TYPE" \/ EmptyInCallback

PlaceInv ==
  /\ pc = "callback" => \/ rxState = "READ_PUBLISH_PAYLOAD"
                        \/ rxState = "READ_TYPE" /\ rxLength = 0
  /\ Between => off = 0
  /\ ~Between => taken < Len(sent) /\ off > 0 /\ Place(Cur)

\* An empty message has been read.  Without a callback the receiver then takes
\* the next byte for one of its payload, and the place is lost.
EmptyRead == \E k \in 1..taken : sent[k].type = PUBLISH /\ sent[k].payload = 0
Shifted   == ~HasCallback /\ EmptyRead

\* What a byte does to the place: the last of a packet ends it.
LEMMA AdvanceCur ==
  ASSUME TypeOK, HasByte, Advance
  PROVE  /\ off + 1 = Size(Cur) => taken' = taken + 1 /\ off' = 0
         /\ off + 1 # Size(Cur) => taken' = taken /\ off' = off + 1
         /\ off + 1 # Size(Cur) => Cur' = Cur /\ taken' < Len(sent')
         /\ link /\ link' = link /\ sent' = sent
<1>1. taken < Len(sent) /\ link
  BY DEF HasByte
<1>2. /\ off + 1 = Size(Cur) => taken' = taken + 1 /\ off' = 0
      /\ off + 1 # Size(Cur) => taken' = taken /\ off' = off + 1
      /\ link' = link /\ sent' = sent
  BY DEF Advance
<1> QED BY <1>1, <1>2 DEF Cur

\* The states of the receiver are different, and complete.
LEMMA PlaceCases ==
  ASSUME TypeOK, PlaceInv, ~Between
  PROVE  taken < Len(sent) /\ Place(Cur) /\ Cur \in Packets /\ WellFormed(Cur)
<1>1. taken < Len(sent) /\ Place(Cur)
  BY DEF PlaceInv
<1>2. taken + 1 \in 1..Len(sent)
  BY <1>1 DEF TypeOK
<1>3. Cur \in Packets
  BY <1>2 DEF TypeOK, Cur
<1> QED BY <1>1, <1>3, PacketsAssumption

\* A step that touches neither the receiver nor what has been read.
LEMMA PlaceKept ==
  ASSUME TypeOK, PlaceInv, UNCHANGED <<taken, off, rxVars>>,
         sent' = sent \/ \E p \in Packets : sent' = Append(sent, p),
         pc' = pc \/ (pc # "callback" /\ pc' # "callback")
  PROVE  PlaceInv'
<1> USE DEF rxVars, hdrVars, pubVars
<1>1. Between' <=> Between
  BY DEF Between, EmptyInCallback
<1>2. CASE Between
  BY <1>1, <1>2 DEF PlaceInv
<1>3. CASE ~Between
  <2>1. taken < Len(sent) /\ off > 0 /\ Place(Cur)
    BY <1>3 DEF PlaceInv
  <2>2. taken' < Len(sent') /\ Cur' = Cur
    <3>1. sent \in Seq(Packets) /\ taken \in Nat /\ taken' = taken
      BY DEF TypeOK
    <3>2. CASE sent' = sent
      BY <2>1, <3>1, <3>2 DEF Cur
    <3>3. ASSUME NEW p \in Packets, sent' = Append(sent, p) PROVE taken' < Len(sent') /\ Cur' = Cur
      <4>1. Len(sent') = Len(sent) + 1 /\ \A i \in 1..Len(sent) : sent'[i] = sent[i]
        BY <3>1, <3>3
      <4> QED BY <2>1, <3>1, <4>1 DEF Cur
    <3> QED BY <3>2, <3>3
  <2>3. Place(Cur)'
    BY <2>1, <2>2 DEF Place, LengthPlace, HeaderPlace, TopicLengthPlace, TopicPlace,
       IdPlace, PayloadPlace
  <2>4. off' > 0
    BY <2>1
  <2>5. pc' = "callback" => \/ rxState' = "READ_PUBLISH_PAYLOAD"
                            \/ rxState' = "READ_TYPE" /\ rxLength' = 0
    BY DEF PlaceInv
  <2> QED BY <1>1, <1>3, <2>2, <2>3, <2>4, <2>5 DEF PlaceInv
<1> QED BY <1>2, <1>3

-----------------------------------------------------------------------------
(* One lemma for each state of poll().                                     *)

\* The first byte.
LEMMA TypePlace ==
  ASSUME TypeOK, PlaceInv, RxType
  PROVE  PlaceInv'
<1>1. HasByte /\ Advance /\ pc = "poll" /\ pc' = pc /\ rxState = "READ_TYPE"
  BY DEF RxType, InPoll
<1>2. off = 0
  BY <1>1 DEF PlaceInv, Between
<1>3. WellFormed(Cur)
  BY <1>1, ByteFacts
<1>4. Size(Cur) \in Nat /\ Size(Cur) >= 2 /\ LengthSize(Cur) \in 1..3
  BY <1>3, Sizes
<1>5. off' = 1 /\ Cur' = Cur /\ taken' < Len(sent')
  BY <1>1, <1>2, <1>4, AdvanceCur
<1>6. Byte = ByteAt(Cur, 1)
  BY <1>2 DEF Byte
<1>7. /\ rxType' = Cur.type /\ rxFlags' = Flags(Cur)
      /\ rxLength' = 0 /\ rxMult' = 1 /\ rxState' = "READ_REMAINING_LENGTH"
  BY <1>3, <1>6, FirstByte DEF RxType
<1>8. LengthPlace(Cur)'
  BY <1>4, <1>5, <1>7 DEF LengthPlace
<1>9. Place(Cur)'
  BY <1>7, <1>8 DEF Place
<1>10. ~Between'
  BY <1>7 DEF Between, EmptyInCallback
<1> QED BY <1>1, <1>5, <1>9, <1>10 DEF PlaceInv

\* The flags say the quality of service of a PUBLISH.
LEMMA FlagFacts ==
  ASSUME NEW p, WellFormed(p)
  PROVE  /\ p.type = PUBLISH => (Flags(p) \div 2) % 4 = p.qos
         /\ p.type # PUBLISH => Flags(p) = IF p.type = PUBREL THEN 2 ELSE 0
         /\ p.qos \in 0..2
<1>1. p.qos \in 0..2
  BY PacketFields
<1>2. \A q \in 0..2 : ((2 * q) \div 2) % 4 = q
  OBVIOUS
<1> QED BY <1>1, <1>2 DEF Flags

\* What the length field says, byte by byte; poll() never finds it malformed.
LEMMA LengthStep ==
  ASSUME TypeOK, HasByte, LengthPlace(Cur)
  PROVE  /\ ~LengthTooLong
         /\ Byte >= Radix <=> off < LengthSize(Cur)
         /\ Byte \in Nat
         /\ off = 1 => LengthSoFar = Rem(Cur) % Radix
         /\ off = 2 => LengthSoFar = Rem(Cur) % (Radix * Radix)
         /\ off = LengthSize(Cur) => LengthSoFar = Rem(Cur)
         /\ ~Malformed(Rem(Cur))
<1>1. WellFormed(Cur)
  BY ByteFacts
<1>2. LengthSize(Cur) \in 1..3 /\ off \in 1..LengthSize(Cur) /\ Rem(Cur) \in Nat
  BY <1>1, Sizes DEF LengthPlace
<1>3. off \in 1..3
  BY <1>2
<1>4. Byte \in Nat /\ (Byte >= Radix <=> off < LengthSize(Cur))
  BY <1>1, <1>2, LengthBytes, Bounds DEF Byte
<1>5. ~LengthTooLong
  <2>1. rxMult \in {1, 128, 128 * 128}
    BY <1>3 DEF LengthPlace, Radix
  <2> QED BY <2>1 DEF LengthTooLong, Radix
<1>6. off = 1 => LengthSoFar = Rem(Cur) % Radix
  BY <1>1, <1>2, <1>4, LengthBytes DEF LengthPlace, LengthSoFar, Byte, Radix
<1>7. off = 2 => LengthSoFar = Rem(Cur) % (Radix * Radix)
  BY <1>1, <1>2, <1>4, LengthBytes DEF LengthPlace, LengthSoFar, Byte
<1>8. off = 3 => LengthSoFar = Rem(Cur)
  BY <1>1, <1>2, <1>4, LengthBytes DEF LengthPlace, LengthSoFar, Byte
<1>9. off = LengthSize(Cur) => LengthSoFar = Rem(Cur)
  BY <1>1, <1>3, <1>6, <1>7, <1>8, LastLengthByte
<1>10. ~Malformed(Rem(Cur))
  <2>1. rxType = Cur.type /\ rxFlags = Flags(Cur)
    BY DEF LengthPlace
  <2>2. CASE Cur.type = PUBLISH
    BY <1>1, <2>1, <2>2, FlagFacts DEF Malformed, PUBLISH, CONNACK, PUBACK, PUBREC,
       PUBCOMP, UNSUBACK
  <2>3. CASE Cur.type # PUBLISH
    <3>1. Cur.type \in PacketTypes
      BY <1>1, PacketFields
    <3>2. Rem(Cur) = IF Cur.type = PINGRESP THEN 0 ELSE IF Cur.type = SUBACK THEN 3 ELSE 2
      BY <2>3 DEF Rem
    <3>3. Flags(Cur) = IF Cur.type = PUBREL THEN 2 ELSE 0
      BY <1>1, <2>3, FlagFacts
    <3> QED BY <2>1, <2>3, <3>1, <3>2, <3>3 DEF Malformed, PacketTypes, PUBLISH, CONNACK,
          PUBACK, PUBREC, PUBCOMP, UNSUBACK, PUBREL, SUBACK, PINGRESP
  <2> QED BY <2>2, <2>3
<1> QED BY <1>4, <1>5, <1>6, <1>7, <1>9, <1>10

\* The length bytes.
LEMMA LengthBytePlace ==
  ASSUME TypeOK, PlaceInv, RxLengthByte
  PROVE  PlaceInv'
<1>1. /\ HasByte /\ Advance /\ pc = "poll" /\ pc' = pc
      /\ rxState = "READ_REMAINING_LENGTH" /\ rxType' = rxType /\ rxFlags' = rxFlags
      /\ rxLength' = LengthSoFar /\ rxMult' = rxMult * Radix
  BY DEF RxLengthByte, InPoll
<1>2. LengthPlace(Cur) /\ WellFormed(Cur)
  BY <1>1, PlaceCases DEF Between, EmptyInCallback, Place
<1>3. /\ Size(Cur) = 1 + LengthSize(Cur) + Rem(Cur) /\ Rem(Cur) \in Nat
      /\ HeaderSize(Cur) = 1 + LengthSize(Cur)
      /\ LengthSize(Cur) \in 1..3 /\ off \in 1..LengthSize(Cur)
  BY <1>2, Sizes DEF LengthPlace
<1>4. rxType = Cur.type /\ rxFlags = Flags(Cur)
  BY <1>2 DEF LengthPlace
<1>5. CASE Byte >= Radix
  <2>1. off < LengthSize(Cur) /\ off + 1 # Size(Cur)
    BY <1>1, <1>2, <1>3, <1>5, LengthStep
  <2>2. taken' < Len(sent') /\ Cur' = Cur /\ off' = off + 1
    BY <1>1, <2>1, AdvanceCur
  <2>3. rxState' = rxState
    <3>1. ~(Byte < Radix)
      BY <1>1, <1>2, <1>5, LengthStep DEF Radix
    <3> QED BY <1>5, <3>1 DEF RxLengthByte
  <2>4. off = 1 => rxMult' = Radix
    BY <1>1, <1>2 DEF LengthPlace, Radix
  <2>5. off = 2 => rxMult' = Radix * Radix
    BY <1>1, <1>2 DEF LengthPlace
  <2>6. /\ off = 1 => rxLength' = Rem(Cur) % Radix
        /\ off = 2 => rxLength' = Rem(Cur) % (Radix * Radix)
    BY <1>1, <1>2, LengthStep
  <2>7. LengthPlace(Cur)'
    BY <1>1, <1>3, <1>4, <2>1, <2>2, <2>4, <2>5, <2>6 DEF LengthPlace
  <2>8. Place(Cur)' /\ ~Between'
    BY <1>1, <2>3, <2>7 DEF Place, Between, EmptyInCallback
  <2> QED BY <1>1, <1>3, <2>2, <2>8 DEF PlaceInv
<1>6. CASE ~(Byte >= Radix)
  <2>1. /\ off = LengthSize(Cur)
        /\ rxLength' = Rem(Cur)
        /\ ~Malformed(Rem(Cur))
    BY <1>1, <1>2, <1>3, <1>6, LengthStep
  <2>2. /\ rxIndex' = 0
        /\ rxType = PUBLISH => /\ rxQos' = (rxFlags \div 2) % 4
                               /\ rxState' = "READ_PUBLISH_TOPIC_LENGTH"
        /\ rxType # PUBLISH => rxState' = IF LengthSoFar = 0 THEN "READ_TYPE"
                                          ELSE "READ_VARIABLE_HEADER"
    BY <1>6 DEF RxLengthByte
  <2>3. CASE Cur.type = PUBLISH
    <3>1. Rem(Cur) >= 2
      BY <1>2, <2>3, Sizes, PacketFields
    <3>2. off' = HeaderSize(Cur) /\ taken' < Len(sent') /\ Cur' = Cur
      BY <1>1, <1>3, <2>1, <3>1, AdvanceCur
    <3>3. rxQos' = Cur.qos
      BY <1>2, <1>4, <2>2, <2>3, FlagFacts
    <3>4. TopicLengthPlace(Cur)'
      BY <1>3, <2>1, <2>2, <2>3, <3>2, <3>3 DEF TopicLengthPlace
    <3>5. Place(Cur)' /\ ~Between'
      BY <1>4, <2>2, <2>3, <3>4 DEF Place, Between, EmptyInCallback
    <3> QED BY <1>1, <1>3, <3>2, <3>5 DEF PlaceInv
  <2>4. CASE Cur.type # PUBLISH /\ Rem(Cur) = 0
    <3>1. off' = 0 /\ rxState' = "READ_TYPE"
      BY <1>1, <1>3, <1>4, <2>1, <2>2, <2>4, AdvanceCur
    <3>2. Between'
      BY <3>1 DEF Between
    <3> QED BY <1>1, <3>1, <3>2 DEF PlaceInv
  <2>5. CASE Cur.type # PUBLISH /\ Rem(Cur) # 0
    <3>1. off' = HeaderSize(Cur) /\ taken' < Len(sent') /\ Cur' = Cur
      BY <1>1, <1>3, <2>1, <2>5, AdvanceCur
    <3>2. HeaderPlace(Cur)'
      BY <1>1, <1>3, <1>4, <2>1, <2>2, <2>5, <3>1 DEF HeaderPlace
    <3>3. rxState' = "READ_VARIABLE_HEADER"
      BY <1>1, <1>4, <2>1, <2>2, <2>5
    <3>4. Place(Cur)' /\ ~Between'
      BY <3>2, <3>3 DEF Place, Between, EmptyInCallback
    <3> QED BY <1>1, <1>3, <3>1, <3>4 DEF PlaceInv
  <2> QED BY <2>3, <2>4, <2>5
<1> QED BY <1>5, <1>6

\* A header a broker writes is never found malformed, nor a topic too long.
LEMMA NotMalformed ==
  ASSUME TypeOK, PlaceInv
  PROVE  ~RxMalformed
<1> SUFFICES ASSUME RxMalformed PROVE FALSE
  OBVIOUS
<1>1. HasByte /\ rxState = "READ_REMAINING_LENGTH"
  BY DEF RxMalformed
<1>2. LengthPlace(Cur)
  BY <1>1, PlaceCases DEF Between, EmptyInCallback, Place
<1>3. LengthSize(Cur) \in 1..3 /\ off \in 1..LengthSize(Cur)
  BY <1>1, <1>2, ByteFacts, Sizes DEF LengthPlace
<1>4. Byte < Radix => off = LengthSize(Cur)
  BY <1>1, <1>2, <1>3, LengthStep DEF Radix
<1> QED BY <1>1, <1>2, <1>4, LengthStep DEF RxMalformed

\* The two or three bytes after the header of a packet that is not a PUBLISH.
LEMMA VariableHeaderByte ==
  ASSUME TypeOK, PlaceInv, RxVariableHeader
  PROVE  /\ HeaderPlace(Cur) /\ WellFormed(Cur)
         /\ rxIndex \in 0..2
         /\ \A i \in 0..2 : i < rxIndex + 1 => rxBuf'[i] = AckByte(Cur, i + 1)
<1>1. HasByte /\ rxState = "READ_VARIABLE_HEADER" /\ rxBuf' = [rxBuf EXCEPT ![rxIndex] = Byte]
  BY DEF RxVariableHeader, InPoll
<1>2. HeaderPlace(Cur) /\ WellFormed(Cur)
  BY <1>1, PlaceCases DEF Between, EmptyInCallback, Place
<1>3. /\ rxIndex < Rem(Cur) /\ off = HeaderSize(Cur) + rxIndex /\ Cur.type # PUBLISH
      /\ \A i \in 0..2 : i < rxIndex => rxBuf[i] = AckByte(Cur, i + 1)
      /\ rxIndex \in Nat /\ rxBuf \in [0..2 -> Bytes]
  BY <1>2 DEF HeaderPlace, TypeOK
<1>4. HeaderSize(Cur) \in 2..4 /\ Rem(Cur) \in 0..3
  BY <1>2, <1>3, Sizes DEF Rem
<1>5. Byte = AckByte(Cur, rxIndex + 1)
  BY <1>3, <1>4 DEF Byte, ByteAt
<1>6. rxIndex \in 0..2
  BY <1>3, <1>4
<1> QED BY <1>1, <1>2, <1>3, <1>5, <1>6

LEMMA VariableHeaderPlace ==
  ASSUME TypeOK, PlaceInv, RxVariableHeader
  PROVE  PlaceInv'
<1>1. /\ HasByte /\ Advance /\ pc = "poll" /\ pc' = pc
      /\ rxState = "READ_VARIABLE_HEADER"
      /\ rxIndex' = rxIndex + 1 /\ rxLength' = rxLength /\ rxType' = rxType
  BY DEF RxVariableHeader, InPoll
<1>2. HeaderPlace(Cur) /\ WellFormed(Cur)
  BY VariableHeaderByte
<1>3. /\ rxLength = Rem(Cur) /\ rxIndex < rxLength /\ off = HeaderSize(Cur) + rxIndex
      /\ Size(Cur) = HeaderSize(Cur) + Rem(Cur) /\ HeaderSize(Cur) \in 2..4
      /\ rxIndex \in Nat /\ rxLength \in Nat
  BY <1>2, Sizes DEF HeaderPlace, TypeOK
<1>4. CASE rxIndex + 1 < rxLength
  <2>1. off' = off + 1 /\ taken' < Len(sent') /\ Cur' = Cur
    BY <1>1, <1>3, <1>4, AdvanceCur
  <2>2. rxState' = rxState
    BY <1>4 DEF RxVariableHeader
  <2>3. HeaderPlace(Cur)'
    <3>1. \A i \in 0..2 : i < rxIndex' => rxBuf'[i] = AckByte(Cur', i + 1)
      BY <1>1, <2>1, VariableHeaderByte
    <3>2. Cur.type # PUBLISH /\ rxType' = Cur.type
      BY <1>1, <1>2 DEF HeaderPlace
    <3>3. rxLength' = Rem(Cur) /\ rxIndex' < rxLength' /\ off' = HeaderSize(Cur) + rxIndex'
      BY <1>1, <1>3, <1>4, <2>1
    <3> QED BY <2>1, <3>1, <3>2, <3>3 DEF HeaderPlace
  <2>4. Place(Cur)' /\ ~Between'
    BY <1>1, <2>2, <2>3 DEF Place, Between, EmptyInCallback
  <2> QED BY <1>1, <1>3, <2>1, <2>4 DEF PlaceInv
<1>5. CASE ~(rxIndex + 1 < rxLength)
  <2>1. off' = 0
    BY <1>1, <1>3, <1>5, AdvanceCur
  <2>2. rxState' = "READ_TYPE"
    BY <1>5 DEF RxVariableHeader
  <2>3. Between'
    BY <2>2 DEF Between
  <2> QED BY <1>1, <2>1, <2>2, <2>3 DEF PlaceInv
<1> QED BY <1>4, <1>5

\* With the last of these bytes an answer is complete: what poll() compares and
\* returns is the identifier and the code the broker wrote.
LEMMA AnswerRead ==
  ASSUME TypeOK, PlaceInv, RxVariableHeader, ~(rxIndex + 1 < rxLength)
  PROVE  /\ HasByte /\ WellFormed(Cur) /\ rxType = Cur.type
         /\ Cur.type \notin {PUBLISH, PINGRESP}
         /\ taken' = taken + 1
         /\ Cur.type # CONNACK => Word(rxBuf') = Cur.pid
         /\ Cur.type = CONNACK => rxBuf'[1] = Cur.code
         /\ Cur.type = SUBACK => rxBuf'[2] = Cur.code
<1>1. /\ HeaderPlace(Cur) /\ WellFormed(Cur) /\ rxIndex \in 0..2
      /\ \A i \in 0..2 : i < rxIndex + 1 => rxBuf'[i] = AckByte(Cur, i + 1)
  BY VariableHeaderByte
<1>2. /\ rxLength = Rem(Cur) /\ rxIndex < rxLength /\ rxType = Cur.type
      /\ Cur.type # PUBLISH /\ off = HeaderSize(Cur) + rxIndex
  BY <1>1 DEF HeaderPlace
<1>3. /\ Rem(Cur) \in 0..3 /\ HeaderSize(Cur) \in Nat
      /\ Size(Cur) = HeaderSize(Cur) + Rem(Cur)
      /\ Cur.type = SUBACK => Rem(Cur) = 3
      /\ Cur.type # PINGRESP => Rem(Cur) >= 2
      /\ Cur.type = PINGRESP => Rem(Cur) = 0
  BY <1>1, <1>2, Sizes DEF Rem, SUBACK, PINGRESP
<1>4. rxIndex + 1 = Rem(Cur) /\ Cur.type # PINGRESP
  BY <1>1, <1>2, <1>3
<1>5. HasByte /\ Advance
  BY DEF RxVariableHeader, InPoll
<1>6. taken' = taken + 1
  <2>1. off + 1 = Size(Cur)
    BY <1>1, <1>2, <1>3, <1>4
  <2> QED BY <1>5, <2>1, AdvanceCur
<1>7. rxBuf'[0] = AckByte(Cur, 1) /\ rxBuf'[1] = AckByte(Cur, 2)
  BY <1>1, <1>3, <1>4
<1>8. Cur.type = SUBACK => rxBuf'[2] = AckByte(Cur, 3)
  BY <1>1, <1>3, <1>4
<1>9. Cur.pid \in Words
  BY <1>1, PacketFields
<1>10. Cur.type # CONNACK => Word(rxBuf') = Cur.pid
  BY <1>7, <1>9, WordBytes DEF Word, AckByte
<1>11. /\ Cur.type = CONNACK => AckByte(Cur, 2) = Cur.code
       /\ Cur.type = SUBACK => AckByte(Cur, 3) = Cur.code
  BY DEF AckByte, CONNACK, SUBACK
<1> QED BY <1>1, <1>2, <1>4, <1>5, <1>6, <1>7, <1>8, <1>10, <1>11

\* What a PUBLISH says of its sizes.
LEMMA PublishSizes ==
  ASSUME NEW p, WellFormed(p), p.type = PUBLISH
  PROVE  /\ p.topic \in Nat /\ p.topic > 0 /\ p.topic \in Words
         /\ p.payload \in Nat /\ p.qos \in 0..2 /\ p.pid \in Words
         /\ Rem(p) = 2 + p.topic + (IF p.qos > 0 THEN 2 ELSE 0) + p.payload
         /\ Size(p) = HeaderSize(p) + Rem(p)
         /\ HeaderSize(p) \in 2..4
         /\ Rem(p) < Radix * Radix * Radix
         /\ (Rem(p) - 2) % SizeT = Rem(p) - 2
<1>1. /\ p.topic \in Words \ {0} /\ p.payload \in Nat /\ p.qos \in 0..2 /\ p.pid \in Words
      /\ Rem(p) < Radix * Radix * Radix
  BY PacketFields
<1>2. p.topic \in Nat /\ p.topic > 0
  BY <1>1, Bounds
<1>3. /\ Rem(p) = 2 + p.topic + (IF p.qos > 0 THEN 2 ELSE 0) + p.payload
      /\ Size(p) = HeaderSize(p) + Rem(p) /\ HeaderSize(p) \in 2..4
  BY Sizes
<1>4. (Rem(p) - 2) % SizeT = Rem(p) - 2
  <2>1. Rem(p) - 2 \in Nat /\ Rem(p) - 2 < 128 * 128 * 128
    BY <1>1, <1>2, <1>3 DEF Radix
  <2>2. \A n \in Nat, m \in Nat \ {0} : n < m => n % m = n
    OBVIOUS
  <2>3. SizeT \in Nat \ {0} /\ 128 * 128 * 128 < SizeT
    BY DEF SizeT
  <2> QED BY <2>1, <2>2, <2>3
<1> QED BY <1>1, <1>2, <1>3, <1>4

\* The two bytes of the topic length.
LEMMA TopicLengthFacts ==
  ASSUME TypeOK, PlaceInv, HasByte, rxState = "READ_PUBLISH_TOPIC_LENGTH"
  PROVE  /\ WellFormed(Cur) /\ TopicLengthPlace(Cur)
         /\ rxIndex = 0 => Byte = High(Cur.topic)
         /\ rxIndex = 1 => Word([rxBuf EXCEPT ![1] = Byte]) = Cur.topic
         /\ ~TopicTooLong((rxLength - 2) % SizeT, Cur.topic)
<1>1. WellFormed(Cur) /\ TopicLengthPlace(Cur)
  BY PlaceCases DEF Between, EmptyInCallback, Place
<1>2. Cur.type = PUBLISH /\ rxQos = Cur.qos /\ rxLength = Rem(Cur)
  BY <1>1 DEF TopicLengthPlace
<1>3. rxIndex = 0 => Byte = High(Cur.topic)
  BY <1>1, <1>2, PublishBytes, PublishSizes DEF TopicLengthPlace, Byte
<1>4. rxIndex = 1 => Word([rxBuf EXCEPT ![1] = Byte]) = Cur.topic
  <2> SUFFICES ASSUME rxIndex = 1 PROVE Word([rxBuf EXCEPT ![1] = Byte]) = Cur.topic
    OBVIOUS
  <2>1. Byte = Low(Cur.topic) /\ rxBuf[0] = High(Cur.topic)
    <3>1. off + 1 = HeaderSize(Cur) + 2
      BY <1>1, <1>2, PublishSizes DEF TopicLengthPlace
    <3> QED BY <1>1, <1>2, <3>1, PublishBytes DEF TopicLengthPlace, Byte
  <2>2. Word([rxBuf EXCEPT ![1] = Byte]) = 256 * rxBuf[0] + Byte
    BY DEF Word, TypeOK
  <2> QED BY <1>1, <1>2, <2>1, <2>2, WordBytes, PublishSizes
<1>5. ~TopicTooLong((rxLength - 2) % SizeT, Cur.topic)
  BY <1>1, <1>2, PublishSizes DEF TopicTooLong
<1> QED BY <1>1, <1>3, <1>4, <1>5

\* The topic of a packet a broker writes always fits in it.
LEMMA NotBadTopic ==
  ASSUME TypeOK, PlaceInv
  PROVE  ~RxBadTopic
<1> SUFFICES ASSUME RxBadTopic PROVE FALSE
  OBVIOUS
<1>1. /\ HasByte /\ rxState = "READ_PUBLISH_TOPIC_LENGTH" /\ rxIndex = 1
      /\ topicLen' = Word([rxBuf EXCEPT ![1] = Byte])
      /\ rxLength' = (rxLength - 2) % SizeT
      /\ TopicTooLong(rxLength', topicLen')
  BY DEF RxBadTopic, Word
<1> QED BY <1>1, TopicLengthFacts

\* The topic length: the topic comes next.
LEMMA TopicLengthStep ==
  ASSUME TypeOK, PlaceInv, RxTopicLength
  PROVE  PlaceInv'
<1>1. /\ HasByte /\ Advance /\ pc = "poll" /\ pc' = pc
      /\ rxState = "READ_PUBLISH_TOPIC_LENGTH" /\ rxQos' = rxQos
  BY DEF RxTopicLength, InPoll
<1>2. WellFormed(Cur) /\ TopicLengthPlace(Cur)
  BY <1>1, TopicLengthFacts
<1>3. /\ Cur.type = PUBLISH /\ rxQos = Cur.qos /\ rxLength = Rem(Cur)
      /\ rxIndex \in 0..1 /\ off = HeaderSize(Cur) + rxIndex
  BY <1>2 DEF TopicLengthPlace
<1>4. off' = off + 1 /\ taken' < Len(sent') /\ Cur' = Cur
  <2>1. /\ Size(Cur) = HeaderSize(Cur) + Rem(Cur) /\ HeaderSize(Cur) \in Nat /\ Rem(Cur) \in Nat
        /\ Rem(Cur) > 2
    BY <1>2, <1>3, PublishSizes
  <2>2. off + 1 # Size(Cur)
    BY <1>3, <2>1
  <2> QED BY <1>1, <2>2, AdvanceCur
<1>5. off' > 0
  BY <1>2, <1>3, <1>4, PublishSizes
<1>6. CASE rxIndex = 0
  <2>1. /\ rxIndex' = 1 /\ UNCHANGED <<rxState, rxLength>>
        /\ rxBuf' = [rxBuf EXCEPT ![0] = Byte]
    BY <1>6 DEF RxTopicLength
  <2>2. rxBuf'[0] = High(Cur.topic)
    BY <1>1, <1>6, <2>1, TopicLengthFacts DEF TypeOK
  <2>3. off' = HeaderSize(Cur) + 1
    BY <1>2, <1>3, <1>4, <1>6, PublishSizes
  <2>4. TopicLengthPlace(Cur)'
    BY <1>1, <1>3, <1>4, <2>1, <2>2, <2>3 DEF TopicLengthPlace
  <2>5. Place(Cur)' /\ ~Between'
    BY <1>1, <2>1, <2>4 DEF Place, Between, EmptyInCallback
  <2> QED BY <1>1, <1>4, <1>5, <2>5 DEF PlaceInv
<1>7. CASE rxIndex # 0
  <2>1. /\ topicLen' = Word([rxBuf EXCEPT ![1] = Byte])
        /\ rxLength' = (rxLength - 2) % SizeT /\ topicGot' = 0 /\ rxIndex' = 0
        /\ rxState' = "READ_PUBLISH_TOPIC"
    BY <1>3, <1>7 DEF RxTopicLength, Word
  <2>2. topicLen' = Cur.topic
    BY <1>1, <1>3, <1>7, <2>1, TopicLengthFacts
  <2>3. rxLength' = Rem(Cur) - 2
    BY <1>2, <1>3, <2>1, PublishSizes
  <2>4. off' = HeaderSize(Cur) + 2 + topicGot' /\ topicGot' < topicLen'
    BY <1>2, <1>3, <1>4, <1>7, <2>1, <2>2, PublishSizes
  <2>5. TopicPlace(Cur)'
    BY <1>1, <1>3, <1>4, <2>1, <2>2, <2>3, <2>4 DEF TopicPlace
  <2>6. Place(Cur)' /\ ~Between'
    BY <2>1, <2>5 DEF Place, Between, EmptyInCallback
  <2> QED BY <1>1, <1>4, <1>5, <2>6 DEF PlaceInv
<1> QED BY <1>6, <1>7

\* A message becomes readable: the rest of its packet is its payload.  With a
\* callback, the callback runs at once.
LEMMA AnnouncePlace ==
  ASSUME TypeOK, HasByte, Advance, WellFormed(Cur), Cur.type = PUBLISH,
         rxState' = "READ_PUBLISH_PAYLOAD", HasCallback => pc' = "callback",
         rxLength' = Cur.payload, off + 1 = Size(Cur) - Cur.payload
  PROVE  PlaceInv' \/ Shifted'
<1>1. Cur.payload \in Nat /\ Size(Cur) \in Nat /\ off \in Nat
  BY PublishSizes, Sizes DEF TypeOK
<1>2. CASE Cur.payload = 0
  <2>1. off' = 0 /\ taken' = taken + 1 /\ sent' = sent
    BY <1>1, <1>2, AdvanceCur
  <2>2. CASE pc' = "callback"
    <3>1. Between'
      BY <1>2, <2>2 DEF Between, EmptyInCallback
    <3> QED BY <2>1, <3>1 DEF PlaceInv
  <2>3. CASE pc' # "callback"
    <3>1. taken + 1 \in 1..taken' /\ sent'[taken + 1] = Cur
      BY <2>1 DEF Cur, TypeOK
    <3> QED BY <1>2, <2>3, <3>1 DEF Shifted, EmptyRead
  <2> QED BY <2>2, <2>3
<1>3. CASE Cur.payload # 0
  <2>1. off' = off + 1 /\ taken' < Len(sent') /\ Cur' = Cur
    BY <1>1, <1>3, AdvanceCur
  <2>2. off' > 0 /\ off' = Size(Cur) - rxLength' /\ rxLength' > 0
    BY <1>1, <1>3, <2>1
  <2>3. PayloadPlace(Cur)'
    BY <2>1, <2>2 DEF PayloadPlace
  <2>4. Place(Cur)' /\ ~Between'
    BY <2>2, <2>3 DEF Place, Between, EmptyInCallback
  <2> QED BY <2>1, <2>2, <2>4 DEF PlaceInv
<1> QED BY <1>2, <1>3

\* The packet just announced is the one being read.
Announcing(p) ==
  /\ p.type = PUBLISH /\ rxQos' = p.qos
  /\ topicGot' = p.topic /\ rxLength' = p.payload

\* The topic: with its last byte the message of quality 0 is announced.
LEMMA TopicStep ==
  ASSUME TypeOK, PlaceInv, RxTopic
  PROVE  /\ PlaceInv' \/ Shifted'
         /\ rxState' = "READ_PUBLISH_PAYLOAD" => Announcing(Cur)
<1>1. /\ HasByte /\ Advance /\ pc = "poll" /\ rxState = "READ_PUBLISH_TOPIC"
      /\ topicGot' = topicGot + 1 /\ UNCHANGED <<rxIndex, rxQos, topicLen>>
  BY DEF RxTopic, InPoll
<1>2. WellFormed(Cur) /\ TopicPlace(Cur)
  BY <1>1, PlaceCases DEF Between, EmptyInCallback, Place
<1>3. /\ Cur.type = PUBLISH /\ rxQos = Cur.qos /\ topicLen = Cur.topic
      /\ rxLength = Rem(Cur) - 2 /\ topicGot < Cur.topic
      /\ off = HeaderSize(Cur) + 2 + topicGot /\ topicGot \in Nat
  BY <1>2 DEF TopicPlace, TypeOK
<1>6. /\ HeaderSize(Cur) \in 2..4 /\ Cur.topic \in Nat /\ Cur.payload \in Nat
      /\ Size(Cur) = HeaderSize(Cur) + Rem(Cur)
      /\ rxQos > 0 => Rem(Cur) = 4 + Cur.topic + Cur.payload
      /\ ~(rxQos > 0) => Rem(Cur) = 2 + Cur.topic + Cur.payload
  <2>1. Cur.type = PUBLISH /\ WellFormed(Cur)
    BY <1>2, <1>3
  <2>2. /\ Cur.topic \in Nat /\ Cur.payload \in Nat
        /\ Rem(Cur) = 2 + Cur.topic + (IF Cur.qos > 0 THEN 2 ELSE 0) + Cur.payload
        /\ HeaderSize(Cur) \in 2..4 /\ Size(Cur) = HeaderSize(Cur) + Rem(Cur)
    BY <2>1, PublishSizes
  <2> QED BY <1>3, <2>2
<1>4. CASE ~TopicComplete(topicGot + 1)
  <2>1. UNCHANGED <<rxState, rxLength, pc>>
    BY <1>4 DEF RxTopic
  <2>2. topicGot + 1 < Cur.topic
    BY <1>2, <1>3, <1>4, PublishSizes DEF TopicComplete
  <2>3. /\ off' = off + 1 /\ taken' < Len(sent') /\ Cur' = Cur
        /\ off' > 0 /\ off' = HeaderSize(Cur) + 2 + topicGot'
    <3>1. off + 1 # Size(Cur)
      BY <1>3, <1>6, <2>2
    <3>2. off' = off + 1 /\ taken' < Len(sent') /\ Cur' = Cur
      BY <1>1, <3>1, AdvanceCur
    <3>3. off' = HeaderSize(Cur) + 2 + topicGot' /\ off' > 0
      <4>1. /\ off' = off + 1 /\ topicGot' = topicGot + 1 /\ topicGot \in Nat
            /\ off = HeaderSize(Cur) + 2 + topicGot
        BY <1>1, <1>3, <3>2
      <4>2. HeaderSize(Cur) \in Nat
        BY <1>6
      <4> QED BY <4>1, <4>2
    <3> QED BY <3>2, <3>3
  <2>4. TopicPlace(Cur)'
    BY <1>1, <1>2, <1>3, <2>1, <2>2, <2>3 DEF TopicPlace
  <2>5. Place(Cur)' /\ ~Between'
    BY <1>1, <2>1, <2>4 DEF Place, Between, EmptyInCallback
  <2> QED BY <1>1, <2>1, <2>3, <2>5 DEF PlaceInv
<1>5. CASE TopicComplete(topicGot + 1)
  <2>1. rxLength' = rxLength - topicLen /\ topicGot + 1 = Cur.topic
    BY <1>3, <1>5 DEF RxTopic, TopicComplete
  <2>2. CASE rxQos > 0
    <3>1. rxState' = "READ_PUBLISH_PACKET_ID" /\ pc' = pc
      BY <1>5, <2>2 DEF RxTopic
    <3>2. rxIndex = 0
      BY <1>2 DEF TopicPlace
    <3>3. /\ off' = off + 1 /\ taken' < Len(sent') /\ Cur' = Cur
          /\ off' > 0 /\ off' = HeaderSize(Cur) + 2 + Cur.topic
          /\ rxLength' = 2 + Cur.payload /\ Cur.qos > 0
      <4>1. off + 1 # Size(Cur)
        BY <1>3, <1>6, <2>1, <2>2
      <4>2. off' = off + 1 /\ taken' < Len(sent') /\ Cur' = Cur
        BY <1>1, <4>1, AdvanceCur
      <4>3. off' > 0 /\ off' = HeaderSize(Cur) + 2 + Cur.topic
        <5>1. off' = off + 1 /\ off = HeaderSize(Cur) + 2 + topicGot
          BY <1>3, <4>2
        <5>2. topicGot + 1 = Cur.topic /\ topicGot \in Nat /\ HeaderSize(Cur) \in 2..4
          BY <1>3, <1>6, <2>1
        <5> QED BY <5>1, <5>2
      <4>4. rxLength' = 2 + Cur.payload
        BY <1>3, <1>6, <2>1, <2>2
      <4>5. Cur.qos > 0
        BY <1>3, <2>2
      <4> QED BY <4>2, <4>3, <4>4, <4>5
    <3>4. IdPlace(Cur)'
      BY <1>1, <1>2, <1>3, <2>1, <3>2, <3>3, PublishSizes DEF IdPlace
    <3>5. Place(Cur)' /\ ~Between'
      BY <3>1, <3>4 DEF Place, Between, EmptyInCallback
    <3> QED BY <1>1, <3>1, <3>3, <3>5 DEF PlaceInv
  <2>3. CASE ~(rxQos > 0)
    <3>1. rxState' = "READ_PUBLISH_PAYLOAD" /\ (HasCallback => pc' = "callback")
      BY <1>5, <2>3 DEF RxTopic, Announce
    <3>2. rxLength' = Cur.payload /\ off + 1 = Size(Cur) - Cur.payload
      BY <1>3, <1>6, <2>1, <2>3
    <3>3. Announcing(Cur)
      BY <1>1, <1>3, <2>1, <3>2 DEF Announcing
    <3> QED BY <1>1, <1>2, <1>3, <3>1, <3>2, <3>3, AnnouncePlace
  <2> QED BY <2>2, <2>3
<1> QED BY <1>4, <1>5

\* The packet identifier: with its second byte the message is announced.
LEMMA PacketIdPlace ==
  ASSUME TypeOK, PlaceInv, RxPacketId
  PROVE  /\ PlaceInv' \/ Shifted'
         /\ rxState' = "READ_PUBLISH_PAYLOAD" => Announcing(Cur) /\ rxPid' = Cur.pid
<1>1. /\ HasByte /\ Advance /\ pc = "poll" /\ rxState = "READ_PUBLISH_PACKET_ID"
      /\ rxIndex' = rxIndex + 1 /\ UNCHANGED <<topicGot, rxQos>>
  BY DEF RxPacketId, InPoll
<1>2. WellFormed(Cur) /\ IdPlace(Cur)
  BY <1>1, PlaceCases DEF Between, EmptyInCallback, Place
<1>3. /\ Cur.type = PUBLISH /\ rxQos = Cur.qos /\ Cur.qos > 0
      /\ topicGot = Cur.topic /\ rxLength = 2 + Cur.payload
      /\ rxIndex \in 0..1 /\ off = HeaderSize(Cur) + 2 + Cur.topic + rxIndex
  BY <1>2 DEF IdPlace
<1>4. /\ HeaderSize(Cur) \in 2..4 /\ Cur.topic \in Nat /\ Cur.payload \in Nat
      /\ Size(Cur) = HeaderSize(Cur) + 4 + Cur.topic + Cur.payload
  <2>1. /\ Cur.topic \in Nat /\ Cur.payload \in Nat
        /\ Rem(Cur) = 2 + Cur.topic + (IF Cur.qos > 0 THEN 2 ELSE 0) + Cur.payload
        /\ HeaderSize(Cur) \in 2..4 /\ Size(Cur) = HeaderSize(Cur) + Rem(Cur)
    BY <1>2, <1>3, PublishSizes
  <2> QED BY <1>3, <2>1
<1>5. CASE rxIndex = 0
  <2>1. UNCHANGED <<rxState, rxLength, pc>> /\ rxBuf' = [rxBuf EXCEPT ![0] = Byte]
    BY <1>5 DEF RxPacketId
  <2>2. off + 1 # Size(Cur) /\ off + 1 = HeaderSize(Cur) + 3 + Cur.topic
    BY <1>3, <1>4, <1>5
  <2>3. off' = off + 1 /\ taken' < Len(sent') /\ Cur' = Cur
    BY <1>1, <2>2, AdvanceCur
  <2>4. Byte = High(Cur.pid)
    BY <1>2, <1>3, <2>2, PublishBytes DEF Byte
  <2>5. rxBuf'[0] = High(Cur.pid)
    BY <2>1, <2>4 DEF TypeOK
  <2>6. off' = HeaderSize(Cur) + 2 + Cur.topic + rxIndex' /\ off' > 0
    BY <1>1, <1>3, <1>4, <1>5, <2>3
  <2>7. IdPlace(Cur)'
    BY <1>1, <1>3, <1>5, <2>1, <2>3, <2>5, <2>6 DEF IdPlace
  <2>8. Place(Cur)' /\ ~Between'
    BY <1>1, <2>1, <2>7 DEF Place, Between, EmptyInCallback
  <2> QED BY <1>1, <2>1, <2>3, <2>6, <2>8 DEF PlaceInv
<1>6. CASE rxIndex # 0
  <2>1. /\ rxState' = "READ_PUBLISH_PAYLOAD" /\ rxLength' = rxLength - 2
        /\ HasCallback => pc' = "callback"
    BY <1>6 DEF RxPacketId, Announce
  <2>2. rxLength' = Cur.payload /\ off + 1 = Size(Cur) - Cur.payload
    BY <1>3, <1>4, <1>6, <2>1
  <2>3. Announcing(Cur)
    BY <1>1, <1>3, <2>2 DEF Announcing
  <2>4. rxPid' = Cur.pid
    <3>1. Byte = Low(Cur.pid) /\ rxBuf[0] = High(Cur.pid)
      <4>1. rxIndex = 1 /\ off + 1 = HeaderSize(Cur) + 4 + Cur.topic
        BY <1>3, <1>4, <1>6
      <4> QED BY <1>2, <1>3, <4>1, PublishBytes DEF IdPlace, Byte
    <3>2. rxPid' = Word([rxBuf EXCEPT ![1] = Byte])
      BY <1>3, <1>6 DEF RxPacketId, Word
    <3>3. rxPid' = 256 * rxBuf[0] + Byte
      BY <3>2 DEF Word, TypeOK
    <3> QED BY <1>2, <1>3, <3>1, <3>3, WordBytes, PublishSizes
  <2> QED BY <1>1, <1>2, <1>3, <2>1, <2>2, <2>3, <2>4, AnnouncePlace
<1> QED BY <1>5, <1>6

\* A byte of the payload, dropped by poll() or read by the application.
LEMMA PayloadByte ==
  ASSUME TypeOK, PlaceInv, HasByte, Advance, ~Between,
         rxState \in {"READ_PUBLISH_PAYLOAD", "DISCARD_PUBLISH_PAYLOAD"},
         rxLength' = rxLength - 1, pc' = pc,
         rxLength' = 0 => rxState' = "READ_TYPE",
         rxLength' # 0 => rxState' \in {rxState, "DISCARD_PUBLISH_PAYLOAD"},
         pc = "callback" => rxState' # "DISCARD_PUBLISH_PAYLOAD"
  PROVE  PlaceInv'
<1>1. WellFormed(Cur) /\ PayloadPlace(Cur)
  BY PlaceCases DEF Place
<1>2. Cur.type = PUBLISH /\ rxLength > 0 /\ off = Size(Cur) - rxLength
  BY <1>1 DEF PayloadPlace
<1>3. Size(Cur) \in Nat /\ rxLength \in Nat /\ off \in Nat
  BY <1>1, Sizes DEF TypeOK
<1>4. CASE rxLength' = 0
  <2>1. off' = 0
    BY <1>2, <1>3, <1>4, AdvanceCur
  <2>2. rxState' = "READ_TYPE" /\ Between'
    BY <1>4 DEF Between
  <2> QED BY <1>4, <2>1, <2>2 DEF PlaceInv
<1>5. CASE rxLength' # 0
  <2>1. off' = off + 1 /\ taken' < Len(sent') /\ Cur' = Cur
    BY <1>2, <1>3, <1>5, AdvanceCur
  <2>2. off' > 0 /\ off' = Size(Cur) - rxLength' /\ rxLength' > 0
    BY <1>2, <1>3, <1>5, <2>1
  <2>3. PayloadPlace(Cur)'
    BY <1>2, <2>1, <2>2 DEF PayloadPlace
  <2>4. rxState' \in {"READ_PUBLISH_PAYLOAD", "DISCARD_PUBLISH_PAYLOAD"}
    BY <1>5
  <2>5. Place(Cur)' /\ ~Between'
    BY <2>2, <2>3, <2>4 DEF Place, Between, EmptyInCallback
  <2> QED BY <2>1, <2>2, <2>4, <2>5 DEF PlaceInv
<1> QED BY <1>4, <1>5

\* poll() drops a byte of the payload.
LEMMA DropPlace ==
  ASSUME TypeOK, PlaceInv, RxPayload
  PROVE  PlaceInv'
<1>1. /\ HasByte /\ Advance /\ pc = "poll" /\ pc' = pc
      /\ rxState \in {"READ_PUBLISH_PAYLOAD", "DISCARD_PUBLISH_PAYLOAD"}
      /\ rxLength' = IF rxLength > 0 THEN rxLength - 1 ELSE 0
      /\ rxState' = IF rxLength' = 0 THEN "READ_TYPE" ELSE "DISCARD_PUBLISH_PAYLOAD"
  BY DEF RxPayload, InPoll
<1>2. ~Between
  BY <1>1 DEF Between, EmptyInCallback
<1>3. rxLength > 0
  BY <1>1, <1>2, PlaceCases DEF Place, PayloadPlace
<1> QED BY <1>1, <1>2, <1>3, PayloadByte

\* The application reads a byte of the payload.
LEMMA ReadPlace ==
  ASSUME TypeOK, PlaceInv, AppReads
  PROVE  PlaceInv'
<1>1. /\ HasByte /\ Advance /\ pc' = pc /\ rxState = "READ_PUBLISH_PAYLOAD"
      /\ rxLength > 0 /\ rxLength' = rxLength - 1
      /\ IF rxLength' = 0 THEN rxState' = "READ_TYPE" ELSE rxState' = rxState
  BY DEF AppReads, NoPayload
<1>2. ~Between
  BY <1>1 DEF Between, EmptyInCallback
<1> QED BY <1>1, <1>2, PayloadByte

\* The callback returns, the payload used up or not.
LEMMA CallbackPlace ==
  ASSUME TypeOK, PlaceInv, CallbackReturns
  PROVE  PlaceInv'
<1>1. /\ pc = "callback" /\ pc' # "callback"
      /\ IF rxLength = 0 THEN rxState' = "READ_TYPE" ELSE rxState' = rxState
      /\ UNCHANGED <<sent, taken, off, rxLength, rxIndex, hdrVars, pubVars>>
  BY DEF CallbackReturns, NoPayload
<1>2. CASE rxLength = 0
  <2>1. Between
    BY <1>1, <1>2 DEF PlaceInv, Between, EmptyInCallback
  <2>2. off = 0
    BY <2>1 DEF PlaceInv
  <2> QED BY <1>1, <1>2, <2>2 DEF PlaceInv, Between
<1>3. CASE rxLength # 0
  <2>1. rxState = "READ_PUBLISH_PAYLOAD" /\ ~Between
    BY <1>1, <1>3 DEF PlaceInv, Between, EmptyInCallback
  <2>2. taken < Len(sent) /\ off > 0 /\ PayloadPlace(Cur)
    BY <2>1 DEF PlaceInv, Place
  <2>3. Cur' = Cur /\ taken' < Len(sent') /\ off' > 0
    BY <1>1, <2>2 DEF Cur
  <2>4. PayloadPlace(Cur)'
    BY <1>1, <2>2, <2>3 DEF PayloadPlace
  <2>5. Place(Cur)' /\ ~Between'
    BY <1>1, <1>3, <2>1, <2>4 DEF Place, Between, EmptyInCallback
  <2> QED BY <1>1, <2>3, <2>5 DEF PlaceInv
<1> QED BY <1>2, <1>3

\* poll() begins: on a dead connection the receiver starts over.
LEMMA PollPlace ==
  ASSUME TypeOK, PlaceInv, NEW discard \in BOOLEAN, PollBegins(discard)
  PROVE  PlaceInv'
<1>1. /\ pc = "out" /\ pc' = "poll"
      /\ UNCHANGED <<sent, taken, rxLength, rxIndex, hdrVars, pubVars>>
  BY DEF PollBegins
<1>2. CASE link
  <2>1. off' = off /\ rxState' = IF discard /\ rxState = "READ_PUBLISH_PAYLOAD"
                                 THEN "DISCARD_PUBLISH_PAYLOAD" ELSE rxState
    BY <1>2 DEF PollBegins
  <2>2. Between' <=> Between
    BY <1>1, <2>1 DEF Between, EmptyInCallback
  <2>3. CASE Between
    BY <1>1, <2>1, <2>2, <2>3 DEF PlaceInv
  <2>4. CASE ~Between
    <3>1. taken < Len(sent) /\ off > 0 /\ Place(Cur)
      BY <2>4 DEF PlaceInv
    <3>2. Cur' = Cur /\ taken' < Len(sent') /\ off' > 0
      BY <1>1, <2>1, <3>1 DEF Cur
    <3>3. Place(Cur)'
      BY <1>1, <2>1, <3>1, <3>2 DEF Place, LengthPlace, HeaderPlace, TopicLengthPlace,
         TopicPlace, IdPlace, PayloadPlace, hdrVars, pubVars
    <3> QED BY <1>1, <2>2, <2>4, <3>2, <3>3 DEF PlaceInv
  <2> QED BY <2>3, <2>4
<1>3. CASE ~link
  <2>1. off' = 0 /\ rxState' = "READ_TYPE"
    BY <1>3 DEF PollBegins
  <2> QED BY <1>1, <2>1 DEF PlaceInv, Between
<1> QED BY <1>2, <1>3

-----------------------------------------------------------------------------
(* The invariant, and what it gives.                                       *)

\* Every step keeps the place, or reads an empty message without a callback.
LEMMA PlaceMoves ==
  TypeInv /\ PlaceInv /\ [Next]_vars => PlaceInv' \/ Shifted'
<1> SUFFICES ASSUME TypeInv, PlaceInv, [Next]_vars PROVE PlaceInv' \/ Shifted'
  OBVIOUS
<1>0. TypeOK
  BY TypeParts DEF TypeInv
<1>1. CASE \E discard \in BOOLEAN : PollBegins(discard)
  BY <1>0, <1>1, PollPlace
<1>2. CASE RxType \/ RxLengthByte \/ RxMalformed \/ RxVariableHeader
  BY <1>0, <1>2, TypePlace, LengthBytePlace, NotMalformed, VariableHeaderPlace
<1>3. CASE RxTopicLength \/ RxBadTopic \/ RxTopic \/ RxPacketId \/ RxPayload
  BY <1>0, <1>3, TopicLengthStep, NotBadTopic, TopicStep, PacketIdPlace, DropPlace
<1>4. CASE AppReads \/ CallbackReturns
  BY <1>0, <1>4, ReadPlace, CallbackPlace
<1>5. CASE PollEnds \/ KeepAliveCheck \/ LinkDrops \/ Accepted \/ GiveUp
  <2>1. UNCHANGED <<sent, taken, off, rxVars>>
    BY <1>5 DEF PollEnds, KeepAliveCheck, LinkDrops, Accepted, GiveUp, netVars
  <2>2. pc' = pc \/ (pc # "callback" /\ pc' # "callback")
    BY <1>5 DEF PollEnds, KeepAliveCheck, LinkDrops, Accepted, GiveUp
  <2> QED BY <1>0, <2>1, <2>2, PlaceKept
<1>6. CASE \E type \in Requests : Request(type)
  <2>1. UNCHANGED <<sent, taken, off, rxVars, pc>>
    BY <1>6 DEF Request
  <2> QED BY <1>0, <2>1, PlaceKept
<1>7. CASE BrokerReads \/ \E p \in Packets : BrokerSends(p)
  <2>1. sent' = sent \/ \E p \in Packets : sent' = Append(sent, p)
    BY <1>7 DEF BrokerReads, BrokerSends, BrokerWrites
  <2>2. UNCHANGED <<taken, off, rxVars, pc>>
    BY <1>7 DEF BrokerReads, BrokerSends
  <2> QED BY <1>0, <2>1, <2>2, PlaceKept
<1>8. CASE Reconnect
  BY <1>8 DEF Reconnect, PlaceInv, Between
<1>9. CASE UNCHANGED vars
  <2>1. UNCHANGED <<sent, taken, off, rxVars, pc>>
    BY <1>9 DEF vars, netVars
  <2> QED BY <1>0, <2>1, PlaceKept
<1> QED BY <1>1, <1>2, <1>3, <1>4, <1>5, <1>6, <1>7, <1>8, <1>9
        DEF Next, Poll, Environment, Caller

LEMMA PlaceInit == Init => PlaceInv
BY DEF Init, PlaceInv, Between, EmptyInCallback

\* What has been read stays read, until connect() starts over.
LEMMA ShiftedStays ==
  TypeInv /\ Shifted /\ [Next]_vars => PlaceInv' \/ Shifted'
<1> SUFFICES ASSUME TypeInv, Shifted, [Next]_vars PROVE PlaceInv' \/ Shifted'
  OBVIOUS
<1>0. TypeOK
  BY TypeParts DEF TypeInv
<1>1. CASE Reconnect
  BY <1>1 DEF Reconnect, PlaceInv, Between
<1>2. CASE ~Reconnect
  <2> USE DEF netVars, vars
  <2>1. sent' = sent \/ \E p \in Packets : sent' = Append(sent, p)
    <3>1. CASE Poll \/ UNCHANGED vars
      BY <3>1 DEF Poll, PollEnds, RxType, RxLengthByte, RxMalformed, RxVariableHeader,
         RxTopicLength, RxBadTopic, RxTopic, RxPacketId, RxPayload, KeepAliveCheck,
         CallbackReturns, InPoll, Advance
    <3>2. CASE Environment
      BY <3>2 DEF Environment, BrokerReads, BrokerSends, BrokerWrites, LinkDrops
    <3>3. CASE Caller
      BY <1>2, <3>3 DEF Caller, PollBegins, AppReads, Advance, Accepted, GiveUp, Request
    <3> QED BY <3>1, <3>2, <3>3 DEF Next
  <2>2. taken' \in {taken, taken + 1}
    <3>1. CASE Poll \/ UNCHANGED vars
      BY <3>1 DEF Poll, PollEnds, RxType, RxLengthByte, RxMalformed, RxVariableHeader,
         RxTopicLength, RxBadTopic, RxTopic, RxPacketId, RxPayload, KeepAliveCheck,
         CallbackReturns, InPoll, Advance
    <3>2. CASE Environment
      BY <3>2 DEF Environment, BrokerReads, BrokerSends, LinkDrops
    <3>3. CASE Caller
      BY <1>2, <3>3 DEF Caller, PollBegins, AppReads, Advance, Accepted, GiveUp, Request
    <3> QED BY <3>1, <3>2, <3>3 DEF Next
  <2>3. PICK k \in 1..taken : sent[k].type = PUBLISH /\ sent[k].payload = 0
    BY DEF Shifted, EmptyRead
  <2>4. sent \in Seq(Packets) /\ taken \in 0..Len(sent)
    BY <1>0 DEF TypeOK
  <2>5. k \in 1..Len(sent) /\ k \in 1..taken'
    BY <2>2, <2>4
  <2>6. sent'[k] = sent[k]
    BY <2>1, <2>4, <2>5
  <2> QED BY <2>3, <2>5, <2>6 DEF Shifted, EmptyRead
<1> QED BY <1>1, <1>2

LEMMA PlaceOrShifted == Spec => [](TypeInv /\ (PlaceInv \/ Shifted))
<1>1. TypeInv /\ (PlaceInv \/ Shifted) /\ [Next]_vars => (PlaceInv \/ Shifted)'
  BY PlaceMoves, ShiftedStays
<1> QED BY <1>1, PlaceInit, TypeInvariant, PTL DEF Spec

\* For every caller, with a callback or without: the receiver is out of step with
\* the packets on the connection only when it has read an empty message.
THEOREM ShiftedByEmptyOnly == Spec => []ShiftedByEmptyMessage
<1>1. PlaceInv => Framing
  BY DEF PlaceInv, Framing, Between, EmptyInCallback
<1>2. PlaceInv \/ Shifted => ShiftedByEmptyMessage
  BY <1>1 DEF Shifted, EmptyRead, ShiftedByEmptyMessage
<1> QED BY <1>2, PlaceOrShifted, PTL

\* The application takes its messages in a callback, or none of them is empty.
NothingShifts ==
  HasCallback \/ \A p \in Packets : p.type = PUBLISH => p.payload # 0

\* Every step keeps the place.
LEMMA PlaceStep ==
  ASSUME NothingShifts PROVE TypeInv /\ PlaceInv /\ [Next]_vars => PlaceInv'
<1> SUFFICES ASSUME TypeInv, PlaceInv, [Next]_vars PROVE PlaceInv'
  OBVIOUS
<1>1. TypeInv'
  BY TypeStep
<1>2. ~Shifted'
  <2>1. sent' \in Seq(Packets) /\ taken' \in 0..Len(sent')
    BY <1>1 DEF TypeInv, Types, NetTypes
  <2>2. \A k \in 1..taken' : sent'[k] \in Packets
    BY <2>1
  <2> QED BY <2>2 DEF NothingShifts, Shifted, EmptyRead
<1> QED BY <1>2, PlaceMoves

\* So it is kept in every behaviour.
LEMMA PlaceInvariant == ASSUME NothingShifts PROVE Spec => [](TypeInv /\ PlaceInv)
<1>1. TypeInv /\ PlaceInv /\ [Next]_vars => PlaceInv'
  BY PlaceStep
<1> QED BY <1>1, PlaceInit, TypeInvariant, PTL DEF Spec

\* With a callback, or where no message is empty, the receiver waits for the first
\* byte of a packet exactly when the unread bytes begin with one: poll(), read()
\* and the discarding of a payload together take each packet's bytes, and no byte
\* of the next.
THEOREM KeepsItsPlace == ASSUME NothingShifts PROVE Spec => []Framing
<1>1. PlaceInv => Framing
  BY DEF PlaceInv, Framing, Between, EmptyInCallback
<1> QED BY <1>1, PlaceInvariant, PTL

\* Then poll() never gives the connection up over a packet a broker may write:
\* none of its early returns after stop() is taken.
THEOREM TakesEveryPacket == ASSUME NothingShifts PROVE Spec => NeverMalformed
<1>1. TypeInv /\ PlaceInv /\ [Next]_vars => [pc = "poll" => pc' # "out"]_vars
  <2> SUFFICES ASSUME TypeInv, PlaceInv, Next, pc = "poll" PROVE pc' # "out"
    BY DEF vars
  <2>1. ~RxMalformed /\ ~RxBadTopic
    BY TypeParts, NotMalformed, NotBadTopic DEF TypeInv
  <2> QED BY <2>1 DEF Next, Poll, Environment, Caller, PollBegins, RxType, RxLengthByte,
          RxVariableHeader, RxTopicLength, RxTopic, RxPacketId, RxPayload, PollEnds,
          KeepAliveCheck, AppReads, CallbackReturns, BrokerReads, BrokerSends, LinkDrops,
          Reconnect, Accepted, GiveUp, Request
<1> QED BY <1>1, PlaceInvariant, PTL DEF Spec, NeverMalformed

-----------------------------------------------------------------------------
(* What the application is told of, and what is acknowledged.                *)

\* The packet being read has been announced and is not used up.
Announced ==
  rxState \in {"READ_PUBLISH_PAYLOAD", "DISCARD_PUBLISH_PAYLOAD"} /\ rxLength > 0

\* The application has a message it may read, or has just read.
InHand == pc = "callback" \/ rxState = "READ_PUBLISH_PAYLOAD"

Last == delivered[Len(delivered)]

HandIsLast ==
  /\ delivered # <<>>
  /\ rxQos = sent[Last.at].qos
  /\ rxQos > 0 => rxPid = sent[Last.at].pid

DeliveredInv ==
  /\ \A i \in DOMAIN delivered : Faithful(delivered[i]) /\ delivered[i].at <= taken + 1
  /\ \A i, j \in DOMAIN delivered : i < j => delivered[i].at < delivered[j].at
  /\ \A k \in 1..taken : sent[k].type = PUBLISH =>
        \E i \in DOMAIN delivered : delivered[i].at = k
  /\ link /\ ~Announced => \A i \in DOMAIN delivered : delivered[i].at <= taken
  /\ Announced => \E i \in DOMAIN delivered : delivered[i].at = taken + 1
  /\ InHand => HandIsLast

\* What the broker writes next changes no packet it has written.
LEMMA SentGrows ==
  ASSUME TypeOK, sent' = sent \/ \E p \in Packets : sent' = Append(sent, p)
  PROVE  /\ \A k \in DOMAIN sent : k \in DOMAIN sent' /\ sent'[k] = sent[k]
         /\ \A k \in 1..taken : k \in DOMAIN sent
<1>1. sent \in Seq(Packets) /\ taken \in 0..Len(sent)
  BY DEF TypeOK
<1> QED BY <1>1

\* Where a message stands in the stream.
LEMMA MessageAt ==
  ASSUME TypeOK
  PROVE  \A i \in DOMAIN delivered : delivered[i].at \in Nat
<1>1. \A i \in DOMAIN delivered : delivered[i] \in Message
  BY DEF TypeOK
<1>2. \A m \in Message : m.at \in Nat
  BY DEF Message
<1> QED BY <1>1, <1>2

\* A step that announces nothing and finishes no packet.
LEMMA DeliveredKept ==
  ASSUME TypeOK, DeliveredInv, UNCHANGED <<taken, delivered>>,
         sent' = sent \/ \E p \in Packets : sent' = Append(sent, p),
         Announced' => Announced,
         link' => link /\ (Announced => Announced'),
         InHand' => InHand /\ UNCHANGED <<rxQos, rxPid>>
  PROVE  DeliveredInv'
<1>0. \A i \in DOMAIN delivered : Faithful(delivered[i])
  BY DEF DeliveredInv
<1>1. \A i \in DOMAIN delivered : Faithful(delivered[i])'
  <2>1. \A e : Faithful(e) => Faithful(e)'
    BY SentGrows DEF Faithful
  <2> QED BY <1>0, <2>1
<1>2. /\ \A i \in DOMAIN delivered : delivered[i].at <= taken + 1
      /\ \A i, j \in DOMAIN delivered : i < j => delivered[i].at < delivered[j].at
  BY DEF DeliveredInv
<1>3. \A k \in 1..taken : sent'[k].type = PUBLISH =>
         \E i \in DOMAIN delivered : delivered[i].at = k
  BY SentGrows DEF DeliveredInv
<1>4. link' /\ ~Announced' => \A i \in DOMAIN delivered : delivered[i].at <= taken
  BY DEF DeliveredInv
<1>5. Announced' => \E i \in DOMAIN delivered : delivered[i].at = taken + 1
  BY DEF DeliveredInv
<1>6. InHand' => HandIsLast'
  <2> SUFFICES ASSUME InHand' PROVE HandIsLast'
    OBVIOUS
  <2>1. HandIsLast /\ UNCHANGED <<rxQos, rxPid, delivered>>
    BY DEF DeliveredInv
  <2>2. Len(delivered) \in DOMAIN delivered
    BY <2>1 DEF HandIsLast, TypeOK
  <2>3. Last.at \in DOMAIN sent /\ Last' = Last
    BY <1>0, <2>1, <2>2 DEF Last, Faithful
  <2> QED BY <2>1, <2>3, SentGrows DEF HandIsLast
<1> QED BY <1>1, <1>2, <1>3, <1>4, <1>5, <1>6 DEF DeliveredInv

\* The last byte of a packet, which was announced if it is a PUBLISH.
LEMMA DeliveredEnds ==
  ASSUME TypeOK, DeliveredInv, HasByte, taken' = taken + 1, UNCHANGED <<sent, delivered>>,
         ~Announced', Cur.type = PUBLISH => Announced,
         InHand' => InHand /\ UNCHANGED <<rxQos, rxPid>>
  PROVE  DeliveredInv'
<1>1. /\ \A i \in DOMAIN delivered : Faithful(delivered[i]) /\ delivered[i].at <= taken + 1
      /\ \A i, j \in DOMAIN delivered : i < j => delivered[i].at < delivered[j].at
      /\ \A k \in 1..taken : sent[k].type = PUBLISH =>
            \E i \in DOMAIN delivered : delivered[i].at = k
      /\ Announced => \E i \in DOMAIN delivered : delivered[i].at = taken + 1
      /\ InHand => HandIsLast
  BY DEF DeliveredInv
<1>2. taken \in Nat
  BY DEF TypeOK
<1>3. \A i \in DOMAIN delivered : Faithful(delivered[i])'
  BY <1>1 DEF Faithful
<1>4. \A i \in DOMAIN delivered : delivered[i].at \in Nat
  BY MessageAt
<1>5. \A k \in 1..(taken + 1) : sent[k].type = PUBLISH =>
         \E i \in DOMAIN delivered : delivered[i].at = k
  <2> TAKE k \in 1..(taken + 1)
  <2>1. CASE k = taken + 1
    BY <1>1, <2>1 DEF Cur
  <2>2. CASE k # taken + 1
    <3>1. k \in 1..taken
      BY <1>2, <2>2
    <3> QED BY <1>1, <3>1
  <2> QED BY <2>1, <2>2
<1>6. InHand' => HandIsLast'
  BY <1>1 DEF HandIsLast, Last
<1>7. \A i \in DOMAIN delivered : delivered[i].at <= taken' + 1 /\ delivered[i].at <= taken'
  BY <1>1, <1>2, <1>4
<1> QED BY <1>1, <1>3, <1>5, <1>6, <1>7 DEF DeliveredInv

\* A message is announced, and its packet may end with that.
LEMMA DeliveredMore ==
  ASSUME TypeOK, DeliveredInv, HasByte, sent' = sent, ~Announced, Cur.type = PUBLISH,
         NEW d \in Message, d.at = taken + 1, Faithful(d),
         delivered' = Append(delivered, d),
         Announced' => taken' = taken,
         ~Announced' => taken' = taken + 1,
         rxQos' = Cur.qos, rxQos' > 0 => rxPid' = Cur.pid
  PROVE  DeliveredInv'
<1>1. /\ \A i \in DOMAIN delivered : Faithful(delivered[i]) /\ delivered[i].at <= taken
      /\ \A i, j \in DOMAIN delivered : i < j => delivered[i].at < delivered[j].at
      /\ \A k \in 1..taken : sent[k].type = PUBLISH =>
            \E i \in DOMAIN delivered : delivered[i].at = k
  BY DEF DeliveredInv, HasByte
<1>2. taken \in Nat /\ delivered \in Seq(Message) /\ taken' \in {taken, taken + 1}
  BY DEF TypeOK
<1> DEFINE n == Len(delivered)
<1>3. /\ n \in Nat /\ DOMAIN delivered = 1..n
      /\ DOMAIN delivered' = 1..(n + 1) /\ Len(delivered') = n + 1
      /\ \A i \in 1..n : delivered'[i] = delivered[i]
      /\ delivered'[n + 1] = d
  BY <1>2
<1> HIDE DEF n
<1>4. \A i \in 1..(n + 1) : i \in 1..n \/ i = n + 1
  BY <1>3
<1>5. \A i \in 1..n : delivered[i].at \in Nat
  BY <1>3, MessageAt
<1>6. \A i \in 1..(n + 1) : Faithful(delivered[i])'
  <2>1. \A e : Faithful(e) => Faithful(e)'
    BY DEF Faithful
  <2> QED BY <1>1, <1>3, <1>4, <2>1
<1>7. \A i \in 1..(n + 1) : delivered'[i].at <= taken + 1
  BY <1>1, <1>2, <1>3, <1>4, <1>5
<1>8. \A i, j \in 1..(n + 1) : i < j => delivered'[i].at < delivered'[j].at
  <2> SUFFICES ASSUME NEW i \in 1..(n + 1), NEW j \in 1..(n + 1), i < j
               PROVE  delivered'[i].at < delivered'[j].at
    OBVIOUS
  <2>1. i \in 1..n
    BY <1>3
  <2>2. CASE j \in 1..n
    BY <1>1, <1>3, <2>1, <2>2
  <2>3. CASE j = n + 1
    BY <1>1, <1>2, <1>3, <1>5, <2>1, <2>3
  <2> QED BY <1>4, <2>2, <2>3
<1>9. \A k \in 1..taken' : sent[k].type = PUBLISH =>
         \E i \in 1..(n + 1) : delivered'[i].at = k
  <2> SUFFICES ASSUME NEW k \in 1..taken', sent[k].type = PUBLISH
               PROVE  \E i \in 1..(n + 1) : delivered'[i].at = k
    OBVIOUS
  <2>1. CASE k = taken + 1
    BY <1>3, <2>1
  <2>2. CASE k # taken + 1
    <3>1. k \in 1..taken
      BY <1>2, <2>2
    <3>2. PICK i \in 1..n : delivered[i].at = k
      BY <1>1, <1>3, <3>1
    <3> QED BY <1>3, <3>2
  <2> QED BY <2>1, <2>2
<1>10. ~Announced' => \A i \in 1..(n + 1) : delivered'[i].at <= taken'
  BY <1>7
<1>11. Announced' => \E i \in 1..(n + 1) : delivered'[i].at = taken' + 1
  BY <1>3
<1>12. HandIsLast'
  <2>1. delivered' # <<>>
    BY <1>3
  <2>2. Last' = d
    BY <1>3 DEF Last
  <2>3. sent'[d.at] = Cur
    BY DEF Cur
  <2> QED BY <2>1, <2>2, <2>3 DEF HandIsLast
<1>13. \A i \in 1..(n + 1) : delivered'[i].at <= taken' + 1
  <2>1. \A i \in 1..(n + 1) : delivered'[i].at \in Nat
    BY <1>3, <1>4, <1>5, <1>2
  <2>2. CASE taken' = taken
    BY <1>2, <1>7, <2>1, <2>2
  <2>3. CASE taken' = taken + 1
    <3>1. \A a \in Nat : a <= taken + 1 => a <= taken + 1 + 1
      BY <1>2
    <3> QED BY <1>7, <2>1, <2>3, <3>1
  <2> QED BY <1>2, <2>2, <2>3
<1> QED BY <1>3, <1>6, <1>8, <1>9, <1>10, <1>11, <1>12, <1>13 DEF DeliveredInv

-----------------------------------------------------------------------------
(* The steps of poll() and the application.                                *)

\* When a byte was the last of its packet the receiver is between packets.
LEMMA LastByte ==
  ASSUME TypeOK, HasByte, Advance, PlaceInv'
  PROVE  /\ ~Between' => taken' = taken
         /\ Between' => taken' = taken + 1
         /\ sent' = sent /\ link
<1>1. off \in Nat /\ off + 1 # 0
  BY DEF TypeOK
<1>2. Between' => off' = 0
  BY DEF PlaceInv
<1>3. ~Between' => off' > 0
  BY DEF PlaceInv
<1> QED BY <1>1, <1>2, <1>3, AdvanceCur

\* The bytes before a message is announced, and those of the other packets.
LEMMA DeliveredHeader ==
  ASSUME TypeOK, DeliveredInv, PlaceInv', HasByte, Advance, delivered' = delivered,
         ~Announced, ~Announced', ~InHand',
         Between' => Cur.type # PUBLISH
  PROVE  DeliveredInv'
<1>1. CASE Between'
  BY <1>1, LastByte, DeliveredEnds
<1>2. CASE ~Between'
  BY <1>2, LastByte, DeliveredKept
<1> QED BY <1>1, <1>2

\* A payload byte, read or dropped.
LEMMA DeliveredPayload ==
  ASSUME TypeOK, DeliveredInv, PlaceInv', HasByte, Advance, delivered' = delivered,
         Announced, Announced' <=> ~Between',
         InHand' => InHand, UNCHANGED <<rxQos, rxPid>>
  PROVE  DeliveredInv'
<1>1. CASE Between'
  BY <1>1, LastByte, DeliveredEnds
<1>2. CASE ~Between'
  BY <1>2, LastByte, DeliveredKept
<1> QED BY <1>1, <1>2

\* A message is announced.
LEMMA DeliveredNew ==
  ASSUME TypeOK, DeliveredInv, PlaceInv', rxLength' \in Nat, HasByte, Advance, ~Announced,
         rxState' = "READ_PUBLISH_PAYLOAD", Announcing(Cur), rxQos' > 0 => rxPid' = Cur.pid,
         NEW d \in Message,
         d.at = taken + 1, d.qos = rxQos', d.topic = topicGot', d.payload = rxLength',
         rxQos' > 0 => d.pid = rxPid',
         delivered' = Append(delivered, d)
  PROVE  DeliveredInv'
<1>1. Cur.type = PUBLISH /\ Cur \in Packets
  BY ByteFacts DEF Announcing
<1>2. Faithful(d)
  <2>1. taken + 1 \in DOMAIN sent
    BY ByteFacts DEF TypeOK
  <2> QED BY <2>1 DEF Faithful, Announcing, Cur
<1>3. Announced' <=> ~Between'
  BY DEF Announced, Between, EmptyInCallback, PlaceInv, Place, PayloadPlace
<1>4. /\ Announced' => taken' = taken
      /\ ~Announced' => taken' = taken + 1
      /\ sent' = sent
  BY <1>3, LastByte
<1>5. rxQos' = Cur.qos
  BY DEF Announcing
<1> QED BY <1>1, <1>2, <1>4, <1>5, DeliveredMore

\* Every step keeps the messages announced in order.
LEMMA DeliveredStep ==
  TypeInv /\ PlaceInv /\ TypeInv' /\ PlaceInv' /\ DeliveredInv /\ [Next]_vars
  => DeliveredInv'
<1> SUFFICES ASSUME TypeInv, PlaceInv, TypeInv', PlaceInv', DeliveredInv, [Next]_vars
             PROVE  DeliveredInv'
  OBVIOUS
<1> USE DEF netVars, hdrVars, pubVars, rxVars, hisVars
<1>0. TypeOK /\ rxLength' \in Nat /\ rxLength \in Nat
  BY TypeParts DEF TypeInv, Types, HdrTypes
<1>1. CASE \E discard \in BOOLEAN : PollBegins(discard)
  <2>1. /\ UNCHANGED <<taken, delivered, sent, link, rxQos, rxPid, rxLength>>
        /\ pc = "out" /\ pc' = "poll"
    BY <1>1 DEF PollBegins
  <2>2. CASE link
    <3>1. rxState' = rxState \/ (rxState = "READ_PUBLISH_PAYLOAD"
                                 /\ rxState' = "DISCARD_PUBLISH_PAYLOAD")
      BY <1>1, <2>2 DEF PollBegins
    <3> QED BY <1>0, <2>1, <3>1, DeliveredKept DEF Announced, InHand
  <2>3. CASE ~link
    <3>1. rxState' = "READ_TYPE"
      BY <1>1, <2>3 DEF PollBegins
    <3> QED BY <1>0, <2>1, <2>3, <3>1, DeliveredKept DEF Announced, InHand
  <2> QED BY <2>2, <2>3
<1>2. CASE RxType
  BY <1>0, <1>2, DeliveredHeader DEF RxType, InPoll, Announced, InHand, Between,
     EmptyInCallback
<1>3. CASE RxLengthByte
  <2>1. /\ HasByte /\ Advance /\ delivered' = delivered /\ pc = "poll" /\ pc' = pc
        /\ rxState = "READ_REMAINING_LENGTH"
        /\ rxState' \in {rxState, "READ_TYPE", "READ_VARIABLE_HEADER",
                         "READ_PUBLISH_TOPIC_LENGTH"}
        /\ rxState' = "READ_TYPE" => rxType # PUBLISH
    BY <1>3 DEF RxLengthByte, InPoll
  <2>2. rxType = Cur.type
    BY <1>0, <2>1, PlaceCases DEF Between, EmptyInCallback, Place, LengthPlace
  <2>3. ~Announced /\ ~Announced' /\ ~InHand'
    BY <2>1 DEF Announced, InHand
  <2>4. Between' => Cur.type # PUBLISH
    BY <2>1, <2>2 DEF Between, EmptyInCallback
  <2> QED BY <1>0, <2>1, <2>3, <2>4, DeliveredHeader
<1>4. CASE RxVariableHeader
  <2>1. /\ HasByte /\ Advance /\ delivered' = delivered /\ pc = "poll" /\ pc' = pc
        /\ rxState = "READ_VARIABLE_HEADER"
        /\ rxState' \in {rxState, "READ_TYPE"}
    BY <1>4 DEF RxVariableHeader, InPoll
  <2>2. Cur.type # PUBLISH
    BY <1>0, <2>1, PlaceCases DEF Between, EmptyInCallback, Place, HeaderPlace
  <2>3. ~Announced /\ ~Announced' /\ ~InHand'
    BY <2>1 DEF Announced, InHand
  <2> QED BY <1>0, <2>1, <2>2, <2>3, DeliveredHeader
<1>5. CASE RxTopicLength
  <2>1. /\ HasByte /\ Advance /\ delivered' = delivered /\ pc = "poll" /\ pc' = pc
        /\ rxState = "READ_PUBLISH_TOPIC_LENGTH"
        /\ rxState' \in {rxState, "READ_PUBLISH_TOPIC"}
    BY <1>5 DEF RxTopicLength, InPoll
  <2>2. ~Announced /\ ~Announced' /\ ~InHand' /\ ~Between'
    BY <2>1 DEF Announced, InHand, Between, EmptyInCallback
  <2> QED BY <1>0, <2>1, <2>2, DeliveredHeader
<1>6. CASE RxTopic
  <2>1. /\ HasByte /\ Advance /\ pc = "poll" /\ rxState = "READ_PUBLISH_TOPIC"
        /\ rxQos' = rxQos
    BY <1>6 DEF RxTopic, InPoll
  <2>2. ~Announced
    BY <2>1 DEF Announced
  <2>3. CASE ~TopicComplete(topicGot + 1) \/ rxQos > 0
    <3>1. /\ delivered' = delivered /\ pc' = pc
          /\ rxState' \in {rxState, "READ_PUBLISH_PACKET_ID"}
      BY <1>6, <2>3 DEF RxTopic
    <3>2. ~Announced' /\ ~InHand' /\ ~Between'
      BY <2>1, <3>1 DEF Announced, InHand, Between, EmptyInCallback
    <3> QED BY <1>0, <2>1, <2>2, <3>1, <3>2, DeliveredHeader
  <2>4. CASE TopicComplete(topicGot + 1) /\ ~(rxQos > 0)
    <3> DEFINE d == [at |-> taken + 1, qos |-> 0, pid |-> 0, topic |-> topicGot',
                     payload |-> rxLength']
    <3>1. /\ rxState' = "READ_PUBLISH_PAYLOAD"
          /\ delivered' = Append(delivered, d)
      BY <1>6, <2>4 DEF RxTopic, Announce
    <3>2. Announcing(Cur)
      BY <1>0, <1>6, <3>1, TopicStep
    <3>3. rxQos' = 0
      BY <1>0, <2>1, <2>4 DEF TypeOK
    <3>4. d \in Message
      <4>1. taken + 1 \in Nat /\ topicGot' \in Nat /\ 0 \in Words
        BY <1>0, ClientTypeFacts DEF TypeInv, Types, NetTypes, PubTypes
      <4> QED BY <1>0, <4>1 DEF Message
    <3> HIDE DEF d
    <3>5. d.at = taken + 1 /\ d.qos = rxQos' /\ d.topic = topicGot' /\ d.payload = rxLength'
      BY <3>3 DEF d
    <3> QED BY <1>0, <2>1, <2>2, <3>1, <3>2, <3>3, <3>4, <3>5, DeliveredNew
  <2> QED BY <2>3, <2>4
<1>7. CASE RxPacketId
  <2>1. /\ HasByte /\ Advance /\ pc = "poll" /\ rxState = "READ_PUBLISH_PACKET_ID"
        /\ UNCHANGED <<rxQos, topicGot>>
    BY <1>7 DEF RxPacketId, InPoll
  <2>2. ~Announced
    BY <2>1 DEF Announced
  <2>3. CASE rxIndex = 0
    <3>1. UNCHANGED <<delivered, pc, rxState>>
      BY <1>7, <2>3 DEF RxPacketId
    <3>2. ~Announced' /\ ~InHand' /\ ~Between'
      BY <2>1, <3>1 DEF Announced, InHand, Between, EmptyInCallback
    <3> QED BY <1>0, <2>1, <2>2, <3>1, <3>2, DeliveredHeader
  <2>4. CASE rxIndex # 0
    <3> DEFINE d == [at |-> taken + 1, qos |-> rxQos, pid |-> rxPid', topic |-> topicGot,
                     payload |-> rxLength']
    <3>1. /\ rxState' = "READ_PUBLISH_PAYLOAD"
          /\ delivered' = Append(delivered, d)
      BY <1>7, <2>4 DEF RxPacketId, Announce
    <3>2. Announcing(Cur) /\ rxPid' = Cur.pid
      BY <1>0, <1>7, <3>1, PacketIdPlace
    <3>3. d \in Message
      <4>1. taken + 1 \in Nat /\ topicGot \in Nat /\ rxPid' \in Words /\ rxQos \in 0..3
        BY <1>0 DEF TypeInv, Types, NetTypes, PubTypes
      <4> QED BY <1>0, <4>1 DEF Message
    <3>4. /\ d.at = taken + 1 /\ d.qos = rxQos' /\ d.topic = topicGot'
          /\ d.payload = rxLength' /\ d.pid = rxPid'
      BY <2>1 DEF d
    <3> HIDE DEF d
    <3> QED BY <1>0, <2>1, <2>2, <3>1, <3>2, <3>3, <3>4, DeliveredNew
  <2> QED BY <2>3, <2>4
<1>8. CASE RxPayload \/ AppReads
  <2>1. /\ HasByte /\ Advance /\ delivered' = delivered
        /\ rxState \in {"READ_PUBLISH_PAYLOAD", "DISCARD_PUBLISH_PAYLOAD"}
        /\ rxState' = "READ_TYPE" <=> rxLength' = 0
        /\ rxState' \in {"READ_TYPE", "DISCARD_PUBLISH_PAYLOAD", "READ_PUBLISH_PAYLOAD"}
        /\ pc' = pc /\ UNCHANGED <<rxQos, rxPid>>
        /\ InHand' => InHand
    BY <1>8 DEF RxPayload, AppReads, InPoll, NoPayload, InHand
  <2>2. ~Between
    BY <1>8, <2>1 DEF RxPayload, AppReads, InPoll, Between, EmptyInCallback
  <2>3. Announced
    BY <1>0, <2>1, <2>2, PlaceCases DEF Place, PayloadPlace, Announced
  <2>4. Announced' <=> ~Between'
    BY <1>0, <2>1 DEF Announced, Between, EmptyInCallback
  <2> QED BY <1>0, <2>1, <2>3, <2>4, DeliveredPayload
<1>9. CASE CallbackReturns
  <2>1. /\ UNCHANGED <<link, sent, taken, delivered, rxLength, rxQos, rxPid>>
        /\ pc = "callback" /\ pc' # "callback"
        /\ rxLength # 0 => rxState' = rxState
        /\ rxLength = 0 => rxState' = "READ_TYPE"
    BY <1>9 DEF CallbackReturns, NoPayload
  <2>2. (Announced' <=> Announced) /\ (InHand' => InHand)
    BY <1>0, <2>1 DEF Announced, InHand
  <2> QED BY <1>0, <2>1, <2>2, DeliveredKept
<1>10. CASE PollEnds \/ KeepAliveCheck \/ LinkDrops \/ Accepted \/ GiveUp
            \/ \E type \in Requests : Request(type)
  <2>1. UNCHANGED <<sent, taken, delivered, rxVars>>
    BY <1>10 DEF PollEnds, KeepAliveCheck, LinkDrops, Accepted, GiveUp, Request
  <2>2. pc' = pc \/ (pc # "callback" /\ pc' # "callback")
    BY <1>10 DEF PollEnds, KeepAliveCheck, LinkDrops, Accepted, GiveUp, Request
  <2>3. link' => link
    BY <1>10 DEF PollEnds, KeepAliveCheck, LinkDrops, Accepted, GiveUp, Request, Stop
  <2> QED BY <1>0, <2>1, <2>2, <2>3, DeliveredKept DEF Announced, InHand
<1>11. CASE BrokerReads \/ \E p \in Packets : BrokerSends(p)
  <2>1. sent' = sent \/ \E p \in Packets : sent' = Append(sent, p)
    BY <1>11 DEF BrokerReads, BrokerSends, BrokerWrites
  <2>2. UNCHANGED <<link, taken, delivered, rxVars, pc>>
    BY <1>11 DEF BrokerReads, BrokerSends
  <2> QED BY <1>0, <2>1, <2>2, DeliveredKept DEF Announced, InHand
<1>12. CASE Reconnect
  BY <1>12 DEF Reconnect, DeliveredInv, Announced, InHand
<1>13. CASE UNCHANGED vars
  BY <1>0, <1>13, DeliveredKept DEF vars, Announced, InHand
<1>14. ~RxMalformed /\ ~RxBadTopic
  BY <1>0, NotMalformed, NotBadTopic
<1> QED BY <1>1, <1>2, <1>3, <1>4, <1>5, <1>6, <1>7, <1>8, <1>9, <1>10, <1>11, <1>12,
           <1>13, <1>14 DEF Next, Poll, Environment, Caller

LEMMA DeliveredInit == Init => DeliveredInv
BY DEF Init, DeliveredInv, Announced, InHand

\* So they are in every behaviour.
LEMMA DeliveredInvariant ==
  ASSUME NothingShifts PROVE Spec => [](TypeInv /\ PlaceInv /\ DeliveredInv)
<1>1. /\ TypeInv /\ PlaceInv /\ TypeInv' /\ PlaceInv' /\ DeliveredInv /\ [Next]_vars
      => DeliveredInv'
  BY DeliveredStep
<1> QED BY <1>1, DeliveredInit, PlaceInvariant, PTL DEF Spec

\* With a callback, or where no message is empty, the messages announced to the
\* application are the PUBLISH packets read, each once, in the order written and
\* as the broker wrote them.
THEOREM AnnouncesEachOnce == ASSUME NothingShifts PROVE Spec => []AnnouncedInOrder
<1>1. DeliveredInv => AnnouncedInOrder
  BY DEF DeliveredInv, AnnouncedInOrder
<1> QED BY <1>1, DeliveredInvariant, PTL

\* Only an empty message is acknowledged where it is announced, and that without a
\* callback.
LEMMA NoAckAnnounced ==
  ASSUME NothingShifts, TypeOK, PlaceInv, RxPacketId
  PROVE  out' = out /\ (acks' = acks \/ acks' = 0)
<1> SUFFICES ASSUME ~(out' = out /\ (acks' = acks \/ acks' = 0)) PROVE FALSE
  OBVIOUS
<1>1. ~HasCallback /\ rxLength' = 0 /\ rxState' = "READ_PUBLISH_PAYLOAD" /\ HasByte
  BY DEF RxPacketId, Announce, NoPayload, InPoll
<1>2. Cur.type = PUBLISH /\ Cur.payload = 0
  BY <1>1, PacketIdPlace DEF Announcing
<1>3. Cur \in Packets
  BY <1>1, ByteFacts
<1> QED BY <1>1, <1>2, <1>3 DEF NothingShifts

\* Likewise, an acknowledgement is sent only for the message announced last, when
\* nothing of its payload is left, and it carries that message's identifier in the
\* packet that its quality of service asks for.
THEOREM AcksTheMessage == ASSUME NothingShifts PROVE Spec => AcksWhatWasRead
<1> DEFINE Right ==
      LET p == sent[delivered'[Len(delivered')].at] IN
      /\ rxLength' = 0
      /\ p.qos > 0
      /\ out' = Write(out, IF p.qos = 1 THEN PUBACK ELSE PUBREC, p.pid)
<1>1. TypeInv /\ PlaceInv /\ DeliveredInv /\ [Next]_vars => [acks' > acks => Right]_vars
  <2> SUFFICES ASSUME TypeInv, PlaceInv, DeliveredInv, Next, acks' > acks PROVE Right
    BY DEF vars
  <2>0. acks \in Nat /\ TypeOK
    BY TypeParts DEF TypeInv, Types, HisTypes
  <2>1. ~(acks' = acks) /\ ~(acks' = 0)
    BY <2>0
  <2>2. AppReads \/ CallbackReturns
    <3>1. acks' = acks \/ acks' = 0 \/ AppReads \/ CallbackReturns
      <4> USE DEF hisVars
      <4>1. CASE Poll
        BY <2>0, <4>1, NotMalformed, NotBadTopic, NoAckAnnounced DEF Poll, PollEnds,
           RxType, RxLengthByte, RxVariableHeader, RxTopicLength, RxTopic, RxPayload,
           KeepAliveCheck
      <4>2. CASE Environment
        BY <4>2 DEF Environment, BrokerReads, LinkDrops, BrokerSends
      <4>3. CASE Caller
        BY <4>3 DEF Caller, PollBegins, Reconnect, Accepted, GiveUp, Request
      <4> QED BY <4>1, <4>2, <4>3 DEF Next
    <3> QED BY <2>1, <3>1
  <2>3. AckRxMessage /\ delivered' = delivered /\ rxLength' = 0
    BY <2>1, <2>2 DEF AppReads, CallbackReturns, NoPayload
  <2>4. HandIsLast
    BY <2>2 DEF DeliveredInv, InHand, AppReads, CallbackReturns
  <2>5. rxQos \in {1, 2} /\ out' = Write(out, IF rxQos = 1 THEN PUBACK ELSE PUBREC, rxPid)
    BY <2>1, <2>3 DEF AckRxMessage
  <2> QED BY <2>3, <2>4, <2>5 DEF HandIsLast, Last
<1> QED BY <1>1, DeliveredInvariant, PTL DEF Spec, AcksWhatWasRead

-----------------------------------------------------------------------------
(* A message read without a callback is acknowledged once.                 *)

\* While any of the payload is unread the message has not been acknowledged, and
\* what is not readable any more is not acknowledged again.
AckInv ==
  /\ pc # "callback"
  /\ acks \in {0, 1}
  /\ rxState = "READ_PUBLISH_PAYLOAD" /\ rxLength > 0 => acks = 0

\* The end of a message starts the count over.
LEMMA AckStep ==
  ASSUME ~HasCallback PROVE AckInv /\ [Next]_vars => AckInv'
<1> SUFFICES ASSUME AckInv, [Next]_vars PROVE AckInv'
  OBVIOUS
<1> USE DEF AckInv, netVars, hdrVars, pubVars, rxVars, hisVars
<1>1. CASE RxType \/ RxLengthByte \/ RxMalformed \/ RxVariableHeader
  BY <1>1 DEF RxType, RxLengthByte, RxMalformed, RxVariableHeader, InPoll
<1>2. CASE RxTopicLength \/ RxBadTopic
  BY <1>2 DEF RxTopicLength, RxBadTopic, InPoll
<1>3. CASE RxTopic
  BY <1>3 DEF RxTopic, Announce, InPoll
<1>4. CASE RxPacketId
  BY <1>4 DEF RxPacketId, Announce, NoPayload, InPoll
<1>5. CASE RxPayload
  BY <1>5 DEF RxPayload, InPoll
<1>6. CASE AppReads
  <2>1. acks = 0 /\ pc' # "callback"
    BY <1>6 DEF AppReads
  <2>2. CASE rxLength' = 0
    BY <1>6, <2>1, <2>2 DEF AppReads, NoPayload, AckRxMessage
  <2>3. CASE rxLength' # 0
    BY <1>6, <2>1, <2>3 DEF AppReads, NoPayload
  <2> QED BY <2>2, <2>3
<1>7. CASE \E discard \in BOOLEAN : PollBegins(discard)
  BY <1>7 DEF PollBegins
<1>8. CASE PollEnds \/ KeepAliveCheck \/ CallbackReturns
  BY <1>8 DEF PollEnds, KeepAliveCheck, CallbackReturns
<1>9. CASE Environment
  BY <1>9 DEF Environment, BrokerReads, BrokerSends, LinkDrops
<1>10. CASE Reconnect
  BY <1>10 DEF Reconnect
<1>11. CASE Accepted \/ GiveUp \/ \E type \in Requests : Request(type)
  BY <1>11 DEF Accepted, GiveUp, Request
<1>12. CASE UNCHANGED vars
  BY <1>12 DEF vars
<1> QED BY <1>1, <1>2, <1>3, <1>4, <1>5, <1>6, <1>7, <1>8, <1>9, <1>10, <1>11, <1>12
        DEF Next, Poll, Caller

\* An application that reads by parseMessage() and read() acknowledges each message
\* at most once, empty ones too, whatever has been read before.
THEOREM PolledAckedOnce == ASSUME ~HasCallback PROVE Spec => []AckedOnce
<1>1. Init => AckInv
  BY DEF Init, AckInv
<1>2. AckInv => AckedOnce
  BY DEF AckInv, AckedOnce
<1> QED BY <1>1, <1>2, AckStep, PTL DEF Spec
=============================================================================
