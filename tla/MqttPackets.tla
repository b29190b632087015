---------------------------- MODULE MqttPackets ----------------------------
(***************************************************************************)
(* The MQTT 3.1.1 control packets a broker sends to the client, as bytes.  *)
(* A packet is a record; what the receiver reads is ByteAt(p, k), the k-th *)
(* byte of its encoding.  The contents of topics and payloads are not      *)
(* interpreted by the client, so their bytes are all the character "0".    *)
(***************************************************************************)
EXTENDS Integers

\* Packet types, the high nibble of the first byte.
CONNACK  == 2
PUBLISH  == 3
PUBACK   == 4
PUBREC   == 5
PUBREL   == 6
PUBCOMP  == 7
SUBACK   == 9
UNSUBACK == 11
PINGRESP == 13

\* The types only the client writes.
CONNECT     == 1
SUBSCRIBE   == 8
UNSUBSCRIBE == 10
PINGREQ     == 12
DISCONNECT  == 14

PacketTypes ==
  {CONNACK, PUBLISH, PUBACK, PUBREC, PUBREL, PUBCOMP, SUBACK, UNSUBACK, PINGRESP}

\* A byte, and a word of two bytes.
MaxByte == 255
MaxWord == 256 * 256 - 1
Bytes   == 0..MaxByte
Words   == 0..MaxWord

CONSTANT MaxPacketId     \* the largest packet identifier, MaxWord in the code

ASSUME MaxPacketIdAssumption == MaxPacketId \in Words \ {0}

Radix == 128             \* a remaining-length byte carries seven bits

\* topic and payload are lengths in bytes; code is the CONNACK or SUBACK code.
Packet == [type : PacketTypes, qos : 0..2, pid : Words,
           code : Bytes, topic : Nat, payload : Nat]

Ack(type, pid)    == [type |-> type, qos |-> 0, pid |-> pid, code |-> 0,
                      topic |-> 0, payload |-> 0]
Connack(code)     == [Ack(CONNACK, 0) EXCEPT !.code = code]
Suback(pid, code) == [Ack(SUBACK, pid) EXCEPT !.code = code]
Publish(qos, pid, topic, payload) ==
  [Ack(PUBLISH, pid) EXCEPT !.qos = qos, !.topic = topic, !.payload = payload]

Flags(p) == IF p.type = PUBLISH THEN 2 * p.qos
            ELSE IF p.type = PUBREL THEN 2 ELSE 0

IdSize(p) == IF p.qos > 0 THEN 2 ELSE 0

\* The remaining length: the bytes that follow the length field.
Rem(p) == IF p.type = PUBLISH THEN 2 + p.topic + IdSize(p) + p.payload
          ELSE IF p.type = PINGRESP THEN 0
          ELSE IF p.type = SUBACK THEN 3 ELSE 2

LengthSize(p) == IF Rem(p) < Radix THEN 1 ELSE IF Rem(p) < Radix * Radix THEN 2 ELSE 3
HeaderSize(p) == 1 + LengthSize(p)
Size(p)       == HeaderSize(p) + Rem(p)

\* What a broker sends to this client: a topic is never empty, the identifiers
\* are 0 exactly where the packet has none, and the packet is short enough
\* for a three-byte length (2 MB, far beyond anything the system sends).
WellFormed(p) ==
  /\ p \in Packet
  /\ Rem(p) < Radix * Radix * Radix
  /\ p.type = PUBLISH => p.topic \in Words \ {0}
  /\ p.type # PUBLISH => p.qos = 0

LengthByte(p, i) ==
  LET digit == IF i = 1 THEN Rem(p) % Radix
               ELSE IF i = 2 THEN (Rem(p) \div Radix) % Radix
               ELSE Rem(p) \div (Radix * Radix)
  IN  IF i < LengthSize(p) THEN digit + Radix ELSE digit

Data    == 48
High(n) == n \div 256
Low(n)  == n % 256

AckByte(p, j) ==
  IF p.type = CONNACK THEN (IF j = 2 THEN p.code ELSE 0)
  ELSE IF j = 1 THEN High(p.pid) ELSE IF j = 2 THEN Low(p.pid) ELSE p.code

PublishByte(p, j) ==
  IF j = 1 THEN High(p.topic)
  ELSE IF j = 2 THEN Low(p.topic)
  ELSE IF p.qos > 0 /\ j = 3 + p.topic THEN High(p.pid)
  ELSE IF p.qos > 0 /\ j = 4 + p.topic THEN Low(p.pid)
  ELSE Data

ByteAt(p, k) ==
  IF k = 1 THEN 16 * p.type + Flags(p)
  ELSE IF k <= HeaderSize(p) THEN LengthByte(p, k - 1)
  ELSE IF p.type = PUBLISH THEN PublishByte(p, k - HeaderSize(p))
  ELSE AckByte(p, k - HeaderSize(p))
=============================================================================
