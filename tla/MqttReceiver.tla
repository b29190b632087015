---------------------------- MODULE MqttReceiver ----------------------------
(***************************************************************************)
(* The receiving half of the MQTT client: poll() takes the bytes of the    *)
(* connection one at a time through the states of _rxState, announces each *)
(* PUBLISH to the application (callback, or parseMessage when there is no  *)
(* callback), hands out its payload through read() and acknowledges it.    *)
(*                                                                         *)
(* The caller of poll() is left open here: between two polls it may start  *)
(* a request, change the packet identifier it waits for, or connect again. *)
(* MqttClient closes that gap with the real requests and a broker.         *)
(***************************************************************************)
EXTENDS MqttPackets, Sequences

CONSTANTS
  Packets,       \* what the broker may write on the connection
  Requests,      \* packet types its caller may write
  HasCallback,   \* onMessage() was given a callback
  MaxSent,       \* bound: packets the broker writes on one connection
  MaxOut         \* bound: packets the client has written and nobody has read

ASSUME PacketsAssumption  == \A p \in Packets : WellFormed(p)
ASSUME RequestsAssumption ==
         Requests \subseteq {CONNECT, PUBLISH, PUBREL, SUBSCRIBE, UNSUBSCRIBE}
ASSUME CallbackAssumption == HasCallback \in BOOLEAN
ASSUME BoundsAssumption   == MaxSent \in Nat /\ MaxOut \in Nat

VARIABLES
  \* the connection
  link,        \* _client->connected()
  sent,        \* packets the broker wrote on this connection
  taken,       \* how many of them the client has read to the last byte
  off,         \* bytes read of packet taken + 1
  out,         \* packets written by the client, oldest first
  \* the receiver
  rxState, rxType, rxFlags, rxLength, rxMult, rxIndex, rxBuf,
  topicLen,    \* _rxMessageTopicLength
  topicGot,    \* _rxMessageTopic.length()
  rxQos, rxPid,
  \* the rest of the client that poll() touches
  pc,          \* where the only thread is
  connected, returnCode, txPid, txStream,
  \* history
  delivered,   \* messages announced to the application on this connection
  acks         \* acknowledgements sent for the last of them

netVars == <<link, sent, taken, off, out>>
hdrVars == <<rxType, rxFlags, rxMult, rxBuf>>
pubVars == <<topicLen, topicGot, rxQos, rxPid>>
rxVars  == <<rxState, rxLength, rxIndex, hdrVars, pubVars>>
reqVars == <<returnCode, txPid, txStream>>
hisVars == <<delivered, acks>>
vars    == <<netVars, rxVars, pc, connected, reqVars, hisVars>>

RxStates ==
  {"READ_TYPE", "READ_REMAINING_LENGTH", "READ_VARIABLE_HEADER",
   "READ_PUBLISH_TOPIC_LENGTH", "READ_PUBLISH_TOPIC",
   "READ_PUBLISH_PACKET_ID", "READ_PUBLISH_PAYLOAD",
   "DISCARD_PUBLISH_PAYLOAD"}

\* _rxLength is an unsigned size_t; 2^30 stands for its 2^32, which TLC's
\* integers cannot hold: both are far above every length that is compared.
SizeT == 1024 * 1024 * 1024

ClientTypes == {PUBACK, PUBREC, PUBCOMP, CONNECT, PUBLISH, PUBREL, SUBSCRIBE,
                UNSUBSCRIBE, PINGREQ, DISCONNECT}

ClientPacket == [type : ClientTypes, qos : 0..2, pid : Words]

Message == [at : Nat, qos : 0..3, pid : Words, topic : Nat, payload : Nat]

TypeOK ==
  /\ link \in BOOLEAN
  /\ sent \in Seq(Packets)
  /\ taken \in 0..Len(sent)
  /\ off \in Nat
  /\ out \in Seq(ClientPacket)
  /\ rxState \in RxStates
  /\ rxType \in 0..15
  /\ rxFlags \in 0..15
  /\ rxLength \in Nat
  /\ rxMult \in Nat
  /\ rxIndex \in 0..3
  /\ rxBuf \in [0..2 -> Bytes]
  /\ topicLen \in Words
  /\ topicGot \in Nat
  /\ rxQos \in 0..3
  /\ rxPid \in Words
  /\ pc \in {"out", "poll", "callback", "tail"}
  /\ connected \in BOOLEAN
  /\ returnCode \in Bytes \cup {-1}
  /\ txPid \in 0..MaxPacketId
  /\ txStream \in BOOLEAN
  /\ delivered \in Seq(Message)
  /\ acks \in Nat

-----------------------------------------------------------------------------
HasByte == link /\ taken < Len(sent)
Cur     == sent[taken + 1]            \* the packet being read
Byte    == ByteAt(Cur, off + 1)       \* what clientRead() returns

Word(buf) == 256 * buf[0] + buf[1]

\* endPacket(): a packet written on a dead connection goes nowhere.
WriteQos(q, type, qos, pid) ==
  IF link THEN Append(q, [type |-> type, qos |-> qos, pid |-> pid]) ELSE q

Write(q, type, pid) == WriteQos(q, type, 0, pid)

Advance ==
  /\ UNCHANGED <<link, sent>>
  /\ IF off + 1 = Size(Cur) THEN taken' = taken + 1 /\ off' = 0
                            ELSE off' = off + 1 /\ UNCHANGED taken

\* stop(): say DISCONNECT if the session is up, then close the connection.
Stop ==
  /\ out' = IF connected THEN Write(out, DISCONNECT, 0) ELSE out
  /\ link' = FALSE
  /\ connected' = FALSE

\* Nothing of the payload is left.  (Bugs: the last byte is forgotten; there is
\* no test.)
ForgetsLastByte(len) == len <= 1
NotTested(len)       == TRUE
NoPayload(len)       == len = 0

AckRxMessage ==
  IF rxQos = 1 THEN out' = Write(out, PUBACK, rxPid) /\ acks' = acks + 1
  ELSE IF rxQos = 2 THEN out' = Write(out, PUBREC, rxPid) /\ acks' = acks + 1
  ELSE UNCHANGED <<out, acks>>

\* A message becomes readable.  len is _rxLength, what is left of the packet.
Announce(qos, pid, topic, len) ==
  /\ rxState' = "READ_PUBLISH_PAYLOAD"
  /\ delivered' = Append(delivered, [at |-> taken + 1, qos |-> qos, pid |-> pid,
                                     topic |-> topic, payload |-> len])
-----------------------------------------------------------------------------
(* poll(): one action per state of the receiver, each takes one byte.      *)

\* Start of poll(), from parseMessage() when discard is TRUE.
PollBegins(discard) ==
  /\ pc = "out"
  /\ pc' = "poll"
  /\ IF link
     THEN /\ rxState' = IF discard /\ rxState = "READ_PUBLISH_PAYLOAD"
                        THEN "DISCARD_PUBLISH_PAYLOAD" ELSE rxState
          /\ UNCHANGED <<off, connected>>
     ELSE rxState' = "READ_TYPE" /\ off' = 0 /\ connected' = FALSE
  /\ UNCHANGED <<link, sent, taken, out, rxLength, rxIndex, hdrVars, pubVars,
                 reqVars, hisVars>>

InPoll(state) ==
  /\ pc = "poll"
  /\ HasByte
  /\ rxState = state
  /\ Advance

RxType ==
  /\ InPoll("READ_TYPE")
  /\ rxType' = Byte \div 16
  /\ rxFlags' = Byte % 16
  /\ rxLength' = 0
  /\ rxMult' = 1
  /\ rxState' = "READ_REMAINING_LENGTH"
  /\ UNCHANGED <<out, rxIndex, rxBuf, pubVars, pc, connected, reqVars, hisVars>>

LengthSoFar == rxLength + (Byte % Radix) * rxMult
LengthTooLong == rxMult * Radix > Radix * Radix * Radix

\* (Bug: the flags of PUBREL are not special.)
MalformedPubrel(len) == rxType = PUBREL /\ rxFlags # 0

\* The header no packet of that type may have.
Malformed(len) ==
  IF rxType \in {CONNACK, PUBACK, PUBREC, PUBCOMP, UNSUBACK}
    THEN rxFlags # 0 \/ len # 2
  ELSE IF rxType = PUBLISH  THEN (rxFlags \div 2) % 4 = 3
  ELSE IF rxType = PUBREL   THEN rxFlags # 2 \/ len # 2
  ELSE IF rxType = SUBACK   THEN rxFlags # 0 \/ len # 3
  ELSE IF rxType = PINGRESP THEN rxFlags # 0 \/ len # 0
  ELSE TRUE

RxLengthByte ==
  /\ InPoll("READ_REMAINING_LENGTH")
  /\ ~LengthTooLong
  /\ rxLength' = LengthSoFar
  /\ rxMult' = rxMult * Radix
  /\ \/ /\ Byte >= Radix
        /\ UNCHANGED <<rxState, rxIndex, rxQos>>
     \/ /\ Byte < Radix
        /\ ~Malformed(LengthSoFar)
        /\ rxIndex' = 0
        /\ IF rxType = PUBLISH
           THEN /\ rxQos' = (rxFlags \div 2) % 4
                /\ rxState' = "READ_PUBLISH_TOPIC_LENGTH"
           ELSE /\ rxState' = IF LengthSoFar = 0 THEN "READ_TYPE"
                              ELSE "READ_VARIABLE_HEADER"
                /\ UNCHANGED rxQos
  /\ UNCHANGED <<out, rxType, rxFlags, rxBuf, topicLen, topicGot, rxPid, pc,
                 connected, reqVars, hisVars>>

\* poll() gives the connection up on a header it does not understand.
RxMalformed ==
  /\ pc = "poll"
  /\ HasByte
  /\ rxState = "READ_REMAINING_LENGTH"
  /\ LengthTooLong \/ (Byte < Radix /\ Malformed(LengthSoFar))
  /\ rxLength' = LengthSoFar
  /\ rxMult' = rxMult * Radix
  /\ off' = off + 1
  /\ Stop
  /\ pc' = "out"
  /\ UNCHANGED <<sent, taken, rxState, rxIndex, rxType, rxFlags, rxBuf, pubVars,
                 reqVars, hisVars>>

\* (Bug: whatever comes answers the request.)
AnyAnswer(id)      == TRUE
AnswersRequest(id) == id = txPid

RxVariableHeader ==
  /\ InPoll("READ_VARIABLE_HEADER")
  /\ rxBuf' = [rxBuf EXCEPT ![rxIndex] = Byte]
  /\ rxIndex' = rxIndex + 1
  /\ IF rxIndex + 1 < rxLength
     THEN UNCHANGED <<rxState, returnCode, out>>
     ELSE LET id == Word(rxBuf') IN
          /\ rxState' = "READ_TYPE"
          /\ returnCode' =
               IF rxType = CONNACK THEN rxBuf'[1]
               ELSE IF rxType = PUBREL \/ ~AnswersRequest(id) THEN returnCode
               ELSE IF rxType = SUBACK THEN rxBuf'[2] ELSE 0
          /\ out' = IF rxType = PUBREL /\ ~txStream
                    THEN Write(out, PUBCOMP, id) ELSE out
  /\ UNCHANGED <<rxLength, rxType, rxFlags, rxMult, pubVars, pc, connected,
                 txPid, txStream, hisVars>>

TopicTooLong(len, topic) ==
  len < topic + (IF rxQos > 0 THEN 2 ELSE 0)

RxTopicLength ==
  /\ InPoll("READ_PUBLISH_TOPIC_LENGTH")
  /\ rxBuf' = [rxBuf EXCEPT ![rxIndex] = Byte]
  /\ IF rxIndex = 0
     THEN rxIndex' = 1 /\ UNCHANGED <<rxState, rxLength, topicLen, topicGot>>
     ELSE /\ topicLen' = Word(rxBuf')
          /\ rxLength' = (rxLength - 2) % SizeT
          /\ ~TopicTooLong(rxLength', topicLen')
          /\ topicGot' = 0
          /\ rxIndex' = 0
          /\ rxState' = "READ_PUBLISH_TOPIC"
  /\ UNCHANGED <<out, rxType, rxFlags, rxMult, rxQos, rxPid, pc, connected,
                 reqVars, hisVars>>

\* A topic longer than the packet: the connection is given up.
RxBadTopic ==
  /\ pc = "poll"
  /\ HasByte
  /\ rxState = "READ_PUBLISH_TOPIC_LENGTH"
  /\ rxIndex = 1
  /\ rxBuf' = [rxBuf EXCEPT ![1] = Byte]
  /\ topicLen' = Word(rxBuf')
  /\ rxLength' = (rxLength - 2) % SizeT
  /\ TopicTooLong(rxLength', topicLen')
  /\ topicGot' = 0
  /\ rxIndex' = 2
  /\ off' = off + 1
  /\ Stop
  /\ pc' = "out"
  /\ UNCHANGED <<sent, taken, rxState, rxType, rxFlags, rxMult, rxQos, rxPid,
                 reqVars, hisVars>>

\* The topic has all its characters.  (Bug: one is missing.)
TopicShort(got)    == got + 1 >= topicLen
TopicComplete(got) == got = topicLen

RxTopic ==
  /\ InPoll("READ_PUBLISH_TOPIC")
  /\ topicGot' = topicGot + 1
  /\ IF ~TopicComplete(topicGot + 1)
     THEN UNCHANGED <<rxState, rxLength, pc, delivered, acks>>
     ELSE /\ rxLength' = rxLength - topicLen
          /\ IF rxQos > 0
             THEN /\ rxState' = "READ_PUBLISH_PACKET_ID"
                  /\ UNCHANGED <<pc, delivered, acks>>
             ELSE /\ Announce(0, 0, topicGot', rxLength')
                  /\ acks' = 0
                  /\ pc' = IF HasCallback THEN "callback" ELSE "tail"
  /\ UNCHANGED <<out, rxIndex, hdrVars, topicLen, rxQos, rxPid, connected, reqVars>>

RxPacketId ==
  /\ InPoll("READ_PUBLISH_PACKET_ID")
  /\ rxBuf' = [rxBuf EXCEPT ![rxIndex] = Byte]
  /\ rxIndex' = rxIndex + 1
  /\ IF rxIndex = 0
     THEN UNCHANGED <<out, rxState, rxLength, rxPid, pc, delivered, acks>>
     ELSE /\ rxLength' = rxLength - 2
          /\ rxPid' = Word(rxBuf')
          /\ Announce(rxQos, rxPid', topicGot, rxLength')
          /\ IF HasCallback
             THEN pc' = "callback" /\ acks' = 0 /\ UNCHANGED out
             ELSE /\ pc' = "tail"
                  /\ IF NoPayload(rxLength')
                     THEN /\ acks' = 1
                          /\ out' = Write(out, IF rxQos = 1 THEN PUBACK ELSE PUBREC,
                                          rxPid')
                     ELSE acks' = 0 /\ UNCHANGED out
  /\ UNCHANGED <<rxType, rxFlags, rxMult, topicLen, topicGot, rxQos, connected,
                 reqVars>>

\* A payload byte the application has not asked for is dropped.
RxPayload ==
  /\ \/ InPoll("READ_PUBLISH_PAYLOAD")
     \/ InPoll("DISCARD_PUBLISH_PAYLOAD")
  /\ rxLength' = IF rxLength > 0 THEN rxLength - 1 ELSE 0
  /\ rxState' = IF rxLength' = 0 THEN "READ_TYPE" ELSE "DISCARD_PUBLISH_PAYLOAD"
  /\ UNCHANGED <<out, rxIndex, hdrVars, pubVars, pc, connected, reqVars, hisVars>>

\* The loop of poll() ends when no byte has arrived.
PollEnds ==
  /\ pc = "poll"
  /\ pc' = "tail"
  /\ UNCHANGED <<netVars, rxVars, connected, reqVars, hisVars>>

\* The end of poll(): nothing is due, a ping is, or the peer is taken for dead.
\* KeepAlive models the clocks that decide.
KeepAliveCheck ==
  /\ pc = "tail"
  /\ pc' = "out"
  /\ \/ UNCHANGED <<link, out, connected>>
     \/ /\ connected
        /\ Len(out) < MaxOut
        /\ out' = Write(out, PINGREQ, 0)
        /\ UNCHANGED <<link, connected>>
     \/ connected /\ Stop
  /\ UNCHANGED <<sent, taken, off, rxVars, reqVars, hisVars>>
-----------------------------------------------------------------------------
(* The application: read() from the callback or between two polls.         *)

AppReads ==
  /\ pc \in {"callback", "out"}
  /\ rxState = "READ_PUBLISH_PAYLOAD"
  /\ rxLength > 0
  /\ HasByte
  /\ Advance
  /\ rxLength' = rxLength - 1
  /\ IF NoPayload(rxLength')
     THEN rxState' = "READ_TYPE" /\ AckRxMessage
     ELSE UNCHANGED <<rxState, out, acks>>
  /\ UNCHANGED <<rxIndex, hdrVars, pubVars, pc, connected, reqVars, delivered>>

\* The callback returns into poll(), with the payload read or not.
CallbackReturns ==
  /\ pc = "callback"
  /\ IF NoPayload(rxLength)
     THEN /\ rxState' = "READ_TYPE"
          /\ pc' = "poll"
          /\ AckRxMessage
     ELSE pc' = "tail" /\ UNCHANGED <<rxState, out, acks>>
  /\ UNCHANGED <<link, sent, taken, off, rxLength, rxIndex, hdrVars, pubVars,
                 connected, reqVars, delivered>>
-----------------------------------------------------------------------------
(* The other end of the connection.                                        *)

BrokerWrites(p) ==
  /\ link
  /\ Len(sent) < MaxSent
  /\ sent' = Append(sent, p)

BrokerSends(p) ==
  /\ BrokerWrites(p)
  /\ UNCHANGED <<link, taken, off, out, rxVars, pc, connected, reqVars, hisVars>>

\* The broker reads a packet, and may answer it.
BrokerReads ==
  /\ out # <<>>
  /\ out' = Tail(out)
  /\ UNCHANGED sent \/ \E p \in Packets : BrokerWrites(p)
  /\ UNCHANGED <<link, taken, off, rxVars, pc, connected, reqVars, hisVars>>

LinkDrops ==
  /\ link
  /\ link' = FALSE
  /\ UNCHANGED <<sent, taken, off, out, rxVars, pc, connected, reqVars, hisVars>>

(* The caller of poll(), between two polls.                                *)

\* The 16-bit identifier skips 0.
NextPid(n) == IF n = MaxPacketId THEN 1 ELSE n + 1

\* connect() forgets everything about the last connection.
Reconnect ==
  /\ pc = "out"
  /\ link' \in BOOLEAN
  /\ out' \in {<<>>, <<[type |-> CONNECT, qos |-> 0, pid |-> 0]>>}
  /\ sent' = <<>> /\ taken' = 0 /\ off' = 0
  /\ rxState' = "READ_TYPE"
  /\ connected' = FALSE
  /\ txPid' = 0
  /\ returnCode' = IF link' THEN -1 ELSE returnCode
  /\ delivered' = <<>> /\ acks' = 0
  /\ UNCHANGED <<rxLength, rxIndex, hdrVars, pubVars, pc, txStream>>

\* connect() returns 1 on a CONNACK with code 0, were the link gone by then.
Accepted ==
  /\ pc = "out"
  /\ returnCode = 0
  /\ connected' = TRUE
  /\ UNCHANGED <<netVars, rxVars, pc, reqVars, hisVars>>

Request(type) ==
  /\ pc = "out"
  /\ type = PUBREL \/ Len(out) < MaxOut
  /\ txPid' \in {txPid, NextPid(txPid)}
  /\ \E qos \in 0..2, pid \in {0, txPid'} : out' = WriteQos(out, type, qos, pid)
  /\ returnCode' \in {returnCode, -1}
  /\ txStream' \in BOOLEAN
  /\ connected' \in {connected, connected /\ link}
  /\ UNCHANGED <<link, sent, taken, off, rxVars, pc, hisVars>>

GiveUp ==
  /\ pc = "out"
  /\ Stop
  /\ UNCHANGED <<sent, taken, off, rxVars, pc, reqVars, hisVars>>
-----------------------------------------------------------------------------
Init ==
  /\ link = FALSE
  /\ sent = <<>> /\ taken = 0 /\ off = 0 /\ out = <<>>
  /\ rxState = "READ_TYPE"
  /\ rxType = 0 /\ rxFlags = 0 /\ rxLength = 0 /\ rxMult = 0 /\ rxIndex = 0
  /\ rxBuf = [i \in 0..2 |-> 0]
  /\ topicLen = 0 /\ topicGot = 0 /\ rxQos = 0 /\ rxPid = 0
  /\ pc = "out"
  /\ connected = FALSE
  /\ returnCode = 0 /\ txPid = 0 /\ txStream = FALSE
  /\ delivered = <<>> /\ acks = 0

Poll == PollEnds \/ RxType \/ RxLengthByte \/ RxMalformed \/ RxVariableHeader
        \/ RxTopicLength \/ RxBadTopic \/ RxTopic \/ RxPacketId \/ RxPayload
        \/ KeepAliveCheck \/ CallbackReturns

Environment == BrokerReads \/ LinkDrops \/ \E p \in Packets : BrokerSends(p)

Caller == \/ \E discard \in BOOLEAN : PollBegins(discard)
          \/ AppReads \/ Reconnect \/ Accepted \/ GiveUp
          \/ \E type \in Requests : Request(type)

Next == Poll \/ Environment \/ Caller

Spec == Init /\ [][Next]_vars
-----------------------------------------------------------------------------
(* Properties.                                                             *)

\* A zero-length message is complete before its callback has returned.
EmptyInCallback ==
  /\ pc = "callback"
  /\ rxState = "READ_PUBLISH_PAYLOAD"
  /\ rxLength = 0

\* The receiver never loses its place: it waits for the first byte of a packet
\* exactly when the unread bytes begin with one.  One byte too many or too few
\* taken by poll(), read() or the discarding of a payload breaks it for the
\* rest of the connection.
Framing == EmptyInCallback \/ (rxState = "READ_TYPE" <=> off = 0)

\* Reading by parseMessage() loses its place on an empty message only: its next
\* poll() drops a payload byte that is the first byte of the next packet.
ShiftedByEmptyMessage ==
  ~Framing => \E k \in 1..taken : sent[k].type = PUBLISH /\ sent[k].payload = 0

\* A message handed to the application is one the broker wrote.
Faithful(d) ==
  /\ d.at \in DOMAIN sent
  /\ LET p == sent[d.at] IN
     /\ p.type = PUBLISH
     /\ d.qos = p.qos
     /\ d.topic = p.topic
     /\ d.payload = p.payload
     /\ d.qos > 0 => d.pid = p.pid

\* The messages announced to the application are the PUBLISH packets the
\* client has read, each once and in the order written, with the length,
\* quality of service and identifier the broker gave them.
AnnouncedInOrder ==
  /\ \A i \in DOMAIN delivered : Faithful(delivered[i])
  /\ \A i, j \in DOMAIN delivered : i < j => delivered[i].at < delivered[j].at
  /\ \A k \in 1..taken : sent[k].type = PUBLISH =>
        \E i \in DOMAIN delivered : delivered[i].at = k

\* poll() never takes what a broker may write for a malformed packet: it ends
\* in the keep-alive check and never in one of its early returns after stop().
NeverMalformed == [][pc = "poll" => pc' # "out"]_vars

\* A message is acknowledged when its payload is used up and not before, with
\* the identifier the broker gave it and the packet its quality asks for.
AcksWhatWasRead ==
  [][acks' > acks =>
       LET p == sent[delivered'[Len(delivered')].at] IN
       /\ rxLength' = 0
       /\ p.qos > 0
       /\ out' = Write(out, IF p.qos = 1 THEN PUBACK ELSE PUBREC, p.pid)]_vars

\* "no payload to read, ack zero length message" (MqttClient.cpp:592): only an
\* empty message is acknowledged there, so no message is acknowledged twice.
AckedOnce == acks <= 1
=============================================================================
