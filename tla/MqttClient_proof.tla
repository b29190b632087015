--------------------------- MODULE MqttClient_proof ---------------------------
(***************************************************************************)
(* With a callback, or where no message is empty, the client and its       *)
(* broker are a caller and an environment of the receiver, so that what is *)
(* proved of the receiver holds of the client; and a request that reports  *)
(* success was carried out by the broker.                                  *)
(*                                                                         *)
(* The argument follows the packet identifiers.  Every request takes one   *)
(* that this connection has not used, so a packet with the current one is  *)
(* a packet of the request that waits or of its answer.  CONNACK has no    *)
(* identifier: a connect() that gives up takes the connection with it.     *)
(***************************************************************************)
EXTENDS MqttClient, MqttReceiver_proof

\* The packets the broker answers by their identifier, and these answers.
Asking(q) == \/ q.type \in {SUBSCRIBE, UNSUBSCRIBE, PUBREL}
             \/ q.type = PUBLISH /\ q.qos > 0

Answering(p) == p.type \in {PUBACK, PUBREC, PUBCOMP, SUBACK, UNSUBACK}

OnTopic(q) == q.type \in {SUBSCRIBE, UNSUBSCRIBE}

\* What the client writes without waiting.
Silent(q) == \/ q.type \in {PUBACK, PUBREC, PUBCOMP, PINGREQ, DISCONNECT}
             \/ q.type = PUBLISH /\ q.qos = 0

\* No identifier is ahead of the client's.
NumbersInv ==
  /\ \A i \in DOMAIN out : Asking(out[i]) => out[i].pid \in 1..txPid
  /\ \A k \in DOMAIN sent : Answering(sent[k]) => sent[k].pid \in 1..txPid
  /\ op = "connect" => txPid = 0
  /\ op \notin {"none", "connect"} => txPid > 0

\* What the broker has been sent, and what it has published.
PacketsInv ==
  /\ \A i \in DOMAIN out : out[i].type = PUBREC => Ack(PUBREL, out[i].pid) \in Packets
  /\ \A k \in DOMAIN sent : sent[k].type = PUBLISH => sent[k] \in Settings

\* An acknowledged message has been received; a PUBREL is behind its PUBLISH.
Behind(q, r, pid, n) ==
  \/ <<2, pid>> \in r
  \/ \E j \in DOMAIN q : j < n /\ q[j].type = PUBLISH /\ q[j].qos = 2 /\ q[j].pid = pid

MessagesInv ==
  /\ \A k \in DOMAIN sent :
       /\ sent[k].type = PUBACK => <<1, sent[k].pid>> \in received
       /\ sent[k].type \in {PUBREC, PUBCOMP} => <<2, sent[k].pid>> \in received
  /\ \A i \in DOMAIN out : out[i].type = PUBREL => Behind(out, received, out[i].pid, i)
  /\ op \in {"pubrec", "pubcomp"} => Behind(out, received, txPid, Len(out) + 1)

\* The packets with the current identifier are those of the waiting request.
OwnPacket(q) ==
  /\ op = "subscribe"   => q.type = SUBSCRIBE
  /\ op = "unsubscribe" => q.type = UNSUBSCRIBE
  /\ op = "puback" => q.type = PUBLISH /\ q.qos = 1
  /\ op \in {"pubrec", "pubcomp"} => q.type = PUBREL \/ (q.type = PUBLISH /\ q.qos = 2)

OwnAnswer(p) ==
  /\ op = "subscribe"   => /\ p.type = SUBACK /\ p.code \in {0, 128}
                           /\ subscribed <=> p.code = 0
  /\ op = "unsubscribe" => p.type = UNSUBACK /\ ~subscribed
  /\ op = "puback" => p.type = PUBACK
  /\ op \in {"pubrec", "pubcomp"} => p.type \in {PUBREC, PUBCOMP}

OwnInv ==
  /\ \A i \in DOMAIN out : Asking(out[i]) /\ out[i].pid = txPid => OwnPacket(out[i])
  /\ \A k \in DOMAIN sent : Answering(sent[k]) /\ sent[k].pid = txPid => OwnAnswer(sent[k])

\* A request that left its packet behind when the connection went.
Abandoned == ~link /\ op = "none" /\ ~result.ok /\ ~connected

\* A SUBSCRIBE or UNSUBSCRIBE nobody has read is the only one, and unanswered.
TopicInv ==
  /\ \A i, j \in DOMAIN out : OnTopic(out[i]) /\ OnTopic(out[j]) => i = j
  /\ \A i \in DOMAIN out : OnTopic(out[i]) =>
       \/ Abandoned
       \/ /\ op \in {"subscribe", "unsubscribe"} /\ returnCode = -1
          /\ out[i].pid = txPid
          /\ \A k \in DOMAIN sent : Answering(sent[k]) => sent[k].pid # txPid

\* So is a CONNECT; once connect() has returned no CONNACK is left to be read.
ConnectInv ==
  /\ \A i, j \in DOMAIN out : out[i].type = CONNECT /\ out[j].type = CONNECT => i = j
  /\ \A i \in DOMAIN out : out[i].type = CONNECT =>
       \/ Abandoned
       \/ /\ op = "connect" /\ returnCode = -1
          /\ \A k \in DOMAIN sent : sent[k].type # CONNACK
  /\ \A k, l \in DOMAIN sent : sent[k].type = CONNACK /\ sent[l].type = CONNACK => k = l
  /\ \A k \in DOMAIN sent : sent[k].type = CONNACK =>
       /\ k <= taken \/ ~link \/ (op = "connect" /\ returnCode = -1)
       /\ op = "connect" => (accepted <=> sent[k].code = 0)
  /\ connected => accepted /\ op # "connect"

\* What _returnCode says of the request that waits.
CodeInv ==
  returnCode # -1 =>
    /\ op = "connect" => (returnCode = 0 => accepted)
    /\ op = "subscribe" => returnCode \in {0, 128} /\ (subscribed <=> returnCode = 0)
    /\ op = "unsubscribe" => ~subscribed
    /\ op = "puback" => <<1, txPid>> \in received
    /\ op \in {"pubrec", "pubcomp"} => <<2, txPid>> \in received

ResultInv ==
  /\ result.ok => op = "none"
  /\ SuccessIsReal
  /\ SubscriptionIsKnown

BrokerInv == /\ NumbersInv /\ PacketsInv /\ MessagesInv /\ OwnInv
             /\ TopicInv /\ ConnectInv /\ CodeInv /\ ResultInv

ClientInv == TypeInv /\ PlaceInv /\ DeliveredInv /\ BrokerInv
-----------------------------------------------------------------------------
(* How the two directions of the connection grow.                          *)

OutGrows ==
  /\ \A i \in DOMAIN out : i \in DOMAIN out' /\ out'[i] = out[i]
  /\ \A i \in DOMAIN out' : i \in DOMAIN out \/ Silent(out'[i])
  /\ \A i \in DOMAIN out' : out'[i].type = PUBREC =>
       i \in DOMAIN out \/ Ack(PUBREL, out'[i].pid) \in Packets
  /\ Len(out) <= Len(out')

SentGrowsBy(P) ==
  /\ \A k \in DOMAIN sent : k \in DOMAIN sent' /\ sent'[k] = sent[k]
  /\ \A k \in DOMAIN sent' : k \in DOMAIN sent \/ sent'[k] \in P
  /\ \A k, l \in DOMAIN sent' : k = l \/ k \in DOMAIN sent \/ l \in DOMAIN sent

\* Places in the two directions are numbers.
LEMMA Places ==
  ASSUME TypeOK
  PROVE  /\ \A i \in DOMAIN out : i \in Nat /\ i > 0 /\ i <= Len(out)
         /\ \A k \in DOMAIN sent : k \in Nat
         /\ Len(out) \in Nat /\ taken \in Nat /\ txPid \in Nat
         /\ link \in BOOLEAN /\ connected \in BOOLEAN
         /\ txPid <= MaxPacketId /\ MaxPacketId \in Nat
<1>1. out \in Seq(ClientPacket) /\ sent \in Seq(Packets) /\ taken \in Nat
  BY DEF TypeOK
<1>2. MaxPacketId \in Nat
  BY ClientTypeFacts
<1> QED BY <1>1, <1>2 DEF TypeOK

\* Writing a packet, and leaving one direction alone.
LEMMA Writing ==
  ASSUME TypeOK
  PROVE  /\ UNCHANGED out => OutGrows
         /\ UNCHANGED sent => \A P : SentGrowsBy(P)
         /\ \A p \in Packets : sent' = Append(sent, p) => SentGrowsBy({p})
         /\ \A q \in ClientPacket :
              /\ out' = Append(out, q)
              /\ Silent(q)
              /\ q.type = PUBREC => Ack(PUBREL, q.pid) \in Packets
              => OutGrows
<1>1. out \in Seq(ClientPacket) /\ sent \in Seq(Packets)
  BY DEF TypeOK
<1>2. UNCHANGED out => OutGrows
  BY <1>1 DEF OutGrows
<1>3. UNCHANGED sent => \A P : SentGrowsBy(P)
  BY <1>1 DEF SentGrowsBy
<1>4. ASSUME NEW p \in Packets, sent' = Append(sent, p)
      PROVE  SentGrowsBy({p})
  <2>1. /\ DOMAIN sent = 1..Len(sent) /\ DOMAIN sent' = 1..(Len(sent) + 1)
        /\ \A k \in 1..Len(sent) : sent'[k] = sent[k]
        /\ sent'[Len(sent) + 1] = p
        /\ Len(sent) \in Nat
    BY <1>1, <1>4
  <2> QED BY <2>1 DEF SentGrowsBy
<1>5. ASSUME NEW q \in ClientPacket, out' = Append(out, q), Silent(q),
             q.type = PUBREC => Ack(PUBREL, q.pid) \in Packets
      PROVE  OutGrows
  <2>1. /\ DOMAIN out = 1..Len(out) /\ DOMAIN out' = 1..(Len(out) + 1)
        /\ \A k \in 1..Len(out) : out'[k] = out[k]
        /\ out'[Len(out) + 1] = q
        /\ Len(out) \in Nat /\ Len(out') = Len(out) + 1
    BY <1>1, <1>5
  <2> QED BY <1>5, <2>1 DEF OutGrows
<1> QED BY <1>2, <1>3, <1>4, <1>5

\* A silent packet is no request.
LEMMA SilentFacts ==
  ASSUME NEW q, Silent(q)
  PROVE  /\ ~Asking(q) /\ ~OnTopic(q) /\ q.type # CONNECT /\ q.type # PUBREL
BY DEF Silent, Asking, OnTopic, PUBACK, PUBREC, PUBCOMP, PINGREQ, DISCONNECT, PUBLISH,
   SUBSCRIBE, UNSUBSCRIBE, PUBREL, CONNECT

\* Nor is a PUBLISH of the broker an answer.
LEMMA SettingFacts ==
  ASSUME NEW p \in Settings
  PROVE  p.type = PUBLISH /\ ~Answering(p) /\ p.type \notin {CONNACK, PUBACK, PUBREC, PUBCOMP}
<1>1. p.type = PUBLISH
  BY SettingsAssumption
<1> QED BY <1>1 DEF Answering, PUBLISH, PUBACK, PUBREC, PUBCOMP, SUBACK, UNSUBACK, CONNACK

-----------------------------------------------------------------------------
(* The kinds of step, and what each keeps.                                 *)

\* A step between two answers: the receiver's, the application's, or a request
\* that has no connection.
LEMMA QuietStep ==
  ASSUME TypeOK, BrokerInv, OutGrows, SentGrowsBy(Settings),
         UNCHANGED <<op, subscribeQos, returnCode, brokerVars>>,
         taken' \in Nat, taken <= taken', link' => link, connected' => connected,
         txPid' \in Nat, txPid <= txPid', txPid' # txPid => op = "none",
         \/ result' = result
         \/ /\ op = "none"
            /\ result'.ok => link /\ result'.op = "publish" /\ result'.qos = 0
  PROVE  BrokerInv'
<1> USE Places DEF brokerVars
<1>1. NumbersInv'
  <2>1. \A i \in DOMAIN out' : Asking(out'[i]) => i \in DOMAIN out /\ out'[i] = out[i]
    BY SilentFacts DEF OutGrows
  <2>2. \A k \in DOMAIN sent' : Answering(sent'[k]) => k \in DOMAIN sent /\ sent'[k] = sent[k]
    BY SettingFacts DEF SentGrowsBy
  <2>3. \A x : x \in 1..txPid => x \in 1..txPid'
    OBVIOUS
  <2> QED BY <2>1, <2>2, <2>3 DEF NumbersInv, BrokerInv
<1>2. PacketsInv'
  BY DEF PacketsInv, BrokerInv, OutGrows, SentGrowsBy
<1>3. MessagesInv'
  <2>1. \A pid, n : Behind(out, received, pid, n) => Behind(out', received', pid, n)
    BY DEF Behind, OutGrows
  <2>2. \A i \in DOMAIN out' : out'[i].type = PUBREL => i \in DOMAIN out /\ out'[i] = out[i]
    BY SilentFacts DEF OutGrows
  <2>3. \A i \in DOMAIN out' : out'[i].type = PUBREL =>
          Behind(out', received', out'[i].pid, i)
    BY <2>1, <2>2 DEF MessagesInv, BrokerInv
  <2>4. op \in {"pubrec", "pubcomp"} => Behind(out', received', txPid', Len(out') + 1)
    <3>1. \A pid : Behind(out', received', pid, Len(out) + 1)
                   => Behind(out', received', pid, Len(out') + 1)
      BY DEF Behind, OutGrows
    <3> QED BY <2>1, <3>1 DEF MessagesInv, BrokerInv
  <2>5. \A k \in DOMAIN sent' : sent'[k].type \in {PUBACK, PUBREC, PUBCOMP} =>
          k \in DOMAIN sent /\ sent'[k] = sent[k]
    BY SettingFacts DEF SentGrowsBy
  <2> QED BY <2>3, <2>4, <2>5 DEF MessagesInv, BrokerInv
<1>4. OwnInv'
  <2>1. \A i \in DOMAIN out' : Asking(out'[i]) => i \in DOMAIN out /\ out'[i] = out[i]
    BY SilentFacts DEF OutGrows
  <2>2. \A k \in DOMAIN sent' : Answering(sent'[k]) => k \in DOMAIN sent /\ sent'[k] = sent[k]
    BY SettingFacts DEF SentGrowsBy
  <2>3. \A q : OwnPacket(q)' <=> OwnPacket(q)
    BY DEF OwnPacket
  <2>4. \A q : OwnAnswer(q)' <=> OwnAnswer(q)
    BY DEF OwnAnswer
  <2>5. op = "none" => \A q : OwnPacket(q) /\ OwnAnswer(q)
    BY DEF OwnPacket, OwnAnswer
  <2> QED BY <2>1, <2>2, <2>3, <2>4, <2>5 DEF OwnInv, BrokerInv
<1>5. Abandoned => Abandoned'
  BY DEF Abandoned
<1>6. TopicInv'
  <2>1. \A i \in DOMAIN out' : OnTopic(out'[i]) => i \in DOMAIN out /\ out'[i] = out[i]
    BY SilentFacts DEF OutGrows
  <2>2. \A k \in DOMAIN sent' : Answering(sent'[k]) => k \in DOMAIN sent /\ sent'[k] = sent[k]
    BY SettingFacts DEF SentGrowsBy
  <2>3. op \in {"subscribe", "unsubscribe"} => txPid' = txPid
    OBVIOUS
  <2> QED BY <1>5, <2>1, <2>2, <2>3 DEF TopicInv, BrokerInv
<1>7. ConnectInv'
  <2>1. \A i \in DOMAIN out' : out'[i].type = CONNECT => i \in DOMAIN out /\ out'[i] = out[i]
    BY SilentFacts DEF OutGrows
  <2>2. \A k \in DOMAIN sent' : sent'[k].type = CONNACK => k \in DOMAIN sent /\ sent'[k] = sent[k]
    BY SettingFacts DEF SentGrowsBy
  <2>3. \A k \in DOMAIN sent : k <= taken => k <= taken'
    OBVIOUS
  <2> QED BY <1>5, <2>1, <2>2, <2>3 DEF ConnectInv, BrokerInv
<1>8. CodeInv'
  <2>1. op \in {"puback", "pubrec", "pubcomp"} => txPid' = txPid
    OBVIOUS
  <2> QED BY <2>1 DEF CodeInv, BrokerInv
<1>9. ResultInv'
  BY DEF ResultInv, BrokerInv, SuccessIsReal, SubscriptionIsKnown
<1> QED BY <1>1, <1>2, <1>3, <1>4, <1>6, <1>7, <1>8, <1>9 DEF BrokerInv

\* The last byte of an answer: _returnCode says what the broker wrote, and the
\* answer is that of the request that waits.
LEMMA CodeStep ==
  ASSUME TypeOK, PlaceInv, BrokerInv, RxVariableHeader, ~(rxIndex + 1 < rxLength),
         returnCode' # returnCode,
         UNCHANGED <<op, subscribeQos, result, brokerVars>>
  PROVE  BrokerInv'
<1> USE Places DEF brokerVars
<1>1. /\ HasByte /\ WellFormed(Cur) /\ Cur.type \notin {PUBLISH, PINGRESP}
      /\ rxType = Cur.type /\ taken' = taken + 1
      /\ Cur.type # CONNACK => Word(rxBuf') = Cur.pid
      /\ Cur.type = CONNACK => rxBuf'[1] = Cur.code
      /\ Cur.type = SUBACK => rxBuf'[2] = Cur.code
  BY AnswerRead
<1>2. link /\ taken + 1 \in DOMAIN sent /\ Cur = sent[taken + 1]
  BY <1>1, ByteFacts DEF HasByte, Cur, TypeOK
<1>3. /\ UNCHANGED <<link, sent, connected, txPid>>
      /\ Cur.type # PUBREL /\ out' = out
      /\ Cur.type = CONNACK \/ Cur.pid = txPid
      /\ returnCode' = IF Cur.type \in {CONNACK, SUBACK} THEN Cur.code ELSE 0
  <2>1. UNCHANGED <<link, sent, connected, txPid>>
    BY DEF RxVariableHeader, InPoll, Advance
  <2>0. /\ returnCode' = IF rxType = CONNACK THEN rxBuf'[1]
                         ELSE IF rxType = PUBREL \/ Word(rxBuf') # txPid THEN returnCode
                         ELSE IF rxType = SUBACK THEN rxBuf'[2] ELSE 0
        /\ rxType # PUBREL => out' = out
    BY DEF RxVariableHeader, AnswersRequest
  <2>2. Cur.type # PUBREL /\ (Cur.type = CONNACK \/ Cur.pid = txPid)
    BY <1>1, <2>0 DEF CONNACK, PUBREL
  <2>3. out' = out
    BY <1>1, <2>0, <2>2
  <2>4. returnCode' = IF Cur.type \in {CONNACK, SUBACK} THEN Cur.code ELSE 0
    BY <1>1, <2>0, <2>2
  <2> QED BY <2>1, <2>2, <2>3, <2>4
<1>4. Answering(Cur) \/ Cur.type = CONNACK
  BY <1>1, <1>3, PacketFields DEF Answering, PacketTypes
<1>5. Answering(Cur) => Cur.pid = txPid /\ op # "connect" /\ OwnAnswer(Cur)
  <2>1. Answering(Cur) => Cur.pid = txPid
    BY <1>3 DEF Answering, CONNACK, PUBACK, PUBREC, PUBCOMP, SUBACK, UNSUBACK
  <2>2. Answering(Cur) => Cur.pid \in 1..txPid /\ (Cur.pid = txPid => OwnAnswer(Cur))
    BY <1>2 DEF BrokerInv, NumbersInv, OwnInv
  <2> QED BY <2>1, <2>2 DEF BrokerInv, NumbersInv
<1>6. Cur.type = CONNACK => op = "connect" /\ (accepted <=> Cur.code = 0)
  BY <1>2 DEF BrokerInv, ConnectInv
<1>7. NumbersInv' /\ PacketsInv' /\ OwnInv'
  BY <1>3 DEF BrokerInv, NumbersInv, PacketsInv, OwnInv, OwnPacket, OwnAnswer
<1>8. MessagesInv'
  BY <1>3 DEF BrokerInv, MessagesInv
<1>9. Abandoned => FALSE
  BY <1>2 DEF Abandoned
<1>10. \A i \in DOMAIN out : ~OnTopic(out[i])
  BY <1>2, <1>4, <1>5, <1>6, <1>9 DEF BrokerInv, TopicInv
<1>11. \A i \in DOMAIN out : out[i].type # CONNECT
  BY <1>2, <1>4, <1>5, <1>9 DEF BrokerInv, ConnectInv
<1>12. TopicInv'
  BY <1>3, <1>10 DEF TopicInv
<1>13. ConnectInv'
  <2>1. \A k, l \in DOMAIN sent : sent[k].type = CONNACK /\ sent[l].type = CONNACK => k = l
    BY DEF BrokerInv, ConnectInv
  <2>2. \A k \in DOMAIN sent : sent[k].type = CONNACK =>
          /\ k <= taken \/ op = "connect"
          /\ op = "connect" => (accepted <=> sent[k].code = 0)
    BY <1>2 DEF BrokerInv, ConnectInv
  <2>3. \A k \in DOMAIN sent : sent[k].type = CONNACK => k <= taken + 1
    <3> TAKE k \in DOMAIN sent
    <3>1. CASE Cur.type = CONNACK
      BY <1>2, <2>1, <3>1
    <3>2. CASE Answering(Cur)
      BY <1>5, <2>2, <3>2
    <3> QED BY <1>4, <3>1, <3>2
  <2>4. connected => accepted /\ op # "connect"
    BY DEF BrokerInv, ConnectInv
  <2> QED BY <1>1, <1>3, <1>11, <2>1, <2>2, <2>3, <2>4 DEF ConnectInv
<1>14. CodeInv'
  <2>1. CASE Cur.type = CONNACK
    BY <1>3, <1>6, <2>1 DEF CodeInv
  <2>2. CASE Answering(Cur)
    <3>1. Cur.type \in {PUBACK, PUBREC, PUBCOMP, SUBACK, UNSUBACK} /\ OwnAnswer(Cur)
          /\ op # "connect" /\ Cur.pid = txPid
      BY <1>5, <2>2 DEF Answering
    <3>2. /\ Cur.type = PUBACK => <<1, txPid>> \in received
          /\ Cur.type \in {PUBREC, PUBCOMP} => <<2, txPid>> \in received
      BY <1>2, <3>1 DEF BrokerInv, MessagesInv
    <3>3. op = "subscribe" => returnCode' \in {0, 128} /\ (subscribed <=> returnCode' = 0)
      BY <1>3, <3>1 DEF OwnAnswer
    <3>4. op = "unsubscribe" => ~subscribed
      BY <3>1 DEF OwnAnswer
    <3>5. /\ op = "puback" => Cur.type = PUBACK
          /\ op \in {"pubrec", "pubcomp"} => Cur.type \in {PUBREC, PUBCOMP}
      BY <3>1 DEF OwnAnswer
    <3> QED BY <1>3, <3>1, <3>2, <3>3, <3>4, <3>5 DEF CodeInv
  <2> QED BY <1>4, <2>1, <2>2
<1>15. ResultInv'
  BY <1>3 DEF BrokerInv, ResultInv, SuccessIsReal, SubscriptionIsKnown
<1> QED BY <1>7, <1>8, <1>12, <1>13, <1>14, <1>15 DEF BrokerInv

\* The broker takes a packet of the client, and may answer it.
OutShifts ==
  /\ 1 \in DOMAIN out
  /\ \A i \in DOMAIN out' : i \in Nat /\ i > 0 /\ i + 1 \in DOMAIN out /\ out'[i] = out[i + 1]
  /\ \A i \in DOMAIN out : i = 1 \/ (i - 1 \in DOMAIN out' /\ out'[i - 1] = out[i])
  /\ Len(out') = Len(out) - 1

\* A step of the broker: p is an answer to the packet h it has taken.
Answers(p, h) ==
  /\ link /\ p.type # PUBLISH
  /\ p.type = CONNACK => h.type = CONNECT /\ (accepted' <=> p.code = 0)
  /\ Answering(p) => Asking(h) /\ p.pid = h.pid
  /\ p.type = PUBACK => <<1, p.pid>> \in received'
  /\ p.type \in {PUBREC, PUBCOMP} => <<2, p.pid>> \in received'

LEMMA BrokerStep ==
  ASSUME TypeOK, BrokerInv, OutShifts, NEW h, h = out[1], NEW P, SentGrowsBy(P),
         \A p \in P : Answers(p, h),
         \A p \in P : Answering(p) /\ p.pid = txPid /\ OwnPacket(h) => OwnAnswer(p)',
         UNCHANGED <<link, taken, connected, txPid, returnCode, op, subscribeQos, result>>,
         received \subseteq received',
         h.type = PUBLISH /\ h.qos = 2 => <<2, h.pid>> \in received',
         accepted' = accepted \/ h.type = CONNECT,
         subscribed' = subscribed \/ OnTopic(h),
         OnTopic(h) /\ subscribed' => h.type = SUBSCRIBE
  PROVE  BrokerInv'
<1> USE Places
<1>0. /\ Asking(h) => h.pid \in 1..txPid /\ (h.pid = txPid => OwnPacket(h))
      /\ 1 \in DOMAIN out
  BY DEF BrokerInv, NumbersInv, OwnInv, OutShifts
<1>1. NumbersInv'
  <2>1. \A i \in DOMAIN out' : Asking(out'[i]) => out'[i].pid \in 1..txPid
    BY DEF BrokerInv, NumbersInv, OutShifts
  <2>2. \A k \in DOMAIN sent' : Answering(sent'[k]) => sent'[k].pid \in 1..txPid
    BY <1>0 DEF BrokerInv, NumbersInv, SentGrowsBy, Answers
  <2> QED BY <2>1, <2>2 DEF BrokerInv, NumbersInv
<1>2. PacketsInv'
  BY DEF BrokerInv, PacketsInv, OutShifts, SentGrowsBy, Answers
<1>3. \A k \in DOMAIN sent' : \/ k \in DOMAIN sent /\ sent'[k] = sent[k]
                              \/ k \notin DOMAIN sent /\ Answers(sent'[k], h) /\ sent'[k] \in P
  BY DEF SentGrowsBy
<1>4. MessagesInv'
  <2>1. \A k \in DOMAIN sent' :
          /\ sent'[k].type = PUBACK => <<1, sent'[k].pid>> \in received'
          /\ sent'[k].type \in {PUBREC, PUBCOMP} => <<2, sent'[k].pid>> \in received'
    BY <1>3 DEF BrokerInv, MessagesInv, Answers
  <2>2. ASSUME NEW pid, NEW n \in Nat, Behind(out, received, pid, n + 1)
        PROVE  Behind(out', received', pid, n)
    <3>1. CASE <<2, pid>> \in received
      BY <3>1 DEF Behind
    <3>2. CASE <<2, pid>> \notin received
      <4>1. PICK j \in DOMAIN out : /\ j < n + 1 /\ out[j].type = PUBLISH /\ out[j].qos = 2
                                    /\ out[j].pid = pid
        BY <2>2, <3>2 DEF Behind
      <4>2. CASE j = 1
        BY <4>1, <4>2 DEF Behind
      <4>3. CASE j # 1
        <5>1. j - 1 \in DOMAIN out' /\ out'[j - 1] = out[j] /\ j - 1 < n
          BY <4>1, <4>3 DEF OutShifts
        <5> QED BY <4>1, <5>1 DEF Behind
      <4> QED BY <4>2, <4>3
    <3> QED BY <3>1, <3>2
  <2>3. \A i \in DOMAIN out' : out'[i].type = PUBREL => Behind(out', received', out'[i].pid, i)
    <3> TAKE i \in DOMAIN out'
    <3>1. i + 1 \in DOMAIN out /\ out'[i] = out[i + 1] /\ i \in Nat
      BY DEF OutShifts
    <3> QED BY <2>2, <3>1 DEF BrokerInv, MessagesInv
  <2>4. op \in {"pubrec", "pubcomp"} => Behind(out', received', txPid, Len(out') + 1)
    <3>1. Len(out) \in Nat /\ Len(out') + 1 = Len(out)
      BY DEF OutShifts
    <3> QED BY <2>2, <3>1 DEF BrokerInv, MessagesInv
  <2> QED BY <2>1, <2>3, <2>4 DEF MessagesInv
<1>5. OnTopic(h) => \/ Abandoned
                    \/ /\ op \in {"subscribe", "unsubscribe"} /\ returnCode = -1
                       /\ h.pid = txPid /\ OwnPacket(h)
                       /\ \A k \in DOMAIN sent : Answering(sent[k]) => sent[k].pid # txPid
  <2>1. OnTopic(h) => Asking(h)
    BY DEF OnTopic, Asking
  <2> QED BY <1>0, <2>1 DEF BrokerInv, TopicInv
<1>6. OnTopic(h) => \A i \in DOMAIN out' : ~OnTopic(out'[i])
  BY <1>0 DEF BrokerInv, TopicInv, OutShifts
<1>7. h.type = CONNECT => \/ Abandoned
                          \/ /\ op = "connect" /\ returnCode = -1
                             /\ \A k \in DOMAIN sent : sent[k].type # CONNACK
  BY <1>0 DEF BrokerInv, ConnectInv
<1>8. h.type = CONNECT => \A i \in DOMAIN out' : out'[i].type # CONNECT
  BY <1>0 DEF BrokerInv, ConnectInv, OutShifts
<1>9. Abandoned' <=> Abandoned
  BY DEF Abandoned
<1>10. OwnInv'
  <2>1. \A q : OwnPacket(q)' <=> OwnPacket(q)
    BY DEF OwnPacket
  <2>2. \A i \in DOMAIN out' : Asking(out'[i]) /\ out'[i].pid = txPid => OwnPacket(out'[i])
    BY DEF BrokerInv, OwnInv, OutShifts
  <2>3. ASSUME NEW k \in DOMAIN sent, Answering(sent[k]), sent[k].pid = txPid
        PROVE  \A p : p = sent[k] => OwnAnswer(p)'
    <3>1. OwnAnswer(sent[k])
      BY <2>3 DEF BrokerInv, OwnInv
    <3>2. CASE OnTopic(h)
      <4>1. Abandoned
        BY <1>5, <2>3, <3>2
      <4> QED BY <4>1 DEF Abandoned, OwnAnswer
    <3>3. CASE ~OnTopic(h)
      BY <3>1, <3>3 DEF OwnAnswer
    <3> QED BY <3>2, <3>3
  <2>4. ASSUME NEW p \in P, Answering(p), p.pid = txPid
        PROVE  OwnAnswer(p)'
    BY <1>0, <2>4 DEF Answers
  <2>5. \A p : Answering(p)' <=> Answering(p)
    BY DEF Answering
  <2>6. ASSUME NEW k \in DOMAIN sent', Answering(sent'[k]), sent'[k].pid = txPid,
               NEW p, p = sent'[k]
        PROVE  OwnAnswer(p)'
    BY <1>3, <2>3, <2>4, <2>6
  <2> QED BY <2>1, <2>2, <2>6 DEF OwnInv
<1>11. TopicInv'
  <2>1. CASE OnTopic(h)
    BY <1>6, <2>1 DEF TopicInv
  <2>2. CASE ~OnTopic(h)
    <3>1. \A i, j \in DOMAIN out' : OnTopic(out'[i]) /\ OnTopic(out'[j]) => i = j
      BY DEF BrokerInv, TopicInv, OutShifts
    <3>2. ASSUME NEW i \in DOMAIN out', OnTopic(out'[i]), ~Abandoned
          PROVE  /\ op \in {"subscribe", "unsubscribe"} /\ returnCode = -1
                 /\ out'[i].pid = txPid
                 /\ \A k \in DOMAIN sent' : Answering(sent'[k]) => sent'[k].pid # txPid
      <4>1. i + 1 \in DOMAIN out /\ out'[i] = out[i + 1]
        BY DEF OutShifts
      <4>2. /\ op \in {"subscribe", "unsubscribe"} /\ returnCode = -1
            /\ out'[i].pid = txPid
            /\ \A k \in DOMAIN sent : Answering(sent[k]) => sent[k].pid # txPid
        BY <3>2, <4>1 DEF BrokerInv, TopicInv
      <4>3. Asking(h) => h.pid # txPid
        BY <1>0, <2>2, <4>2 DEF OwnPacket, OnTopic
      <4>4. \A k \in DOMAIN sent' : Answering(sent'[k]) => sent'[k].pid # txPid
        BY <1>3, <4>2, <4>3 DEF Answers
      <4> QED BY <4>2, <4>4
    <3> QED BY <1>9, <3>1, <3>2 DEF TopicInv
  <2> QED BY <2>1, <2>2
<1>12. ConnectInv'
  <2>1. \A i, j \in DOMAIN out' : out'[i].type = CONNECT /\ out'[j].type = CONNECT => i = j
    BY DEF BrokerInv, ConnectInv, OutShifts
  <2>2. \A i \in DOMAIN out' : out'[i].type = CONNECT =>
          \/ Abandoned'
          \/ /\ op = "connect" /\ returnCode = -1
             /\ \A k \in DOMAIN sent' : sent'[k].type # CONNACK
    BY <1>3, <1>8, <1>9 DEF BrokerInv, ConnectInv, OutShifts, Answers
  <2>3. \A k, l \in DOMAIN sent' : sent'[k].type = CONNACK /\ sent'[l].type = CONNACK => k = l
    <3> SUFFICES ASSUME NEW k \in DOMAIN sent', NEW l \in DOMAIN sent',
                        sent'[k].type = CONNACK, sent'[l].type = CONNACK, k # l
                 PROVE  FALSE
      OBVIOUS
    <3>1. k \in DOMAIN sent \/ l \in DOMAIN sent
      BY DEF SentGrowsBy
    <3>2. ~(k \in DOMAIN sent /\ l \in DOMAIN sent)
      BY <1>3 DEF BrokerInv, ConnectInv
    <3>3. h.type = CONNECT
      BY <1>3, <3>2 DEF Answers
    <3> QED BY <1>3, <1>7, <3>1, <3>2, <3>3 DEF Answers, Abandoned
  <2>4. \A k \in DOMAIN sent' : sent'[k].type = CONNACK =>
          /\ k <= taken \/ ~link \/ (op = "connect" /\ returnCode = -1)
          /\ op = "connect" => (accepted' <=> sent'[k].code = 0)
    <3> TAKE k \in DOMAIN sent'
    <3>1. CASE k \in DOMAIN sent
      <4>1. sent'[k] = sent[k]
        BY <1>3, <3>1
      <4> QED BY <1>7, <3>1, <4>1 DEF BrokerInv, ConnectInv, Abandoned
    <3>2. CASE k \notin DOMAIN sent
      BY <1>3, <1>7, <3>2 DEF Answers, Abandoned
    <3> QED BY <3>1, <3>2
  <2>5. connected => accepted' /\ op # "connect"
    BY <1>7 DEF BrokerInv, ConnectInv, Abandoned
  <2> QED BY <2>1, <2>2, <2>3, <2>4, <2>5 DEF ConnectInv
<1>13. CodeInv'
  BY <1>5, <1>7 DEF BrokerInv, CodeInv, Abandoned
<1>14. ResultInv'
  <2>1. result.ok => accepted' = accepted /\ subscribed' = subscribed
    BY <1>5, <1>7 DEF BrokerInv, ResultInv, Abandoned
  <2>2. subscribed' /\ link /\ op # "subscribe" => subscribed' = subscribed
    <3> SUFFICES ASSUME subscribed', link, op # "subscribe", OnTopic(h) PROVE FALSE
      OBVIOUS
    <3>1. op = "unsubscribe" /\ OwnPacket(h)
      BY <1>5 DEF Abandoned
    <3>2. h.type = UNSUBSCRIBE /\ h.type = SUBSCRIBE
      BY <3>1 DEF OwnPacket
    <3> QED BY <3>2 DEF SUBSCRIBE, UNSUBSCRIBE
  <2>3. SuccessIsReal'
    BY <2>1, <1>12 DEF BrokerInv, ResultInv, SuccessIsReal, ConnectInv
  <2>4. SubscriptionIsKnown'
    BY <2>2 DEF BrokerInv, ResultInv, SubscriptionIsKnown
  <2> QED BY <2>3, <2>4 DEF BrokerInv, ResultInv
<1> QED BY <1>1, <1>2, <1>4, <1>10, <1>11, <1>12, <1>13, <1>14 DEF BrokerInv

\* A request begins: its identifier is new to this connection.
LEMMA RequestStep ==
  ASSUME TypeOK, BrokerInv, op = "none", link,
         NEW q \in ClientPacket, out' = Append(out, q),
         Asking(q), q.type # PUBREL, q.pid = txPid + 1, txPid' = txPid + 1,
         op' \in {"subscribe", "unsubscribe", "puback", "pubrec"},
         OnTopic(q) <=> op' \in {"subscribe", "unsubscribe"},
         op' = "subscribe" => q.type = SUBSCRIBE,
         op' = "unsubscribe" => q.type = UNSUBSCRIBE,
         op' = "puback" => q.type = PUBLISH /\ q.qos = 1,
         op' = "pubrec" => q.type = PUBLISH /\ q.qos = 2,
         returnCode' = -1, result' = None,
         UNCHANGED <<link, sent, taken, connected, brokerVars>>,
         subscribeQos' = subscribeQos \/ op' = "subscribe"
  PROVE  BrokerInv'
<1> USE Places DEF brokerVars
<1> DEFINE n == Len(out)
<1>0. /\ n \in Nat /\ DOMAIN out = 1..n /\ DOMAIN out' = 1..(n + 1) /\ Len(out') = n + 1
      /\ \A i \in 1..n : out'[i] = out[i]
      /\ out'[n + 1] = q
      /\ \A i \in 1..(n + 1) : i \in 1..n \/ i = n + 1
  <2>1. out \in Seq(ClientPacket)
    BY DEF TypeOK
  <2> QED BY <2>1
<1> HIDE DEF n
<1>1. ~Abandoned
  BY DEF Abandoned
<1>2. \A i \in DOMAIN out : ~OnTopic(out[i]) /\ out[i].type # CONNECT
  BY <1>1 DEF BrokerInv, TopicInv, ConnectInv
<1>3. /\ \A i \in DOMAIN out : Asking(out[i]) => out[i].pid \in 1..txPid
      /\ \A k \in DOMAIN sent : Answering(sent[k]) => sent[k].pid \in 1..txPid
  BY DEF BrokerInv, NumbersInv
<1>4. \A x \in 1..txPid : x \in 1..(txPid + 1) /\ x # txPid + 1
  OBVIOUS
<1>5. q.type # CONNECT /\ q.type # PUBREC
  BY DEF Asking, CONNECT, PUBREC, SUBSCRIBE, UNSUBSCRIBE, PUBREL, PUBLISH
<1>6. NumbersInv'
  <2>1. txPid + 1 \in 1..(txPid + 1) /\ txPid + 1 > 0
    OBVIOUS
  <2>2. \A i \in 1..(n + 1) : Asking(out'[i]) => out'[i].pid \in 1..(txPid + 1)
    BY <1>0, <1>3, <1>4, <2>1
  <2>3. \A k \in DOMAIN sent : Answering(sent[k]) => sent[k].pid \in 1..(txPid + 1)
    BY <1>3, <1>4
  <2> QED BY <1>0, <2>1, <2>2, <2>3 DEF NumbersInv
<1>7. PacketsInv'
  BY <1>0, <1>5 DEF BrokerInv, PacketsInv
<1>8. MessagesInv'
  <2>1. \A pid, i : Behind(out, received, pid, i) => Behind(out', received, pid, i)
    BY <1>0 DEF Behind
  <2>2. \A i \in 1..(n + 1) : out'[i].type = PUBREL => Behind(out', received, out'[i].pid, i)
    BY <1>0, <2>1 DEF BrokerInv, MessagesInv
  <2>3. op' = "pubrec" => Behind(out', received, txPid + 1, n + 1 + 1)
    BY <1>0 DEF Behind
  <2> QED BY <1>0, <2>2, <2>3 DEF BrokerInv, MessagesInv
<1>9. OwnInv'
  <2>1. \A i \in 1..(n + 1) : Asking(out'[i]) /\ out'[i].pid = txPid + 1 => out'[i] = q
    BY <1>0, <1>3, <1>4
  <2>2. \A r : r = q => OwnPacket(r)'
    BY DEF OwnPacket
  <2>3. \A k \in DOMAIN sent : Answering(sent[k]) => sent[k].pid # txPid + 1
    BY <1>3, <1>4
  <2> QED BY <1>0, <2>1, <2>2, <2>3 DEF OwnInv
<1>10. TopicInv'
  <2>1. \A i \in 1..(n + 1) : OnTopic(out'[i]) => i = n + 1 /\ out'[i] = q
    BY <1>0, <1>2
  <2>2. \A k \in DOMAIN sent : Answering(sent[k]) => sent[k].pid # txPid + 1
    BY <1>3, <1>4
  <2> QED BY <1>0, <2>1, <2>2 DEF TopicInv
<1>11. ConnectInv'
  <2>1. \A i \in 1..(n + 1) : out'[i].type # CONNECT
    BY <1>0, <1>2, <1>5
  <2>2. \A k \in DOMAIN sent : sent[k].type = CONNACK => k <= taken
    BY DEF BrokerInv, ConnectInv
  <2> QED BY <1>0, <2>1, <2>2 DEF BrokerInv, ConnectInv
<1>12. CodeInv' /\ ResultInv'
  BY DEF BrokerInv, CodeInv, ResultInv, SuccessIsReal, SubscriptionIsKnown, None, ConnectInv
<1> QED BY <1>6, <1>7, <1>8, <1>9, <1>10, <1>11, <1>12 DEF BrokerInv

\* connect() begins: whatever was in flight belonged to the last connection.
LEMMA ConnectStep ==
  ASSUME TypeOK, Connect
  PROVE  BrokerInv'
<1> DEFINE hello == [type |-> CONNECT, qos |-> 0, pid |-> 0]
<1>1. /\ out' = <<>> \/ (link' /\ out' = <<hello>>)
      /\ sent' = <<>> /\ txPid' = 0 /\ connected' = FALSE
      /\ op' = "connect" => returnCode' = -1
      /\ subscribed' = FALSE /\ ~result'.ok /\ op' \in {"none", "connect"}
      /\ link' => op' = "connect"
  BY DEF Connect, Done, None, Idle
<1>2. hello.type = CONNECT /\ ~Asking(hello) /\ ~OnTopic(hello)
      /\ hello.type \notin {PUBREL, PUBREC}
  BY DEF Asking, OnTopic, CONNECT, SUBSCRIBE, UNSUBSCRIBE, PUBREL, PUBLISH, PUBREC
<1> HIDE DEF hello
<1>3. \A i \in DOMAIN out' : i = 1 /\ out'[i] = hello /\ op' = "connect"
  BY <1>1
<1>4. DOMAIN sent' = {}
  BY <1>1
<1>5. NumbersInv' /\ PacketsInv' /\ MessagesInv' /\ OwnInv'
  BY <1>1, <1>2, <1>3, <1>4 DEF NumbersInv, PacketsInv, MessagesInv, OwnInv
<1>6. TopicInv' /\ ConnectInv'
  BY <1>1, <1>2, <1>3, <1>4 DEF TopicInv, ConnectInv
<1>7. CodeInv' /\ ResultInv'
  BY <1>1 DEF CodeInv, ResultInv, SuccessIsReal, SubscriptionIsKnown
<1> QED BY <1>5, <1>6, <1>7 DEF BrokerInv

\* A request returns.  connect(), subscribe() and unsubscribe() close the
\* connection when they give up.
LEMMA ReturnStep ==
  ASSUME TypeOK, BrokerInv, op # "none", op' = "none", OutGrows,
         UNCHANGED <<sent, taken, txPid, returnCode, brokerVars>>,
         link' => link,
         op \in {"connect", "subscribe", "unsubscribe"} =>
           returnCode # -1 \/ (~link' /\ ~connected' /\ ~result'.ok),
         connected' => connected \/ (op = "connect" /\ returnCode = 0),
         SuccessIsReal', SubscriptionIsKnown'
  PROVE  BrokerInv'
<1> USE Places DEF brokerVars
<1>1. /\ \A i \in DOMAIN out' : Asking(out'[i]) => i \in DOMAIN out /\ out'[i] = out[i]
      /\ \A i \in DOMAIN out' : OnTopic(out'[i]) => i \in DOMAIN out /\ out'[i] = out[i]
      /\ \A i \in DOMAIN out' : out'[i].type = CONNECT => i \in DOMAIN out /\ out'[i] = out[i]
      /\ \A i \in DOMAIN out' : out'[i].type = PUBREL => i \in DOMAIN out /\ out'[i] = out[i]
  BY SilentFacts DEF OutGrows
<1>2. ~Abandoned
  BY DEF Abandoned
<1>3. NumbersInv' /\ PacketsInv'
  BY <1>1 DEF BrokerInv, NumbersInv, PacketsInv, OutGrows
<1>4. MessagesInv'
  <2>1. \A pid, i : Behind(out, received, pid, i) => Behind(out', received, pid, i)
    BY DEF Behind, OutGrows
  <2> QED BY <1>1, <2>1 DEF BrokerInv, MessagesInv
<1>5. OwnInv'
  BY DEF OwnInv, OwnPacket, OwnAnswer
<1>6. TopicInv'
  <2>1. ASSUME NEW i \in DOMAIN out, OnTopic(out[i])
        PROVE  Abandoned'
    <3>1. op \in {"subscribe", "unsubscribe"} /\ returnCode = -1
      BY <1>2, <2>1 DEF BrokerInv, TopicInv
    <3> QED BY <3>1 DEF Abandoned
  <2> QED BY <1>1, <2>1 DEF BrokerInv, TopicInv
<1>7. ConnectInv'
  <2>1. ASSUME NEW i \in DOMAIN out, out[i].type = CONNECT
        PROVE  Abandoned'
    <3>1. op = "connect" /\ returnCode = -1
      BY <1>2, <2>1 DEF BrokerInv, ConnectInv
    <3> QED BY <3>1 DEF Abandoned
  <2>2. \A k \in DOMAIN sent : sent[k].type = CONNACK => k <= taken \/ ~link'
    BY DEF BrokerInv, ConnectInv
  <2>3. connected' => accepted
    BY DEF BrokerInv, ConnectInv, CodeInv
  <2> QED BY <1>1, <2>1, <2>2, <2>3 DEF BrokerInv, ConnectInv
<1>8. CodeInv' /\ ResultInv'
  BY DEF CodeInv, ResultInv
<1> QED BY <1>3, <1>4, <1>5, <1>6, <1>7, <1>8 DEF BrokerInv

\* The second half of a QoS 2 publish.
LEMMA ReleaseStep ==
  ASSUME TypeOK, BrokerInv, op = "pubrec", op' = "pubcomp",
         out' = Write(out, PUBREL, txPid), returnCode' = -1,
         UNCHANGED <<link, sent, taken, connected, txPid, subscribeQos, result, brokerVars>>
  PROVE  BrokerInv'
<1> USE Places DEF brokerVars
<1> DEFINE q == [type |-> PUBREL, qos |-> 0, pid |-> txPid]
           n == Len(out)
<1>0. /\ n \in Nat /\ DOMAIN out = 1..n
      /\ \A i \in DOMAIN out : i \in DOMAIN out' /\ out'[i] = out[i]
      /\ \A i \in DOMAIN out' : (i \in DOMAIN out /\ out'[i] = out[i])
                                \/ (i = n + 1 /\ out'[i] = q)
      /\ n <= Len(out') /\ Len(out') \in Nat
  <2>1. out \in Seq(ClientPacket)
    BY DEF TypeOK
  <2>2. out' = IF link THEN Append(out, q) ELSE out
    BY DEF Write, WriteQos
  <2> HIDE DEF q
  <2>3. CASE link
    <3>1. /\ n \in Nat /\ DOMAIN out = 1..n /\ DOMAIN out' = 1..(n + 1) /\ Len(out') = n + 1
          /\ \A i \in 1..n : out'[i] = out[i]
          /\ out'[n + 1] = q
      BY <2>1, <2>2, <2>3
    <3> QED BY <3>1
  <2>4. CASE ~link
    BY <2>1, <2>2, <2>4
  <2> QED BY <2>3, <2>4
<1>1. q.type = PUBREL /\ q.pid = txPid
  OBVIOUS
<1> HIDE DEF q, n
<1>2. q.type \notin {PUBREC, CONNECT} /\ ~OnTopic(q)
  BY <1>1 DEF OnTopic, PUBREL, PUBREC, CONNECT, SUBSCRIBE, UNSUBSCRIBE
<1>3. ~Abandoned /\ txPid > 0
  BY DEF Abandoned, BrokerInv, NumbersInv
<1>4. \A i \in DOMAIN out : ~OnTopic(out[i]) /\ out[i].type # CONNECT
  BY <1>3 DEF BrokerInv, TopicInv, ConnectInv
<1>5. NumbersInv' /\ PacketsInv'
  BY <1>0, <1>1, <1>2, <1>3 DEF BrokerInv, NumbersInv, PacketsInv
<1>6. MessagesInv'
  <2>1. \A pid, i : Behind(out, received, pid, i) => Behind(out', received, pid, i)
    BY <1>0 DEF Behind
  <2>2. Behind(out', received, txPid, n + 1)
    BY <2>1 DEF BrokerInv, MessagesInv, n
  <2>3. \A i \in DOMAIN out' : out'[i].type = PUBREL => Behind(out', received, out'[i].pid, i)
    BY <1>0, <1>1, <2>1, <2>2 DEF BrokerInv, MessagesInv
  <2>4. Behind(out', received, txPid, Len(out') + 1)
    BY <1>0, <2>2 DEF Behind
  <2> QED BY <2>3, <2>4 DEF BrokerInv, MessagesInv
<1>7. OwnInv'
  <2>1. \A r : OwnPacket(r) \/ r.type = PUBREL => OwnPacket(r)'
    BY DEF OwnPacket
  <2>2. \A p : OwnAnswer(p) => OwnAnswer(p)'
    BY DEF OwnAnswer
  <2> QED BY <1>0, <1>1, <2>1, <2>2 DEF BrokerInv, OwnInv
<1>8. TopicInv' /\ ConnectInv'
  BY <1>0, <1>2, <1>4 DEF BrokerInv, TopicInv, ConnectInv
<1>9. CodeInv' /\ ResultInv'
  BY DEF BrokerInv, CodeInv, ResultInv, SuccessIsReal, SubscriptionIsKnown
<1> QED BY <1>5, <1>6, <1>7, <1>8, <1>9 DEF BrokerInv
-----------------------------------------------------------------------------
(* The steps of the client are of these kinds.                             *)

\* A packet written without waiting.
LEMMA WriteSilent ==
  ASSUME TypeOK, NEW type \in {PUBACK, PUBREC, PUBCOMP, PINGREQ, DISCONNECT},
         NEW pid \in Words, type = PUBREC => Ack(PUBREL, pid) \in Packets,
         out' = Write(out, type, pid)
  PROVE  OutGrows
<1> DEFINE q == [type |-> type, qos |-> 0, pid |-> pid]
<1>1. q \in ClientPacket
  BY ClientTypeFacts DEF ClientPacket
<1>2. q.type = type /\ q.pid = pid /\ Silent(q)
  BY DEF Silent
<1>3. out' = IF link THEN Append(out, q) ELSE out
  BY DEF Write, WriteQos
<1> HIDE DEF q
<1> QED BY <1>1, <1>2, <1>3, Writing

\* stop().
LEMMA StopSilent ==
  ASSUME TypeOK, Stop
  PROVE  OutGrows /\ link' = FALSE /\ connected' = FALSE
<1>1. link' = FALSE /\ connected' = FALSE
  BY DEF Stop
<1>2. 0 \in Words /\ DISCONNECT # PUBREC
  BY ClientTypeFacts DEF DISCONNECT, PUBREC
<1>3. CASE connected
  BY <1>1, <1>2, <1>3, WriteSilent DEF Stop
<1>4. CASE ~connected
  BY <1>1, <1>4, Writing DEF Stop
<1> QED BY <1>3, <1>4

\* An acknowledgement: a PUBREC names a message the broker has.
LEMMA AckSilent ==
  ASSUME TypeOK, DeliveredInv, PacketsInv, InHand, AckRxMessage
  PROVE  OutGrows
<1>1. HandIsLast /\ \A i \in DOMAIN delivered : Faithful(delivered[i])
  BY DEF DeliveredInv
<1>2. Len(delivered) \in DOMAIN delivered
  BY <1>1 DEF HandIsLast, TypeOK
<1>3. rxQos = 2 => Ack(PUBREL, rxPid) \in Packets
  <2>1. Last.at \in DOMAIN sent /\ sent[Last.at].type = PUBLISH
    BY <1>1, <1>2 DEF Last, Faithful
  <2>2. sent[Last.at] \in Settings
    BY <2>1 DEF PacketsInv
  <2>3. sent[Last.at].qos = 2 => Ack(PUBREL, sent[Last.at].pid) \in Packets
    BY <2>2, AnswersAssumption
  <2>4. rxQos = sent[Last.at].qos /\ (rxQos > 0 => rxPid = sent[Last.at].pid)
    BY <1>1 DEF HandIsLast
  <2> QED BY <2>3, <2>4
<1>4. rxPid \in Words /\ PUBACK # PUBREC
  BY DEF TypeOK, PUBACK, PUBREC
<1>5. CASE rxQos = 1
  BY <1>4, <1>5, WriteSilent DEF AckRxMessage
<1>6. CASE rxQos = 2
  BY <1>3, <1>4, <1>6, WriteSilent DEF AckRxMessage
<1>7. CASE rxQos \notin {1, 2}
  BY <1>7, Writing DEF AckRxMessage
<1> QED BY <1>5, <1>6, <1>7

\* A byte taken is one more of the stream.
LEMMA AdvanceForward ==
  ASSUME TypeOK, Advance
  PROVE  sent' = sent /\ link' = link /\ taken' \in Nat /\ taken <= taken'
BY Places DEF Advance

Quiet ==
  /\ OutGrows /\ SentGrowsBy(Settings)
  /\ UNCHANGED <<returnCode, txPid>>
  /\ taken' \in Nat /\ taken <= taken'
  /\ link' => link
  /\ connected' => connected

\* poll() and read() do nothing else, but for the last byte of an answer.
LEMMA PollQuiet ==
  ASSUME NothingShifts, TypeOK, TypeOK', PlaceInv, DeliveredInv, PacketsInv, Poll \/ AppReads
  PROVE  \/ Quiet
         \/ RxVariableHeader /\ ~(rxIndex + 1 < rxLength) /\ returnCode' # returnCode
<1> USE Places DEF reqVars, netVars, rxVars, hdrVars, pubVars, hisVars
<1>1. CASE RxType \/ RxLengthByte \/ RxTopicLength \/ RxTopic \/ RxPacketId \/ RxPayload
  <2>1. Advance /\ UNCHANGED <<out, connected, returnCode, txPid>>
    BY <1>1, NoAckAnnounced DEF RxType, RxLengthByte, RxTopicLength, RxTopic, RxPacketId,
       RxPayload, InPoll
  <2> QED BY <2>1, AdvanceForward, Writing DEF Quiet
<1>2. CASE RxVariableHeader
  <2>1. Advance /\ UNCHANGED <<connected, txPid>>
    BY <1>2 DEF RxVariableHeader, InPoll
  <2>2. CASE rxIndex + 1 < rxLength
    <3>1. UNCHANGED <<out, returnCode>>
      BY <1>2, <2>2 DEF RxVariableHeader
    <3> QED BY <2>1, <3>1, AdvanceForward, Writing DEF Quiet
  <2>3. CASE ~(rxIndex + 1 < rxLength) /\ returnCode' = returnCode
    <3>1. out' = out \/ out' = Write(out, PUBCOMP, Word(rxBuf'))
      BY <1>2, <2>3 DEF RxVariableHeader
    <3>2. PUBCOMP # PUBREC /\ Word(rxBuf') \in Words
      <4>1. rxBuf' \in [0..2 -> Bytes]
        BY DEF TypeOK
      <4>2. rxBuf'[0] \in Bytes /\ rxBuf'[1] \in Bytes
        BY <4>1
      <4> QED BY <4>2, WordType DEF Word, PUBCOMP, PUBREC
    <3>3. OutGrows
      BY <3>1, <3>2, WriteSilent, Writing
    <3> QED BY <2>1, <2>3, <3>3, AdvanceForward, Writing DEF Quiet
  <2> QED BY <1>2, <2>2, <2>3
<1>3. CASE PollEnds
  BY <1>3, Writing DEF PollEnds, Quiet
<1>4. CASE KeepAliveCheck
  <2>1. UNCHANGED <<sent, taken, returnCode, txPid>>
    BY <1>4 DEF KeepAliveCheck
  <2>2. OutGrows /\ (link' => link) /\ (connected' => connected)
    <3>1. CASE Stop
      BY <3>1, StopSilent
    <3>2. CASE ~Stop
      <4>1. /\ link' = link /\ connected' = connected
            /\ out' = out \/ out' = Write(out, PINGREQ, 0)
        BY <1>4, <3>2 DEF KeepAliveCheck
      <4>2. 0 \in Words /\ PINGREQ # PUBREC
        BY ClientTypeFacts DEF PINGREQ, PUBREC
      <4> QED BY <4>1, <4>2, WriteSilent, Writing
    <3> QED BY <3>1, <3>2
  <2> QED BY <2>1, <2>2, Writing DEF Quiet
<1>5. CASE AppReads
  <2>1. Advance /\ UNCHANGED <<connected, returnCode, txPid>> /\ InHand
    BY <1>5 DEF AppReads, InHand
  <2>2. OutGrows
    <3>1. AckRxMessage \/ out' = out
      BY <1>5 DEF AppReads
    <3> QED BY <2>1, <3>1, AckSilent, Writing
  <2> QED BY <2>1, <2>2, AdvanceForward, Writing DEF Quiet
<1>6. CASE CallbackReturns
  <2>1. UNCHANGED <<link, sent, taken, connected, returnCode, txPid>> /\ InHand
    BY <1>6 DEF CallbackReturns, InHand
  <2>2. OutGrows
    <3>1. AckRxMessage \/ out' = out
      BY <1>6 DEF CallbackReturns
    <3> QED BY <2>1, <3>1, AckSilent, Writing
  <2> QED BY <2>1, <2>2, Writing DEF Quiet
<1>7. ~RxMalformed /\ ~RxBadTopic
  BY NotMalformed, NotBadTopic
<1> QED BY <1>1, <1>2, <1>3, <1>4, <1>5, <1>6, <1>7 DEF Poll

\* The broker takes the oldest packet.
LEMMA Taking ==
  ASSUME TypeOK, NEW type, Takes(type)
  PROVE  /\ OutShifts /\ Head(out) = out[1] /\ out[1].type = type
         /\ out # <<>> /\ 1 \in DOMAIN out
<1>1. out \in Seq(ClientPacket) /\ out # <<>> /\ out' = Tail(out) /\ Head(out).type = type
  BY DEF TypeOK, Takes
<1>2. /\ DOMAIN out = 1..Len(out) /\ Len(out) \in Nat /\ Len(out) > 0
      /\ Len(out') = Len(out) - 1 /\ DOMAIN out' = 1..(Len(out) - 1)
      /\ \A i \in 1..(Len(out) - 1) : out'[i] = out[i + 1]
      /\ Head(out) = out[1]
  BY <1>1
<1> QED BY <1>1, <1>2 DEF OutShifts

\* What it answers arrives if there is a connection.
LEMMA Arriving ==
  ASSUME TypeOK, NEW p \in Packets, Answer(p)
  PROVE  /\ SentGrowsBy({x \in {p} : link})
         /\ UNCHANGED sent \/ BrokerWrites(p)
<1>1. CASE link
  <2>1. {x \in {p} : link} = {p}
    BY <1>1
  <2> QED BY <1>1, <2>1, Writing DEF Answer, BrokerWrites
<1>2. CASE ~link
  BY <1>2, Writing DEF Answer
<1> QED BY <1>1, <1>2

\* The fields of the broker's answers.
LEMMA AnswerFields ==
  ASSUME NEW type, NEW pid, NEW code
  PROVE  /\ Ack(type, pid).type = type /\ Ack(type, pid).pid = pid /\ Ack(type, pid).code = 0
         /\ Connack(code).type = CONNACK /\ Connack(code).code = code
         /\ Suback(pid, code).type = SUBACK /\ Suback(pid, code).pid = pid
         /\ Suback(pid, code).code = code
BY DEF Ack, Connack, Suback

\* The numbers of the types are different.
LEMMA TypeNumbers ==
  /\ CONNACK \notin {PUBLISH, PUBACK, PUBREC, PUBREL, PUBCOMP, SUBACK, UNSUBACK, PINGRESP}
  /\ PUBACK \notin {PUBLISH, CONNACK, PUBREC, PUBREL, PUBCOMP, SUBACK, UNSUBACK, PINGRESP}
  /\ PUBREC \notin {PUBLISH, CONNACK, PUBACK, PUBREL, PUBCOMP, SUBACK, UNSUBACK, PINGRESP}
  /\ PUBCOMP \notin {PUBLISH, CONNACK, PUBACK, PUBREC, PUBREL, SUBACK, UNSUBACK, PINGRESP}
  /\ SUBACK \notin {PUBLISH, CONNACK, PUBACK, PUBREC, PUBREL, PUBCOMP, UNSUBACK, PINGRESP}
  /\ UNSUBACK \notin {PUBLISH, CONNACK, PUBACK, PUBREC, PUBREL, PUBCOMP, SUBACK, PINGRESP}
  /\ PUBREL \notin {PUBLISH, CONNECT, SUBSCRIBE, UNSUBSCRIBE, PINGRESP}
  /\ PINGRESP # PUBLISH
  /\ PUBLISH \notin {CONNECT, SUBSCRIBE, UNSUBSCRIBE, PUBREL, PUBREC, PINGREQ, DISCONNECT}
  /\ SUBSCRIBE \notin {CONNECT, UNSUBSCRIBE, PUBREL, PUBREC, PUBACK, PUBCOMP}
  /\ UNSUBSCRIBE \notin {CONNECT, PUBREL, PUBREC, PUBACK, PUBCOMP}
  /\ CONNECT \notin {PUBREL, PUBREC, PUBACK, PUBCOMP, PINGREQ, DISCONNECT}
BY DEF CONNACK, PUBLISH, PUBACK, PUBREC, PUBREL, PUBCOMP, SUBACK, UNSUBACK, PINGRESP,
   CONNECT, SUBSCRIBE, UNSUBSCRIBE, PINGREQ, DISCONNECT

\* Identifiers the broker answers with are those of the client.
LEMMA OutNumbers ==
  ASSUME TypeOK, BrokerInv, NEW type, Takes(type)
  PROVE  /\ Asking(out[1]) => out[1].pid \in 1..MaxPacketId
         /\ out[1].type = PUBREC => Ack(PUBREL, out[1].pid) \in Packets
<1>1. 1 \in DOMAIN out
  BY Taking
<1>2. Asking(out[1]) => out[1].pid \in 1..txPid
  BY <1>1 DEF BrokerInv, NumbersInv
<1>3. out[1].type = PUBREC => Ack(PUBREL, out[1].pid) \in Packets
  BY <1>1 DEF BrokerInv, PacketsInv
<1> QED BY <1>2, <1>3, Places

\* Every answer is one the receiver is open to.
LEMMA BrokerMaps ==
  ASSUME TypeOK, BrokerInv, Broker
  PROVE  BrokerReads \/ \E p \in Packets : BrokerSends(p)
<1> USE DEF reqVars, rxVars, hisVars, elsewhere
<1>1. CASE BrokerConnects
  <2>1. PICK code \in {0, 5} : Answer(Connack(code))
    BY <1>1 DEF BrokerConnects
  <2>2. UNCHANGED sent \/ \E p \in Packets : BrokerWrites(p)
    BY <2>1, AnswersAssumption, Arriving
  <2> QED BY <1>1, <2>2 DEF BrokerConnects, BrokerReads, Takes
<1>2. CASE BrokerSubscribes
  <2>1. Takes(SUBSCRIBE) /\ Head(out) = out[1] /\ out[1].pid \in 1..MaxPacketId
    BY <1>2, Taking, OutNumbers DEF BrokerSubscribes, Asking
  <2>2. PICK code \in {0, 128} : Answer(Suback(Head(out).pid, code))
    BY <1>2 DEF BrokerSubscribes
  <2>3. UNCHANGED sent \/ \E p \in Packets : BrokerWrites(p)
    BY <2>1, <2>2, AnswersAssumption, Arriving
  <2> QED BY <1>2, <2>3 DEF BrokerSubscribes, BrokerReads, Takes
<1>3. CASE BrokerUnsubscribes
  <2>1. Takes(UNSUBSCRIBE) /\ Head(out) = out[1] /\ out[1].pid \in 1..MaxPacketId
    BY <1>3, Taking, OutNumbers DEF BrokerUnsubscribes, Asking
  <2>2. Answer(Ack(UNSUBACK, Head(out).pid))
    BY <1>3 DEF BrokerUnsubscribes
  <2>3. UNCHANGED sent \/ \E p \in Packets : BrokerWrites(p)
    BY <2>1, <2>2, AnswersAssumption, Arriving
  <2> QED BY <1>3, <2>3 DEF BrokerUnsubscribes, BrokerReads, Takes
<1>4. CASE BrokerReceives
  <2>1. Takes(PUBLISH) /\ Head(out) = out[1] /\ out[1].type = PUBLISH
        /\ (out[1].qos > 0 => out[1].pid \in 1..MaxPacketId)
    BY <1>4, Taking, OutNumbers DEF BrokerReceives, Asking
  <2>2. CASE out[1].qos = 0
    BY <1>4, <2>1, <2>2 DEF BrokerReceives, BrokerReads, Takes
  <2>3. CASE out[1].qos # 0
    <3>1. out[1].qos > 0
      <4>1. out \in Seq(ClientPacket) /\ 1 \in DOMAIN out
        BY <2>1, Taking DEF TypeOK
      <4>2. out[1] \in ClientPacket
        BY <4>1
      <4>3. out[1].qos \in 0..2
        BY <4>2 DEF ClientPacket
      <4> QED BY <2>3, <4>3
    <3>2. PICK type \in {PUBACK, PUBREC} : Answer(Ack(type, out[1].pid))
      BY <1>4, <2>1, <2>3 DEF BrokerReceives
    <3>3. UNCHANGED sent \/ \E p \in Packets : BrokerWrites(p)
      BY <2>1, <3>1, <3>2, AnswersAssumption, Arriving
    <3> QED BY <1>4, <3>3 DEF BrokerReceives, BrokerReads, Takes
  <2> QED BY <2>2, <2>3
<1>5. CASE BrokerReleases
  <2>1. Takes(PUBREL) /\ Head(out) = out[1] /\ out[1].pid \in 1..MaxPacketId
    BY <1>5, Taking, OutNumbers DEF BrokerReleases, Asking
  <2>2. Answer(Ack(PUBCOMP, Head(out).pid))
    BY <1>5 DEF BrokerReleases
  <2>3. UNCHANGED sent \/ \E p \in Packets : BrokerWrites(p)
    BY <2>1, <2>2, AnswersAssumption, Arriving
  <2> QED BY <1>5, <2>3 DEF BrokerReleases, BrokerReads, Takes
<1>6. CASE BrokerReplies
  <2>1. UNCHANGED sent \/ \E p \in Packets : BrokerWrites(p)
    <3>1. CASE Takes(PUBREC) /\ Answer(Ack(PUBREL, Head(out).pid))
      BY <3>1, Taking, OutNumbers, Arriving
    <3>2. CASE Takes(PINGREQ) /\ Answer(Ack(PINGRESP, 0))
      BY <3>2, AnswersAssumption, Arriving
    <3> QED BY <1>6, <3>1, <3>2 DEF BrokerReplies
  <2> QED BY <1>6, <2>1 DEF BrokerReplies, BrokerReads, Takes
<1>7. CASE \E p \in Settings : BrokerPublishes(p)
  BY <1>7, SettingsAssumption DEF BrokerPublishes
<1> QED BY <1>1, <1>2, <1>3, <1>4, <1>5, <1>6, <1>7 DEF Broker

\* Every step of the client and its broker is one of the receiver's system.
LEMMA ClientMaps ==
  ASSUME TypeOK, BrokerInv, [ClientNext]_clientVars
  PROVE  [Next]_vars
<1> USE DEF reqVars, rxVars, hisVars, hdrVars, pubVars, netVars, unread, untouched, brokerVars
<1>0. connected \in BOOLEAN /\ link \in BOOLEAN /\ txStream \in BOOLEAN
  BY DEF TypeOK
<1>1. CASE Connect
  <2>1. Reconnect
    BY <1>1 DEF Connect, Reconnect, Idle
  <2> QED BY <2>1 DEF Next, Caller
<1>2. ASSUME NEW type \in {SUBSCRIBE, UNSUBSCRIBE}, NEW what, Ask(type, what)
      PROVE  [Next]_vars
  <2>1. type \in Requests
    BY CallsAssumption
  <2>2. \E qos \in 0..2, pid \in {0, txPid'} : out' = WriteQos(out, type, qos, pid)
    BY <1>2 DEF Ask, Write
  <2>3. Request(type)
    BY <1>0, <1>2, <2>2 DEF Ask, Request, Idle
  <2> QED BY <2>1, <2>3 DEF Next, Caller
<1>3. ASSUME NEW qos \in 0..2, Publication(qos)
      PROVE  [Next]_vars
  <2>1. PUBLISH \in Requests
    BY CallsAssumption
  <2>2. \E q \in 0..2, pid \in {0, txPid'} : out' = WriteQos(out, PUBLISH, q, pid)
    BY <1>3 DEF Publication
  <2>3. /\ pc = "out" /\ Len(out) < MaxOut
        /\ txPid' \in {txPid, NextPid(txPid)}
        /\ returnCode' \in {returnCode, -1}
        /\ connected' \in {connected, connected /\ link}
        /\ UNCHANGED <<link, unread>>
    BY <1>3 DEF Publication, Idle
  <2>4. Request(PUBLISH)
    BY <1>0, <2>2, <2>3 DEF Request
  <2> QED BY <2>1, <2>4 DEF Next, Caller
<1>4. CASE WaitPolls \/ AppPolls
  <2>1. \E discard \in BOOLEAN : PollBegins(discard)
    BY <1>4 DEF WaitPolls, AppPolls
  <2> QED BY <2>1 DEF Next, Caller
<1>5. CASE ConnectReturns
  <2>1. CASE connected' = TRUE /\ returnCode = 0 /\ UNCHANGED link
    <3>1. Accepted
      BY <1>5, <2>1 DEF ConnectReturns, Answered, GaveUp, Accepted
    <3> QED BY <3>1 DEF Next, Caller
  <2>2. CASE link' = FALSE /\ UNCHANGED connected
    <3>1. LinkDrops \/ UNCHANGED vars
      BY <1>0, <1>5, <2>2 DEF ConnectReturns, LinkDrops, vars
    <3> QED BY <3>1 DEF Next, Environment
  <2> QED BY <1>5, <2>1, <2>2 DEF ConnectReturns
<1>6. CASE SubscribeReturns
  <2>1. CASE GaveUp /\ Stop
    <3>1. GiveUp
      BY <1>6, <2>1 DEF SubscribeReturns, GaveUp, GiveUp
    <3> QED BY <3>1 DEF Next, Caller
  <2>2. CASE UNCHANGED <<link, connected, out>>
    BY <1>6, <2>2 DEF SubscribeReturns, vars
  <2> QED BY <1>6, <2>1, <2>2 DEF SubscribeReturns
<1>7. CASE PubrecReturns
  <2>1. CASE returnCode \in {-1, 0}
    <3>1. PUBREL \in Requests
      BY CallsAssumption
    <3>2. \E qos \in 0..2, pid \in {0, txPid'} : out' = WriteQos(out, PUBREL, qos, pid)
      <4>1. out' = Write(out, PUBREL, txPid) /\ txPid' = txPid
        BY <1>7, <2>1 DEF PubrecReturns
      <4>2. out' = WriteQos(out, PUBREL, 0, txPid)
        BY <4>1 DEF Write
      <4>3. 0 \in 0..2
        OBVIOUS
      <4> QED BY ONLY <4>1, <4>2, <4>3
    <3>3. Request(PUBREL)
      BY <1>0, <1>7, <2>1, <3>2 DEF PubrecReturns, Request, Answered, GaveUp
    <3> QED BY <3>1, <3>3 DEF Next, Caller
  <2>2. CASE returnCode \notin {-1, 0}
    BY <1>7, <2>2 DEF PubrecReturns, vars
  <2> QED BY <2>1, <2>2
<1>8. CASE PublishReturns
  BY <1>8 DEF PublishReturns, vars
<1>9. CASE AppTakes
  BY <1>9 DEF AppTakes, Next, Caller
<1>10. CASE AppStops
  BY <1>10 DEF AppStops, Next, Caller
<1>11. CASE PollStep
  BY <1>11 DEF PollStep, Next
<1>12. CASE LinkFailure
  BY <1>12 DEF LinkFailure, Next, Environment
<1>13. CASE Broker
  BY <1>13, BrokerMaps DEF Next, Environment
<1>14. CASE UNCHANGED clientVars
  BY <1>14 DEF clientVars
<1>15. CASE ClientRequest
  <2>1. Ask(SUBSCRIBE, "subscribe") => [Next]_vars
    BY <1>2
  <2>2. Ask(UNSUBSCRIBE, "unsubscribe") => [Next]_vars
    BY <1>2
  <2> QED BY ONLY <1>1, <1>3, <1>15, <2>1, <2>2 DEF ClientRequest
<1>16. CASE ClientReturn
  BY ONLY <1>5, <1>6, <1>7, <1>8, <1>16 DEF ClientReturn
<1>17. ClientNext \/ UNCHANGED clientVars
  OBVIOUS
<1> QED BY ONLY <1>4, <1>9, <1>10, <1>11, <1>12, <1>13, <1>14, <1>15, <1>16, <1>17 DEF ClientNext
-----------------------------------------------------------------------------
(* The steps of the broker.                                                *)

\* It has answered the packet h, or kept silent.
LEMMA AnswerStep ==
  ASSUME TypeOK, BrokerInv, OutShifts, NEW h, h = out[1],
         NEW p \in Packets, Answer(p),
         link => Answers(p, h),
         Answering(p) /\ p.pid = txPid /\ OwnPacket(h) => OwnAnswer(p)',
         UNCHANGED elsewhere,
         received \subseteq received',
         h.type = PUBLISH /\ h.qos = 2 => <<2, h.pid>> \in received',
         accepted' = accepted \/ h.type = CONNECT,
         subscribed' = subscribed \/ OnTopic(h),
         OnTopic(h) /\ subscribed' => h.type = SUBSCRIBE
  PROVE  BrokerInv'
<1> DEFINE P == {x \in {p} : link}
<1>1. SentGrowsBy(P)
  BY Arriving
<1>2. \A x \in P : x = p /\ link
  OBVIOUS
<1> HIDE DEF P
<1>3. \A x \in P : Answers(x, h)
  BY <1>2
<1>4. ASSUME NEW x \in P, Answering(x), x.pid = txPid, OwnPacket(h)
      PROVE  OwnAnswer(x)'
  BY <1>2, <1>4
<1>5. UNCHANGED <<link, taken, connected, txPid, returnCode, op, subscribeQos, result>>
  BY DEF elsewhere, reqVars
<1> QED BY <1>1, <1>3, <1>4, <1>5, BrokerStep

\* CONNACK.
LEMMA ConnectsStep ==
  ASSUME TypeOK, BrokerInv, BrokerConnects
  PROVE  BrokerInv'
<1>1. /\ OutShifts /\ out[1].type = CONNECT
      /\ UNCHANGED <<elsewhere, subscribed, received>>
  BY Taking DEF BrokerConnects
<1>2. PICK code \in {0, 5} : Answer(Connack(code)) /\ accepted' = (code = 0)
  BY DEF BrokerConnects
<1>3. Connack(code) \in Packets
  BY AnswersAssumption
<1>4. ASSUME NEW h, h = out[1], NEW p \in Packets, p = Connack(code)
      PROVE  BrokerInv'
  <2>1. p.type = CONNACK /\ p.code = code /\ ~Answering(p) /\ h.type = CONNECT /\ ~OnTopic(h)
    BY <1>1, <1>4, AnswerFields, TypeNumbers DEF Answering, OnTopic
  <2>2. link => Answers(p, h)
    BY <1>2, <2>1, TypeNumbers DEF Answers
  <2>3. Answer(p)
    BY <1>2, <1>4
  <2> QED BY <1>1, <1>4, <2>1, <2>2, <2>3, AnswerStep, TypeNumbers
<1> QED BY <1>3, <1>4

\* SUBACK.
LEMMA SubscribesStep ==
  ASSUME TypeOK, BrokerInv, BrokerSubscribes
  PROVE  BrokerInv'
<1>1. /\ OutShifts /\ out[1].type = SUBSCRIBE /\ Head(out) = out[1]
      /\ UNCHANGED <<elsewhere, accepted, received>> /\ Takes(SUBSCRIBE)
  BY Taking DEF BrokerSubscribes
<1>2. PICK code \in {0, 128} : Answer(Suback(out[1].pid, code)) /\ subscribed' = (code = 0)
  BY <1>1 DEF BrokerSubscribes
<1>3. out[1].pid \in 1..MaxPacketId /\ Suback(out[1].pid, code) \in Packets
  BY <1>1, OutNumbers, AnswersAssumption DEF Asking
<1>4. ASSUME NEW h, h = out[1], NEW p \in Packets, p = Suback(h.pid, code)
      PROVE  BrokerInv'
  <2>1. /\ p.type = SUBACK /\ p.code = code /\ p.pid = h.pid /\ h.type = SUBSCRIBE
        /\ OnTopic(h) /\ Asking(h)
    BY <1>1, <1>4, AnswerFields DEF OnTopic, Asking
  <2>2. link => Answers(p, h)
    BY <2>1, TypeNumbers DEF Answers
  <2>3. Answer(p)
    BY <1>2, <1>4
  <2>4. ASSUME OwnPacket(h) PROVE OwnAnswer(p)'
    <3>1. op' = op /\ op # "unsubscribe" /\ op \notin {"puback", "pubrec", "pubcomp"}
      BY <1>1, <2>1, <2>4, TypeNumbers DEF OwnPacket, elsewhere
    <3> QED BY <1>2, <2>1, <3>1 DEF OwnAnswer
  <2> QED BY <1>1, <1>4, <2>1, <2>2, <2>3, <2>4, AnswerStep, TypeNumbers
<1> QED BY <1>3, <1>4

\* UNSUBACK.
LEMMA UnsubscribesStep ==
  ASSUME TypeOK, BrokerInv, BrokerUnsubscribes
  PROVE  BrokerInv'
<1>1. /\ OutShifts /\ out[1].type = UNSUBSCRIBE /\ Head(out) = out[1] /\ subscribed' = FALSE
      /\ UNCHANGED <<elsewhere, accepted, received>> /\ Takes(UNSUBSCRIBE)
  BY Taking DEF BrokerUnsubscribes
<1>2. Answer(Ack(UNSUBACK, out[1].pid))
  BY <1>1 DEF BrokerUnsubscribes
<1>3. out[1].pid \in 1..MaxPacketId /\ Ack(UNSUBACK, out[1].pid) \in Packets
  BY <1>1, OutNumbers, AnswersAssumption DEF Asking
<1>4. ASSUME NEW h, h = out[1], NEW p \in Packets, p = Ack(UNSUBACK, h.pid)
      PROVE  BrokerInv'
  <2>1. /\ p.type = UNSUBACK /\ p.pid = h.pid /\ h.type = UNSUBSCRIBE
        /\ OnTopic(h) /\ Asking(h)
    BY <1>1, <1>4, AnswerFields DEF OnTopic, Asking
  <2>2. link => Answers(p, h)
    BY <2>1, TypeNumbers DEF Answers
  <2>3. Answer(p)
    BY <1>2, <1>4
  <2>4. ASSUME OwnPacket(h) PROVE OwnAnswer(p)'
    <3>1. op' = op /\ op # "subscribe" /\ op \notin {"puback", "pubrec", "pubcomp"}
      BY <1>1, <2>1, <2>4, TypeNumbers DEF OwnPacket, elsewhere
    <3> QED BY <1>1, <2>1, <3>1 DEF OwnAnswer
  <2> QED BY <1>1, <1>4, <2>1, <2>2, <2>3, <2>4, AnswerStep, TypeNumbers
<1> QED BY <1>3, <1>4

\* PUBACK or PUBREC.
LEMMA ReceivesStep ==
  ASSUME TypeOK, BrokerInv, BrokerReceives
  PROVE  BrokerInv'
<1>1. /\ OutShifts /\ out[1].type = PUBLISH /\ Head(out) = out[1] /\ 1 \in DOMAIN out
      /\ UNCHANGED <<elsewhere, accepted, subscribed>> /\ Takes(PUBLISH)
      /\ received' = received \cup {<<out[1].qos, out[1].pid>>}
  BY Taking DEF BrokerReceives
<1>2. out[1].qos \in 0..2
  <2>1. out \in Seq(ClientPacket)
    BY DEF TypeOK
  <2>2. out[1] \in ClientPacket
    BY <1>1, <2>1
  <2> QED BY <2>2 DEF ClientPacket
<1>3. PICK h : h = out[1]
  OBVIOUS
<1>4. h.type = PUBLISH /\ h.qos \in 0..2 /\ ~OnTopic(h) /\ <<h.qos, h.pid>> \in received'
  BY <1>1, <1>2, <1>3, TypeNumbers DEF OnTopic
<1>5. CASE h.qos = 0
  <2>1. SentGrowsBy({})
    BY <1>1, <1>3, <1>5, Writing DEF BrokerReceives
  <2>2. UNCHANGED <<link, taken, connected, txPid, returnCode, op, subscribeQos, result>>
    BY <1>1 DEF elsewhere, reqVars
  <2> QED BY <1>1, <1>3, <1>4, <1>5, <2>1, <2>2, BrokerStep, TypeNumbers
<1>6. CASE h.qos # 0
  <2>1. Asking(h) /\ h.pid \in 1..MaxPacketId
    BY <1>1, <1>3, <1>4, <1>6, OutNumbers DEF Asking
  <2> DEFINE type == IF h.qos = 1 THEN PUBACK ELSE PUBREC
  <2>2. type \in {PUBACK, PUBREC} /\ Answer(Ack(type, h.pid))
    BY <1>1, <1>3, <1>6 DEF BrokerReceives
  <2>3. Ack(type, h.pid) \in Packets
    BY <2>1, <2>2, AnswersAssumption
  <2>4. ASSUME NEW p \in Packets, p = Ack(type, h.pid)
        PROVE  BrokerInv'
    <3>1. p.type = type /\ p.pid = h.pid
      BY <2>4, AnswerFields
    <3>2. /\ p.type = PUBACK => h.qos = 1
          /\ p.type = PUBREC => h.qos = 2
          /\ p.type \in {PUBACK, PUBREC}
      BY <1>4, <1>6, <3>1, TypeNumbers
    <3> HIDE DEF type
    <3>3. link => Answers(p, h)
      BY <1>4, <2>1, <3>1, <3>2, TypeNumbers DEF Answers
    <3>4. ASSUME OwnPacket(h) PROVE OwnAnswer(p)'
      <4>1. /\ op' = op /\ op \notin {"subscribe", "unsubscribe"}
            /\ op = "puback" => h.qos = 1
            /\ op \in {"pubrec", "pubcomp"} => h.qos = 2
        BY <1>1, <1>4, <3>4, TypeNumbers DEF OwnPacket, elsewhere
      <4>2. h.qos = 1 => p.type = PUBACK
        BY <3>2
      <4>3. h.qos = 2 => p.type = PUBREC
        BY <3>2
      <4> QED BY <4>1, <4>2, <4>3 DEF OwnAnswer
    <3>5. Answer(p)
      BY <2>2, <2>4
    <3> QED BY <1>1, <1>3, <1>4, <3>3, <3>4, <3>5, AnswerStep, TypeNumbers
  <2> QED BY <2>3, <2>4
<1> QED BY <1>5, <1>6

\* PUBCOMP.
LEMMA ReleasesStep ==
  ASSUME TypeOK, BrokerInv, BrokerReleases
  PROVE  BrokerInv'
<1>1. /\ OutShifts /\ out[1].type = PUBREL /\ Head(out) = out[1] /\ 1 \in DOMAIN out
      /\ UNCHANGED <<elsewhere, accepted, subscribed, received>> /\ Takes(PUBREL)
  BY Taking DEF BrokerReleases
<1>2. Answer(Ack(PUBCOMP, out[1].pid))
  BY <1>1 DEF BrokerReleases
<1>3. out[1].pid \in 1..MaxPacketId /\ Ack(PUBCOMP, out[1].pid) \in Packets
  BY <1>1, OutNumbers, AnswersAssumption DEF Asking
<1>4. ASSUME NEW h, h = out[1], NEW p \in Packets, p = Ack(PUBCOMP, h.pid)
      PROVE  BrokerInv'
  <2>1. /\ p.type = PUBCOMP /\ p.pid = h.pid /\ h.type = PUBREL
        /\ ~OnTopic(h) /\ Asking(h)
    BY <1>1, <1>4, AnswerFields, TypeNumbers DEF OnTopic, Asking
  <2>2. <<2, h.pid>> \in received
    <3>1. Behind(out, received, h.pid, 1)
      BY <1>1, <1>4 DEF BrokerInv, MessagesInv
    <3> QED BY <3>1, Places DEF Behind
  <2>3. link => Answers(p, h)
    BY <1>1, <2>1, <2>2, TypeNumbers DEF Answers
  <2>4. Answer(p)
    BY <1>2, <1>4
  <2>5. ASSUME OwnPacket(h) PROVE OwnAnswer(p)'
    <3>1. op' = op /\ op \notin {"subscribe", "unsubscribe", "puback"}
      BY <1>1, <2>1, <2>5, TypeNumbers DEF OwnPacket, elsewhere
    <3> QED BY <2>1, <3>1 DEF OwnAnswer
  <2> QED BY <1>1, <1>4, <2>1, <2>2, <2>3, <2>4, <2>5, AnswerStep, TypeNumbers
<1> QED BY <1>3, <1>4

\* PUBREL, PINGRESP, or nothing.
LEMMA RepliesStep ==
  ASSUME TypeOK, BrokerInv, BrokerReplies
  PROVE  BrokerInv'
<1>1. /\ UNCHANGED <<elsewhere, brokerVars>>
      /\ \E type \in {PUBREC, PINGREQ, PUBACK, PUBCOMP, DISCONNECT} : Takes(type)
  BY DEF BrokerReplies
<1>2. PICK h : h = out[1]
  OBVIOUS
<1>3. /\ OutShifts /\ Head(out) = h /\ 1 \in DOMAIN out
      /\ h.type \in {PUBREC, PINGREQ, PUBACK, PUBCOMP, DISCONNECT}
  BY <1>1, <1>2, Taking
<1>4. ~OnTopic(h) /\ h.type # CONNECT /\ h.type # PUBLISH
  BY <1>3 DEF OnTopic, SUBSCRIBE, UNSUBSCRIBE, CONNECT, PUBLISH, PUBREC, PINGREQ, PUBACK,
     PUBCOMP, DISCONNECT
<1>5. ASSUME NEW p \in Packets, Answer(p), p.type \in {PUBREL, PINGRESP}
      PROVE  BrokerInv'
  <2>1. ~Answering(p) /\ p.type \notin {PUBLISH, CONNACK, PUBACK, PUBREC, PUBCOMP}
    BY <1>5, TypeNumbers DEF Answering
  <2>2. link => Answers(p, h)
    BY <2>1 DEF Answers
  <2> QED BY <1>1, <1>2, <1>3, <1>4, <1>5, <2>1, <2>2, AnswerStep DEF brokerVars
<1>6. CASE Takes(PUBREC) /\ Answer(Ack(PUBREL, Head(out).pid))
  <2>1. Ack(PUBREL, Head(out).pid) \in Packets
    BY <1>6, Taking, OutNumbers
  <2> QED BY <1>5, <1>6, <2>1, AnswerFields
<1>7. CASE Takes(PINGREQ) /\ Answer(Ack(PINGRESP, 0))
  <2>1. Ack(PINGRESP, 0) \in Packets
    BY AnswersAssumption
  <2> QED BY <1>5, <1>7, <2>1, AnswerFields
<1>8. CASE UNCHANGED sent
  <2>1. ASSUME NEW P, P = {}
        PROVE  BrokerInv'
    <3>1. SentGrowsBy(P)
      BY <1>8, Writing
    <3>2. UNCHANGED <<link, taken, connected, txPid, returnCode, op, subscribeQos, result>>
      BY <1>1 DEF elsewhere, reqVars
    <3>3. accepted' = accepted /\ subscribed' = subscribed /\ received' = received
      BY <1>1 DEF brokerVars
    <3>4. /\ \A p \in P : Answers(p, h)
          /\ \A p \in P : Answering(p) /\ p.pid = txPid /\ OwnPacket(h) => OwnAnswer(p)'
      BY <2>1
    <3> QED BY <1>2, <1>3, <1>4, <3>1, <3>2, <3>3, <3>4, BrokerStep
  <2> QED BY <2>1
<1> QED BY <1>6, <1>7, <1>8 DEF BrokerReplies

\* A message of its own.
LEMMA PublishesStep ==
  ASSUME TypeOK, TypeOK', BrokerInv, NEW p \in Settings, BrokerPublishes(p)
  PROVE  BrokerInv'
<1>1. /\ UNCHANGED <<link, taken, out, connected, returnCode, txPid>> /\ sent' = Append(sent, p)
      /\ UNCHANGED <<op, subscribeQos, result, brokerVars>>
  BY DEF BrokerPublishes, BrokerSends, BrokerWrites, reqVars
<1>2. p \in Packets
  BY SettingsAssumption
<1>3. SentGrowsBy({p}) /\ OutGrows
  BY <1>1, <1>2, Writing
<1>4. SentGrowsBy(Settings)
  BY <1>3 DEF SentGrowsBy
<1> QED BY <1>1, <1>3, <1>4, Places, QuietStep

LEMMA BrokerKeeps ==
  ASSUME TypeOK, TypeOK', BrokerInv, Broker
  PROVE  BrokerInv'
BY ConnectsStep, SubscribesStep, UnsubscribesStep, ReceivesStep, ReleasesStep, RepliesStep,
   PublishesStep DEF Broker
-----------------------------------------------------------------------------
(* The steps of the client.                                                *)

\* The identifier a request takes, while the identifiers last.
LEMMA FreshPid ==
  ASSUME TypeOK, txPid < MaxPacketId
  PROVE  NextPid(txPid) = txPid + 1 /\ txPid + 1 \in Words
<1>1. txPid \in Nat /\ MaxPacketId \in Nat /\ txPid + 1 \in 0..MaxPacketId
  BY Places
<1> QED BY <1>1, ClientTypeFacts DEF NextPid

\* subscribe() and unsubscribe().
LEMMA AskStep ==
  ASSUME TypeOK, BrokerInv, NEW type, NEW what, Ask(type, what),
         \/ type = SUBSCRIBE /\ what = "subscribe"
         \/ type = UNSUBSCRIBE /\ what = "unsubscribe"
  PROVE  BrokerInv'
<1> DEFINE q == [type |-> type, qos |-> 0, pid |-> txPid + 1]
<1>1. /\ op = "none" /\ txPid' = txPid + 1 /\ txPid + 1 \in Words
      /\ UNCHANGED <<link, sent, taken, brokerVars>>
      /\ out' = IF link THEN Append(out, q) ELSE out
  BY FreshPid DEF Ask, Idle, unread, Write, WriteQos
<1>2. type \in ClientTypes
  BY CallsAssumption, ClientTypeFacts
<1>3. q \in ClientPacket
  BY <1>1, <1>2 DEF ClientPacket
<1>4. q.type = type /\ q.pid = txPid + 1 /\ Asking(q) /\ OnTopic(q) /\ q.type # PUBREL
  BY TypeNumbers DEF Asking, OnTopic
<1> HIDE DEF q
<1>5. CASE link
  <2>1. /\ op' = what /\ returnCode' = -1 /\ result' = None /\ UNCHANGED connected
        /\ subscribeQos' = IF what = "subscribe" THEN 128 ELSE subscribeQos
    BY <1>5 DEF Ask
  <2> QED BY <1>1, <1>3, <1>4, <1>5, <2>1, RequestStep
<1>6. CASE ~link
  <2>1. /\ connected' = FALSE /\ UNCHANGED <<returnCode, op, subscribeQos>>
        /\ ~result'.ok
    BY <1>6 DEF Ask, Done
  <2>2. OutGrows /\ SentGrowsBy(Settings)
    BY <1>1, <1>6, Writing
  <2> QED BY <1>1, <1>6, <2>1, <2>2, Places, QuietStep
<1> QED BY <1>5, <1>6

\* beginMessage(), write(), endMessage().
LEMMA PublicationStep ==
  ASSUME TypeOK, BrokerInv, NEW qos \in 0..2, Publication(qos)
  PROVE  BrokerInv'
<1> DEFINE q == [type |-> PUBLISH, qos |-> qos, pid |-> IF qos > 0 THEN txPid' ELSE 0]
<1>1. /\ op = "none" /\ UNCHANGED <<link, sent, taken, subscribeQos, brokerVars>>
      /\ out' = (IF link THEN Append(out, q) ELSE out)
      /\ connected' = (connected /\ link)
  BY DEF Publication, Idle, unread, WriteQos
<1>2. /\ qos > 0 => txPid' = txPid + 1 /\ txPid + 1 \in Words
      /\ qos = 0 => txPid' = txPid
      /\ txPid' \in Nat /\ txPid <= txPid'
  BY FreshPid, Places DEF Publication
<1>3. PUBLISH \in ClientTypes /\ 0 \in Words
  BY CallsAssumption, ClientTypeFacts
<1>4. q \in ClientPacket
  BY <1>2, <1>3 DEF ClientPacket
<1>5. q.type = PUBLISH /\ q.qos = qos /\ (qos > 0 => q.pid = txPid + 1)
  BY <1>2
<1> HIDE DEF q
<1>6. /\ q.type # PUBREL /\ q.type # PUBREC /\ ~OnTopic(q)
      /\ qos > 0 => Asking(q)
      /\ qos = 0 => Silent(q)
  BY <1>5, TypeNumbers DEF Asking, OnTopic, Silent
<1>7. CASE link /\ qos > 0
  <2>1. /\ returnCode' = -1 /\ result' = None
        /\ op' = IF qos = 1 THEN "puback" ELSE "pubrec"
    BY <1>7 DEF Publication
  <2>2. connected' = connected
    BY <1>1, <1>7, Places
  <2> QED BY <1>1, <1>2, <1>4, <1>5, <1>6, <1>7, <2>1, <2>2, RequestStep
<1>8. CASE ~(link /\ qos > 0)
  <2>1. Done("publish", qos, txPid', link) /\ UNCHANGED <<returnCode, op>>
    BY <1>8 DEF Publication
  <2>2. result'.ok => link /\ result'.op = "publish" /\ result'.qos = 0
    BY <1>8, <2>1 DEF Done
  <2>3. OutGrows /\ SentGrowsBy(Settings)
    BY <1>1, <1>4, <1>6, <1>8, Writing
  <2> QED BY <1>1, <1>2, <2>1, <2>2, <2>3, Places, QuietStep
<1> QED BY <1>7, <1>8

\* connect() returns: _returnCode is that of this connection's CONNACK.
LEMMA ConnectReturnsStep ==
  ASSUME TypeOK, BrokerInv, ConnectReturns
  PROVE  BrokerInv'
<1>1. /\ op = "connect" /\ op' = "none" /\ result'.op = "connect" /\ result'.ok = connected'
      /\ UNCHANGED <<out, subscribeQos, sent, taken, txPid, returnCode, brokerVars>>
  BY DEF ConnectReturns, Done, untouched, reqVars
<1>2. ~connected
  BY <1>1 DEF BrokerInv, ConnectInv
<1>3. \/ returnCode = 0 /\ connected' = TRUE /\ link' = link /\ accepted
      \/ returnCode # -1 /\ link' = FALSE /\ connected' = FALSE
      \/ link' = FALSE /\ connected' = FALSE
  BY <1>1, <1>2, Places DEF ConnectReturns, Answered, BrokerInv, CodeInv
<1>4. accepted' = accepted /\ subscribed' = subscribed
  BY <1>1 DEF brokerVars
<1>5. SuccessIsReal'
  BY <1>1, <1>3, <1>4 DEF SuccessIsReal
<1>6. SubscriptionIsKnown'
  BY <1>1, <1>3, <1>4 DEF SubscriptionIsKnown, BrokerInv, ResultInv
<1>7. OutGrows
  BY <1>1, Writing
<1> QED BY <1>1, <1>3, <1>5, <1>6, <1>7, ReturnStep

\* subscribe() and unsubscribe() return.
LEMMA SubscribeReturnsStep ==
  ASSUME TypeOK, BrokerInv, SubscribeReturns
  PROVE  BrokerInv'
<1>1. /\ op \in {"subscribe", "unsubscribe"} /\ op' = "none" /\ result'.op = op
      /\ UNCHANGED <<sent, taken, txPid, returnCode, brokerVars>>
  BY DEF SubscribeReturns, Done, untouched, reqVars
<1>2. /\ accepted' = accepted /\ subscribed' = subscribed
      /\ connected => accepted
  BY <1>1 DEF brokerVars, BrokerInv, ConnectInv
<1>3. CASE Answered /\ UNCHANGED <<link, connected, out>>
  <2>0. returnCode # -1 /\ Answered /\ ~GaveUp
    BY <1>3 DEF Answered, GaveUp
  <2>1. /\ result'.ok <=> IF op = "subscribe" THEN returnCode \in 0..2 ELSE returnCode = 0
        /\ subscribeQos' = IF op = "subscribe" THEN returnCode ELSE subscribeQos
    <3>1. /\ Done(op, 0, txPid, IF op = "subscribe" THEN returnCode \in 0..2
                                                   ELSE returnCode = 0)
          /\ subscribeQos' = IF op = "subscribe" THEN returnCode ELSE subscribeQos
      BY <2>0 DEF SubscribeReturns
    <3> QED BY <3>1, Zenon DEF Done
  <2>2. /\ op = "subscribe" => returnCode \in {0, 128} /\ (subscribed <=> returnCode = 0)
        /\ op = "unsubscribe" => ~subscribed
    BY <2>0 DEF BrokerInv, CodeInv
  <2>3. SuccessIsReal'
    BY <1>1, <1>2, <1>3, <2>1, <2>2 DEF SuccessIsReal
  <2>4. SubscriptionIsKnown'
    BY <1>1, <1>2, <2>1, <2>2 DEF SubscriptionIsKnown
  <2>5. OutGrows /\ connected' = connected /\ link' = link
    BY <1>3, Writing
  <2> QED BY <1>1, <2>0, <2>3, <2>4, <2>5, ReturnStep
<1>4. CASE GaveUp /\ Stop
  <2>1. OutGrows /\ link' = FALSE /\ connected' = FALSE
    BY <1>4, StopSilent
  <2>2. ~Answered
    BY <1>4 DEF Answered, GaveUp
  <2>3. result'.ok = FALSE
    BY <2>2 DEF SubscribeReturns, Done
  <2>4. SuccessIsReal' /\ SubscriptionIsKnown'
    BY <2>1, <2>3 DEF SuccessIsReal, SubscriptionIsKnown
  <2> QED BY <1>1, <2>1, <2>3, <2>4, ReturnStep
<1> QED BY <1>3, <1>4 DEF SubscribeReturns

\* A publish returns: a _returnCode other than -1 acknowledges this message.
LEMMA PublishReturnsStep ==
  ASSUME TypeOK, BrokerInv, PublishReturns
  PROVE  BrokerInv'
<1>1. PICK ok \in BOOLEAN : /\ IF ok THEN Answered ELSE GaveUp
                            /\ Done("publish", IF op = "puback" THEN 1 ELSE 2, txPid, ok)
  BY DEF PublishReturns
<1>2. /\ op \in {"puback", "pubcomp"} /\ op' = "none"
      /\ result'.op = "publish" /\ result'.ok = ok /\ result'.pid = txPid
      /\ result'.qos = IF op = "puback" THEN 1 ELSE 2
      /\ UNCHANGED <<link, out, connected, subscribeQos, sent, taken, txPid, returnCode,
                     brokerVars>>
  BY <1>1 DEF PublishReturns, Done, untouched, reqVars
<1>3. ok => /\ op = "puback" => <<1, txPid>> \in received
            /\ op = "pubcomp" => <<2, txPid>> \in received
  BY <1>1 DEF Answered, BrokerInv, CodeInv
<1>4. /\ accepted' = accepted /\ subscribed' = subscribed /\ received' = received
      /\ connected => accepted
  BY <1>2 DEF brokerVars, BrokerInv, ConnectInv
<1>5. SuccessIsReal'
  <2>1. result'.ok => <<result'.qos, result'.pid>> \in received'
    BY <1>2, <1>3, <1>4
  <2> QED BY <1>2, <1>4, <2>1 DEF SuccessIsReal
<1>6. SubscriptionIsKnown'
  BY <1>2, <1>4 DEF SubscriptionIsKnown, BrokerInv, ResultInv
<1>7. OutGrows
  BY <1>2, Writing
<1> QED BY <1>2, <1>5, <1>6, <1>7, ReturnStep

\* The first half of a QoS 2 publish.
LEMMA PubrecReturnsStep ==
  ASSUME TypeOK, BrokerInv, PubrecReturns
  PROVE  BrokerInv'
<1>1. /\ op = "pubrec"
      /\ UNCHANGED <<link, sent, taken, connected, txPid, subscribeQos, brokerVars>>
  BY DEF PubrecReturns, unread
<1>2. CASE returnCode \in {-1, 0}
  <2>1. op' = "pubcomp" /\ out' = Write(out, PUBREL, txPid) /\ returnCode' = -1
        /\ UNCHANGED result
    BY <1>2 DEF PubrecReturns
  <2> QED BY <1>1, <2>1, ReleaseStep
<1>3. CASE returnCode \notin {-1, 0}
  <2>1. /\ op' = "none" /\ ~result'.ok /\ UNCHANGED <<out, returnCode>>
    BY <1>3 DEF PubrecReturns, Done
  <2>2. /\ accepted' = accepted /\ subscribed' = subscribed
        /\ connected => accepted
    BY <1>1 DEF brokerVars, BrokerInv, ConnectInv
  <2>3. SuccessIsReal' /\ SubscriptionIsKnown'
    BY <1>1, <2>1, <2>2 DEF SuccessIsReal, SubscriptionIsKnown, BrokerInv, ResultInv
  <2>4. OutGrows
    BY <2>1, Writing
  <2> QED BY <1>1, <2>1, <2>3, <2>4, ReturnStep
<1> QED BY <1>2, <1>3

\* poll() and read() by the application, or by a request that waits.
LEMMA ReceiverStep ==
  ASSUME NothingShifts, TypeOK, TypeOK', PlaceInv, DeliveredInv, BrokerInv, Poll \/ AppReads,
         UNCHANGED <<op, subscribeQos, result, brokerVars>>
  PROVE  BrokerInv'
<1>1. CASE Quiet
  <2>1. UNCHANGED <<op, subscribeQos, returnCode, brokerVars>> /\ txPid' = txPid
    BY <1>1 DEF Quiet
  <2>2. txPid' \in Nat /\ txPid <= txPid'
    BY <2>1, Places
  <2> QED BY <1>1, <2>1, <2>2, QuietStep DEF Quiet
<1>2. CASE RxVariableHeader /\ ~(rxIndex + 1 < rxLength) /\ returnCode' # returnCode
  BY <1>2, CodeStep
<1>3. PacketsInv
  BY DEF BrokerInv
<1> QED BY <1>1, <1>2, <1>3, PollQuiet

\* A poll begins, the application gives up, the connection goes.
LEMMA OtherSteps ==
  ASSUME TypeOK, BrokerInv,
         \/ \E discard \in BOOLEAN : PollBegins(discard)
         \/ GiveUp
         \/ LinkDrops
         \/ UNCHANGED vars,
         UNCHANGED <<op, subscribeQos, result, brokerVars>>
  PROVE  BrokerInv'
<1>1. /\ UNCHANGED <<sent, taken, returnCode, txPid>>
      /\ link' => link
      /\ connected' => connected
      /\ OutGrows
  <2>1. CASE \E discard \in BOOLEAN : PollBegins(discard)
    <3>1. /\ UNCHANGED <<link, sent, taken, out, returnCode, txPid>>
          /\ connected' = connected \/ connected' = FALSE
      BY <2>1 DEF PollBegins, reqVars
    <3> QED BY <3>1, Writing
  <2>2. CASE GiveUp
    BY <2>2, StopSilent DEF GiveUp, reqVars
  <2>3. CASE LinkDrops
    BY <2>3, Writing DEF LinkDrops, reqVars
  <2>4. CASE UNCHANGED vars
    <3>1. UNCHANGED <<link, sent, taken, out, connected, returnCode, txPid>>
      BY <2>4 DEF vars, netVars, reqVars
    <3> QED BY <3>1, Writing
  <2> QED BY <2>1, <2>2, <2>3, <2>4
<1>2. SentGrowsBy(Settings)
  BY <1>1, Writing
<1>3. taken' \in Nat /\ taken <= taken' /\ txPid' \in Nat /\ txPid <= txPid'
  BY <1>1, Places
<1> QED BY <1>1, <1>2, <1>3, QuietStep

LEMMA ClientStep ==
  ASSUME NothingShifts, TypeOK, TypeOK', PlaceInv, DeliveredInv, BrokerInv,
         [ClientNext]_clientVars
  PROVE  BrokerInv'
<1>1. CASE ClientRequest
  <2>1. CASE Connect
    BY <2>1, ConnectStep
  <2>2. CASE Ask(SUBSCRIBE, "subscribe")
    BY <2>2, AskStep, Zenon
  <2>4. CASE Ask(UNSUBSCRIBE, "unsubscribe")
    BY <2>4, AskStep, Zenon
  <2>3. CASE \E qos \in 0..2 : Publication(qos)
    BY <2>3, PublicationStep
  <2> QED BY <1>1, <2>1, <2>2, <2>3, <2>4 DEF ClientRequest
<1>2. CASE ClientReturn
  BY <1>2, ConnectReturnsStep, SubscribeReturnsStep, PubrecReturnsStep, PublishReturnsStep
     DEF ClientReturn
<1>3. CASE WaitPolls \/ AppPolls
  <2>1. /\ \E discard \in BOOLEAN : PollBegins(discard)
        /\ UNCHANGED <<op, subscribeQos, result, brokerVars>>
    BY <1>3 DEF WaitPolls, AppPolls
  <2> QED BY <2>1, OtherSteps
<1>4. CASE AppTakes
  BY <1>4, ReceiverStep DEF AppTakes
<1>5. CASE PollStep
  BY <1>5, ReceiverStep DEF PollStep
<1>6. CASE AppStops
  BY <1>6, OtherSteps DEF AppStops
<1>7. CASE LinkFailure
  BY <1>7, OtherSteps DEF LinkFailure
<1>8. CASE Broker
  BY <1>8, BrokerKeeps
<1>9. CASE UNCHANGED clientVars
  BY <1>9, OtherSteps DEF clientVars
<1> QED BY <1>1, <1>2, <1>3, <1>4, <1>5, <1>6, <1>7, <1>8, <1>9 DEF ClientNext

\* The inductive invariant: the receiver's, which the client's steps keep because
\* they are steps of the receiver's system, and the broker's.
LEMMA ClientInvariant == ASSUME NothingShifts PROVE ClientSpec => []ClientInv
<1>1. ClientInit => ClientInv
  <2> SUFFICES ASSUME ClientInit PROVE ClientInv
    OBVIOUS
  <2>1. Init /\ link = FALSE /\ out = <<>> /\ sent = <<>> /\ connected = FALSE
        /\ op = "none" /\ result = None /\ subscribed = FALSE
    BY DEF ClientInit, Init
  <2>2. TypeInv /\ PlaceInv /\ DeliveredInv
    BY <2>1, TypeInit, PlaceInit, DeliveredInit
  <2>3. DOMAIN out = {} /\ DOMAIN sent = {} /\ ~result.ok
    BY <2>1 DEF None
  <2>4. NumbersInv /\ PacketsInv /\ MessagesInv /\ OwnInv /\ TopicInv /\ ConnectInv
    BY <2>1, <2>3 DEF NumbersInv, PacketsInv, MessagesInv, OwnInv, TopicInv, ConnectInv
  <2>5. CodeInv /\ ResultInv
    BY <2>1, <2>3 DEF CodeInv, ResultInv, SuccessIsReal, SubscriptionIsKnown
  <2> QED BY <2>2, <2>4, <2>5 DEF ClientInv, BrokerInv
<1>2. ClientInv /\ [ClientNext]_clientVars => ClientInv'
  <2> SUFFICES ASSUME ClientInv, [ClientNext]_clientVars PROVE ClientInv'
    OBVIOUS
  <2>1. TypeOK /\ TypeInv /\ PlaceInv /\ DeliveredInv /\ BrokerInv
    BY TypeParts DEF ClientInv, TypeInv
  <2>2. [Next]_vars
    BY <2>1, ClientMaps
  <2>3. TypeInv' /\ PlaceInv'
    BY <2>1, <2>2, TypeStep, PlaceStep
  <2>4. DeliveredInv'
    BY <2>1, <2>2, <2>3, DeliveredStep
  <2>5. TypeOK'
    BY <2>3, Zenon DEF TypeInv, Types, TypeOK, NetTypes, HdrTypes, PubTypes, ReqTypes, HisTypes
  <2>6. BrokerInv'
    BY <2>1, <2>5, ClientStep
  <2> QED BY <2>3, <2>4, <2>6 DEF ClientInv
<1> QED BY <1>1, <1>2, PTL DEF ClientSpec

\* With a callback, or where no message is empty, the requests of MqttClient.cpp
\* and their broker are callers and an environment of the receiver's system: every
\* step maps to one of its steps or to none.
THEOREM ClientIsCaller == ASSUME NothingShifts PROVE ClientSpec => Spec
<1>1. ClientInit => Init
  BY DEF ClientInit
<1>2. ClientInv /\ [ClientNext]_clientVars => [Next]_vars
  BY ClientMaps, TypeParts DEF ClientInv, TypeInv
<1> QED BY <1>1, <1>2, ClientInvariant, PTL DEF ClientSpec, Spec

\* So the client never loses its place in the stream of packets, and announces
\* each message once, whatever it was waiting for when the message came.
THEOREM ClientKeepsItsPlace ==
  ASSUME NothingShifts PROVE ClientSpec => [](Framing /\ AnnouncedInOrder)
BY ClientIsCaller, KeepsItsPlace, AnnouncesEachOnce, PTL

\* Likewise a request that returned 1 has been carried out by the broker,
\* and _connected is true only between an accepted CONNECT and the end of the
\* connection: no late answer to an earlier or an abandoned request passes for
\* the answer to this one.
THEOREM SuccessIsTheBrokers == ASSUME NothingShifts PROVE ClientSpec => []SuccessIsReal
<1>1. ClientInv => SuccessIsReal
  BY DEF ClientInv, BrokerInv, ResultInv
<1> QED BY <1>1, ClientInvariant, PTL

\* Likewise a subscription in force on an open connection is one
\* subscribeQoS() reports, for a subscribe() that gives up closes it.
THEOREM SubscriptionsAreKnown ==
  ASSUME NothingShifts PROVE ClientSpec => []SubscriptionIsKnown
<1>1. ClientInv => SubscriptionIsKnown
  BY DEF ClientInv, BrokerInv, ResultInv
<1> QED BY <1>1, ClientInvariant, PTL
=============================================================================
