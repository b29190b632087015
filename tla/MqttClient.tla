----------------------------- MODULE MqttClient -----------------------------
(***************************************************************************)
(* The requests of the MQTT client (connect, subscribe, unsubscribe, and a *)
(* publish at each quality of service), the polls that wait for their      *)
(* answers, and the broker at the other end.                               *)
(*                                                                         *)
(* A request writes its packet, sets _returnCode to -1 and polls until the *)
(* receiver changes it, the connection is gone or 30 s have passed.  The   *)
(* clock is abstract: waiting may end at any time.                         *)
(***************************************************************************)
EXTENDS MqttReceiver

CONSTANT Settings      \* the PUBLISH packets the broker has for the client

ASSUME SettingsAssumption == \A p \in Settings : p \in Packets /\ p.type = PUBLISH

\* The receiver is open to every request of this module, and to every answer of
\* its broker.
ASSUME CallsAssumption == {PUBLISH, PUBREL, SUBSCRIBE, UNSUBSCRIBE} \subseteq Requests

ASSUME AnswersAssumption ==
  /\ \A code \in {0, 5} : Connack(code) \in Packets
  /\ \A pid \in 1..MaxPacketId, code \in {0, 128} : Suback(pid, code) \in Packets
  /\ \A pid \in 1..MaxPacketId, type \in {PUBACK, PUBREC, PUBCOMP, UNSUBACK} :
       Ack(type, pid) \in Packets
  /\ \A p \in Settings : p.qos = 2 => Ack(PUBREL, p.pid) \in Packets
  /\ Ack(PINGRESP, 0) \in Packets

VARIABLES
  op,        \* the request that is waiting, and what it waits for
  subscribeQos, \* _subscribeQos, 128 while no subscription is known
  result,    \* how the last request of this connection ended
  \* the broker, for this connection
  accepted,  \* it has accepted the CONNECT
  subscribed,\* the client's subscription is in force
  received,  \* <<qos, pid>> of the messages it has taken from the client
  held,      \* identifiers of QoS 2 messages it waits to be told to release
  released   \* identifiers of QoS 2 messages it has released

brokerVars == <<accepted, subscribed, received, held, released>>
clientVars == <<vars, op, subscribeQos, result, brokerVars>>

Requesting == {"connect", "subscribe", "unsubscribe", "puback", "pubrec", "pubcomp"}

None == [op |-> "none", qos |-> 0, pid |-> 0, ok |-> FALSE]

Done(what, qos, pid, ok) ==
  result' = [op |-> what, qos |-> qos, pid |-> pid, ok |-> ok]

Idle == pc = "out" /\ op = "none"

unread == <<sent, taken, off, rxVars, pc, txStream, hisVars>>
-----------------------------------------------------------------------------
(* Starting a request.                                                     *)

\* connect(): the TCP connection may be refused.
Connect ==
  /\ Idle
  /\ link' \in BOOLEAN
  /\ out' = IF link' THEN <<[type |-> CONNECT, qos |-> 0, pid |-> 0]>> ELSE <<>>
  /\ sent' = <<>> /\ taken' = 0 /\ off' = 0
  /\ rxState' = "READ_TYPE"
  /\ connected' = FALSE
  /\ txPid' = 0
  /\ returnCode' = IF link' THEN -1 ELSE returnCode
  /\ delivered' = <<>> /\ acks' = 0
  /\ IF link' THEN op' = "connect" /\ result' = None
              ELSE op' = op /\ Done("connect", 0, 0, FALSE)
  /\ accepted' = FALSE /\ subscribed' = FALSE
  /\ received' = {} /\ held' = {} /\ released' = {}
  /\ UNCHANGED <<rxLength, rxIndex, hdrVars, pubVars, pc, txStream, subscribeQos>>

\* subscribe() and unsubscribe(): with no connection to write to, stop().
Ask(type, what) ==
  /\ Idle
  /\ Len(out) < MaxOut
  /\ txPid < MaxPacketId
  /\ txPid' = NextPid(txPid)
  /\ out' = Write(out, type, txPid')
  /\ IF link
     THEN /\ returnCode' = -1
          /\ op' = what
          /\ subscribeQos' = IF what = "subscribe" THEN 128 ELSE subscribeQos
          /\ result' = None
          /\ UNCHANGED connected
     ELSE /\ connected' = FALSE
          /\ Done(what, 0, txPid', FALSE)
          /\ UNCHANGED <<returnCode, op, subscribeQos>>
  /\ UNCHANGED <<link, unread, brokerVars>>

\* beginMessage(), write(), endMessage(): the packet leaves in endMessage().
\* Without an acknowledgement to wait for, having written it is success.
Publication(qos) ==
  /\ Idle
  /\ Len(out) < MaxOut
  /\ qos > 0 => txPid < MaxPacketId
  /\ txPid' = IF qos > 0 THEN NextPid(txPid) ELSE txPid
  /\ out' = WriteQos(out, PUBLISH, qos, IF qos > 0 THEN txPid' ELSE 0)
  /\ IF link /\ qos > 0
     THEN /\ returnCode' = -1
          /\ op' = IF qos = 1 THEN "puback" ELSE "pubrec"
          /\ result' = None
     ELSE /\ Done("publish", qos, txPid', link)
          /\ UNCHANGED <<returnCode, op>>
  /\ connected' = (connected /\ link)
  /\ UNCHANGED <<link, unread, subscribeQos, brokerVars>>
-----------------------------------------------------------------------------
(* Waiting for the answer.                                                 *)

WaitPolls ==
  /\ op # "none"
  /\ returnCode = -1
  /\ link
  /\ PollBegins(FALSE)
  /\ UNCHANGED <<op, subscribeQos, result, brokerVars>>

Answered == pc = "out" /\ op # "none" /\ returnCode # -1
GaveUp   == pc = "out" /\ op # "none" /\ returnCode = -1

untouched == <<sent, taken, off, rxVars, pc, reqVars, hisVars, brokerVars>>

\* (Bug: the return code is not looked at.)
ConnectTakesAnyAnswer ==
  /\ op = "connect"
  /\ \/ Answered /\ connected' = TRUE /\ UNCHANGED link
     \/ GaveUp /\ link' = FALSE /\ UNCHANGED connected
  /\ op' = "none"
  /\ Done("connect", 0, 0, connected')
  /\ UNCHANGED <<out, subscribeQos, untouched>>

ConnectReturns ==
  /\ op = "connect"
  /\ \/ Answered /\ returnCode = 0 /\ connected' = TRUE /\ UNCHANGED link
     \/ Answered /\ returnCode # 0 /\ link' = FALSE /\ UNCHANGED connected
     \/ GaveUp /\ link' = FALSE /\ UNCHANGED connected
  /\ op' = "none"
  /\ Done("connect", 0, 0, connected')
  /\ UNCHANGED <<out, subscribeQos, untouched>>

\* (Bug: no answer is handled like one.)
SubscribeForgetsTimeout ==
  /\ op \in {"subscribe", "unsubscribe"}
  /\ Answered \/ GaveUp
  /\ Done(op, 0, txPid, returnCode \in 0..2)
  /\ subscribeQos' = IF op = "subscribe" THEN returnCode ELSE subscribeQos
  /\ op' = "none"
  /\ UNCHANGED <<link, connected, out, untouched>>

SubscribeReturns ==
  /\ op \in {"subscribe", "unsubscribe"}
  /\ \/ /\ Answered
        /\ Done(op, 0, txPid, IF op = "subscribe" THEN returnCode \in 0..2
                                                  ELSE returnCode = 0)
        /\ subscribeQos' = IF op = "subscribe" THEN returnCode ELSE subscribeQos
        /\ UNCHANGED <<link, connected, out>>
     \/ GaveUp /\ Stop /\ Done(op, 0, txPid, FALSE) /\ UNCHANGED subscribeQos
  /\ op' = "none"
  /\ UNCHANGED untouched

\* First half of a QoS 2 publish: PUBREL follows, PUBREC or no PUBREC.
PubrecReturns ==
  /\ op = "pubrec"
  /\ Answered \/ GaveUp
  /\ IF returnCode \in {-1, 0}
     THEN /\ op' = "pubcomp"
          /\ out' = Write(out, PUBREL, txPid)
          /\ returnCode' = -1
          /\ UNCHANGED result
     ELSE /\ op' = "none"
          /\ Done("publish", 2, txPid, FALSE)
          /\ UNCHANGED <<out, returnCode>>
  /\ UNCHANGED <<link, unread, connected, txPid, subscribeQos, brokerVars>>

\* (Bug: the wait has no end.)
PublishWaitsForEver ==
  /\ op \in {"puback", "pubcomp"}
  /\ Answered
  /\ Done("publish", IF op = "puback" THEN 1 ELSE 2, txPid, TRUE)
  /\ op' = "none"
  /\ UNCHANGED <<link, out, connected, subscribeQos, untouched>>

\* PUBACK or PUBCOMP: giving up leaves the connection open.
PublishReturns ==
  /\ op \in {"puback", "pubcomp"}
  /\ \E ok \in BOOLEAN :
       /\ IF ok THEN Answered ELSE GaveUp
       /\ Done("publish", IF op = "puback" THEN 1 ELSE 2, txPid, ok)
  /\ op' = "none"
  /\ UNCHANGED <<link, out, connected, subscribeQos, untouched>>
-----------------------------------------------------------------------------
(* The application when no request is waiting, and the steps of poll().    *)

AppPolls ==
  /\ Idle
  /\ \E discard \in BOOLEAN : PollBegins(discard)
  /\ UNCHANGED <<op, subscribeQos, result, brokerVars>>

AppTakes ==
  /\ pc = "callback" \/ op = "none"
  /\ AppReads
  /\ UNCHANGED <<op, subscribeQos, result, brokerVars>>

AppStops ==
  /\ Idle
  /\ link
  /\ GiveUp
  /\ UNCHANGED <<op, subscribeQos, result, brokerVars>>

PollStep    == Poll /\ UNCHANGED <<op, subscribeQos, result, brokerVars>>
LinkFailure == LinkDrops /\ UNCHANGED <<op, subscribeQos, result, brokerVars>>
-----------------------------------------------------------------------------
(* The broker.  It answers each packet of the client once, in order; what  *)
(* it writes to a connection that is gone is lost.                         *)

Answer(p) == IF link THEN BrokerWrites(p) ELSE UNCHANGED sent

Takes(type) == out # <<>> /\ Head(out).type = type /\ out' = Tail(out)

elsewhere == <<link, taken, off, rxVars, pc, connected, reqVars, hisVars,
               op, subscribeQos, result>>

BrokerConnects ==
  /\ Takes(CONNECT)
  /\ \E code \in {0, 5} : Answer(Connack(code)) /\ accepted' = (code = 0)
  /\ UNCHANGED <<elsewhere, subscribed, received, held, released>>

BrokerSubscribes ==
  /\ Takes(SUBSCRIBE)
  /\ \E code \in {0, 128} :
       /\ Answer(Suback(Head(out).pid, code))
       /\ subscribed' = (code = 0)
  /\ UNCHANGED <<elsewhere, accepted, received, held, released>>

BrokerUnsubscribes ==
  /\ Takes(UNSUBSCRIBE)
  /\ Answer(Ack(UNSUBACK, Head(out).pid))
  /\ subscribed' = FALSE
  /\ UNCHANGED <<elsewhere, accepted, received, held, released>>

BrokerReceives ==
  /\ Takes(PUBLISH)
  /\ LET qos == Head(out).qos
         pid == Head(out).pid IN
     /\ received' = received \cup {<<qos, pid>>}
     /\ held' = IF qos = 2 THEN held \cup {pid} ELSE held
     /\ IF qos = 0 THEN UNCHANGED sent
        ELSE Answer(Ack(IF qos = 1 THEN PUBACK ELSE PUBREC, pid))
  /\ UNCHANGED <<elsewhere, accepted, subscribed, released>>

BrokerReleases ==
  /\ Takes(PUBREL)
  /\ released' = released \cup (held \cap {Head(out).pid})
  /\ held' = held \ {Head(out).pid}
  /\ Answer(Ack(PUBCOMP, Head(out).pid))
  /\ UNCHANGED <<elsewhere, accepted, subscribed, received>>

\* The other half of a QoS 2 message to the client, a ping, and the rest.
BrokerReplies ==
  /\ \/ Takes(PUBREC) /\ Answer(Ack(PUBREL, Head(out).pid))
     \/ Takes(PINGREQ) /\ Answer(Ack(PINGRESP, 0))
     \/ UNCHANGED sent /\ \E type \in {PUBACK, PUBCOMP, DISCONNECT} : Takes(type)
  /\ UNCHANGED <<elsewhere, brokerVars>>

BrokerPublishes(p) ==
  /\ subscribed
  /\ BrokerSends(p)
  /\ UNCHANGED <<op, subscribeQos, result, brokerVars>>
-----------------------------------------------------------------------------
ClientInit ==
  /\ Init
  /\ op = "none" /\ subscribeQos = 0 /\ result = None
  /\ accepted = FALSE /\ subscribed = FALSE
  /\ received = {} /\ held = {} /\ released = {}

ClientRequest ==
  \/ Connect \/ Ask(SUBSCRIBE, "subscribe") \/ Ask(UNSUBSCRIBE, "unsubscribe")
  \/ \E qos \in 0..2 : Publication(qos)

ClientReturn == ConnectReturns \/ SubscribeReturns \/ PubrecReturns \/ PublishReturns

Broker == \/ BrokerConnects \/ BrokerSubscribes \/ BrokerUnsubscribes
          \/ BrokerReceives \/ BrokerReleases \/ BrokerReplies
          \/ \E p \in Settings : BrokerPublishes(p)

ClientNext == \/ ClientRequest \/ WaitPolls \/ ClientReturn
              \/ AppPolls \/ AppTakes \/ AppStops
              \/ PollStep \/ LinkFailure \/ Broker

ClientSpec == ClientInit /\ [][ClientNext]_clientVars

\* The only thread runs on: poll() takes the next byte or sees that there is
\* none, the callback returns, a waiting request polls again.  A wait that polls
\* for ever does not: the 30 s of _connectionTimeout end it (strong fairness,
\* since the wait can only return between two polls).
FairClientSpec ==
  /\ ClientSpec
  /\ WF_clientVars(PollStep)
  /\ WF_clientVars(WaitPolls)
  /\ SF_clientVars(ClientReturn)
-----------------------------------------------------------------------------
\* A request that reports success has been carried out by the broker: an answer
\* to an earlier or an abandoned request is never taken for its own.  And _connected
\* is true only between an accepted CONNECT and the end of the connection, never
\* while the broker's answer is still awaited.
SuccessIsReal ==
  /\ result.ok =>
       CASE result.op = "connect"     -> accepted
         [] result.op = "subscribe"   -> subscribed
         [] result.op = "unsubscribe" -> ~subscribed
         [] OTHER -> result.qos > 0 => <<result.qos, result.pid>> \in received
  /\ connected => accepted /\ op # "connect"

\* "wait for PUBACK or PUBCOMP" (MqttClient.cpp:240): a QoS 2 publish returns 1
\* only when the broker has released the message to its subscribers.
CompletedIsReleased ==
  result.ok /\ result.op = "publish" /\ result.qos = 2 => result.pid \in released

\* While the connection is up and no subscribe() is waiting, a subscription that
\* is in force at the broker is one subscribeQoS() reports: an abandoned
\* subscribe() takes the connection, and with it the subscription, down.
SubscriptionIsKnown ==
  subscribed /\ link /\ op # "subscribe" => subscribeQos \in 0..2

\* Every request returns, whatever the broker and the link do.
RequestsReturn == op # "none" ~> op = "none"
=============================================================================
