---------------------------- MODULE MCMqttClient ----------------------------
\* Packet sets for checking MqttClient.
EXTENDS MqttClient

QosZero  == {Publish(0, 0, 1, 1)}
QosTwo   == {Publish(2, 1, 1, 1)}

\* Whatever the modelled broker may answer.
Answers ==
  {Connack(0), Connack(5), Ack(PINGRESP, 0)}
  \cup {Ack(type, pid) : type \in {PUBACK, PUBREC, PUBREL, PUBCOMP, UNSUBACK},
                         pid \in 1..MaxPacketId}
  \cup {Suback(pid, code) : pid \in 1..MaxPacketId, code \in {0, 128}}

WithQosZero == Answers \cup QosZero
WithQosTwo  == Answers \cup QosTwo
=============================================================================
