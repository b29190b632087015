--------------------------- MODULE MCMqttReceiver ---------------------------
\* Packet sets for checking MqttReceiver.
EXTENDS MqttReceiver

\* A message of each quality of service, with and without payload, and a packet
\* poll() answers.  The answers to requests come in MCMqttClient.
AllPackets ==
  {Publish(0, 0, 2, 1), Publish(1, 258, 1, 0), Publish(2, 2, 1, 2), Ack(PUBREL, 2)}

\* For parseMessage(): an empty message, payloads to be read in parts, and packets
\* whose bytes, read one place too late, look like a header that is too long, or
\* like a PUBLISH with more topic than packet.
PolledPackets ==
  {Publish(0, 0, 1, 0), Publish(1, 258, 1, 2), Publish(0, 0, 2, 300),
   Suback(37008, 144)}
=============================================================================
