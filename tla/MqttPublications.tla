-------------------------- MODULE MqttPublications --------------------------
(***************************************************************************)
(* What the MQTT client writes (ArduinoMqttClient/src/MqttClient.cpp):     *)
(* CONNECT with its will, publications that are buffered or streamed, and  *)
(* the packets of poll() between them, byte by byte.  One buffer holds the *)
(* payload, another the will, and _txBuffer points at the packet or at the *)
(* will that is being composed.  How requests wait for their answers is    *)
(* MqttClient's.                                                           *)
(***************************************************************************)
EXTENDS Integers, Sequences, SequencesExt

CONSTANTS
  LengthBase,   \* what a byte of a remaining length carries (128)
  MaxPid,       \* the greatest packet identifier (65535)
  PayloadSizes, \* sizes of the payload buffer, 256 unless setTxPayloadSize() is called
  Messages,     \* [topic, size, retain, qos, dup] of beginMessage(), size perhaps Unsized
  Wills,        \* [topic, retain, qos] of beginWill()
  Chunks,       \* what write() is called with
  Logins,       \* [id, user, password, clean] of setId(), setUsernamePassword(), ...
  Attempts,     \* times that the same bytes are written until a reply comes (6)
  MaxSent       \* bound: packets on a connection

Unsized == -1
None == [none |-> TRUE]

ASSUME PublicationsAssumption ==
  /\ LengthBase \in Nat \ {0, 1} /\ MaxPid \in Nat \ {0} /\ MaxSent \in Nat
  /\ Attempts \in Nat \ {0}
  /\ PayloadSizes \subseteq Nat
  /\ \A m \in Messages : m.size \in Nat \union {Unsized} /\ m.qos \in 0..3

VARIABLES
  tx,       \* the fields of MqttClient
  conn,     \* [link, wire]: the connection, and what was written to it
  program,  \* the caller: its [message, payload, will, bytes], the last will [set, topic, bytes]
  sent,     \* history: the packets it was to be
  told,     \* history: the last endMessage() of a buffered message, and its result
  doubt     \* history: part of a message was sent twice, or sent and reported as failed

publicationVars == <<tx, conn, program, sent, told, doubt>>

CONNECT == 1
PUBLISH == 3
PUBACK == 4
PUBREL == 6
PINGREQ == 12
DISCONNECT == 14

(***************************************************************************)
(* Packets.                                                                *)
(***************************************************************************)
RECURSIVE RemainingLength(_)
RemainingLength(n) ==
  IF n < LengthBase THEN <<n>>
  ELSE <<(n % LengthBase) + LengthBase>> \o RemainingLength(n \div LengthBase)
write16(n) == <<n \div 256, n % 256>>
writeString(s) == write16(Len(s)) \o s
beginPacket(type, flags, length) == <<16 * type + flags>> \o RemainingLength(length)

\* clientWrite().  WiFiClient::write() hands the bytes to the module until a reply to that
\* comes, so they may be sent several times, and they count as written if the module then
\* confirms them.  Without any reply the connection is closed; it may end in their middle.
Copies(k, s) == FlattenSeq([i \in 1..k |-> s])
ClientWrites(c, bytes) ==
  LET Written(k, tail, link, ok) ==
        [conn |-> [link |-> link, wire |-> c.wire \o Copies(k, bytes) \o tail],
         times |-> k, ok |-> ok]
  IN IF bytes = <<>> THEN {Written(1, <<>>, c.link, TRUE)}
     ELSE IF ~ c.link THEN {Written(0, <<>>, FALSE, FALSE)}
     ELSE {Written(k, <<>>, TRUE, ok) : k \in 1..Attempts, ok \in BOOLEAN}
          \union {Written(k, <<>>, FALSE, FALSE) : k \in 0..Attempts}
          \union {Written(0, SubSeq(bytes, 1, Len(bytes) \div 2), FALSE, FALSE)}

\* What is written of a message is not its only part, and where it fails a DISCONNECT
\* follows.
InDoubt(w) == w.times > 1 \/ (w.times = 1 /\ w.conn.link /\ ~ w.ok)

\* The packet a program expects: its flags, and the strings and words in it.
Sent(type, flags, parts) == [type |-> type, flags |-> flags, parts |-> parts]
\* stop(): a connection that the broker has accepted is ended with DISCONNECT.
Stopped(c, connected) ==
  {[conn |-> [w.conn EXCEPT !.link = FALSE],
    sent |-> IF c.link /\ connected THEN Copies(w.times, <<Sent(DISCONNECT, 0, <<<<>>>>)>>)
             ELSE <<>>] :
     w \in ClientWrites(c, IF connected THEN beginPacket(DISCONNECT, 0, 0) ELSE <<>>)}
Goes(c) == {[conn |-> c, sent |-> <<>>]}

FlagBit(b, value) == IF b THEN value ELSE 0
PublishFlags(m) == FlagBit(m.retain, 1) + 2 * m.qos + FlagBit(m.dup, 8)
nextPid(pid) == (pid % MaxPid) + 1
Publication(m, pid, payload) ==
  Sent(PUBLISH, PublishFlags(m), <<m.topic, IF m.qos = 0 THEN <<>> ELSE write16(pid), payload>>)

publishHeader(m, pid, length) ==
  LET id == IF m.qos = 0 THEN <<>> ELSE write16(pid)
  IN beginPacket(PUBLISH, PublishFlags(m), 2 + Len(m.topic) + Len(id) + length)
     \o writeString(m.topic) \o id

(***************************************************************************)
(* Messages.  A program that streams one, or composes a will, does nothing *)
(* else until it has written all of it.                                    *)
(***************************************************************************)
Streams == program.message # None /\ program.message.size # Unsized
Composes == program.will # None
Idle == ~ Streams /\ ~ Composes

\* (Bound.  Behind a doubtful packet nothing is said of those that follow.)
AnotherFits == Len(sent) < MaxSent /\ ~ doubt

BeginMessage(m) ==
  LET pid == IF m.size = Unsized \/ m.qos \in {0, 3} THEN tx.pid ELSE nextPid(tx.pid)
      header == publishHeader(m, pid, m.size)
  IN /\ Idle /\ AnotherFits
     /\ program' = [program EXCEPT !.message = m, !.payload = <<>>]
     /\ \E w \in ClientWrites(conn, IF m.size = Unsized \/ m.qos > 2 THEN <<>> ELSE header) :
          LET fails == m.size # Unsized /\ (m.qos > 2 \/ ~ w.ok)
          IN /\ \E end \in IF fails THEN Stopped(w.conn, tx.connected) ELSE Goes(w.conn) :
                  /\ conn' = end.conn
                  /\ sent' = sent \o (IF m.size = Unsized \/ m.qos > 2 THEN <<>>
                                      ELSE <<Publication(m, pid, <<>>)>>) \o end.sent
             /\ tx' = [tx EXCEPT !.message = m, !.buffer = <<>>, !.pid = pid,
                                 !.connected = @ /\ ~ fails]
             /\ doubt' = (doubt \/ InDoubt(w))
     /\ told' = [told EXCEPT !.ended = FALSE]

\* write(): into the will that is being composed, to the connection, or into the buffer as
\* far as there is room.
\* (Bug: a will is not thought of.)
NeverToWill == FALSE
ToWill == tx.willAt # 0
RoomFor(size) == IF Len(tx.buffer) + size >= tx.size THEN tx.size - Len(tx.buffer) ELSE size

WriteWill(chunk) ==
  /\ Composes /\ Len(program.bytes) + Len(chunk) <= tx.size
  /\ program' = [program EXCEPT !.bytes = @ \o chunk]
  /\ tx' = IF ToWill THEN [tx EXCEPT !.composed = @ \o chunk]
           ELSE [tx EXCEPT !.buffer = @ \o SubSeq(chunk, 1, RoomFor(Len(chunk)))]
  /\ UNCHANGED <<conn, sent, told, doubt>>

WriteStream(chunk) ==
  /\ Streams /\ ~ ToWill /\ Len(program.payload) + Len(chunk) <= program.message.size
  /\ program' = [program EXCEPT !.payload = @ \o chunk]
  /\ \E w \in ClientWrites(conn, chunk) : conn' = w.conn /\ doubt' = (doubt \/ InDoubt(w))
  /\ sent' = IF sent # <<>> /\ Last(sent).type = PUBLISH /\ program.message.qos <= 2
             THEN [sent EXCEPT ![Len(sent)].parts[3] = @ \o chunk] ELSE sent
  /\ UNCHANGED <<tx, told>>

WriteBuffer(chunk) ==
  /\ Idle /\ program.message # None /\ ~ ToWill
  /\ program' = [program EXCEPT !.payload = @ \o SubSeq(chunk, 1, RoomFor(Len(chunk)))]
  /\ tx' = [tx EXCEPT !.buffer = @ \o SubSeq(chunk, 1, RoomFor(Len(chunk)))]
  /\ UNCHANGED <<conn, sent, told, doubt>>

\* endMessage() of a streamed message has nothing to write; of a buffered one, the header
\* and then the payload.  The answer is waited for elsewhere.
EndStream ==
  /\ Streams /\ Len(program.payload) = program.message.size
  /\ program' = [program EXCEPT !.message = None, !.payload = <<>>]
  /\ UNCHANGED <<tx, conn, sent, told, doubt>>

EndMessage ==
  LET m == tx.message
      invalid == m.qos > 2
      pid == IF m.qos \in {0, 3} THEN tx.pid ELSE nextPid(tx.pid)
  IN /\ Idle /\ program.message # None /\ AnotherFits
     /\ \E h \in ClientWrites(conn, IF invalid THEN <<>>
                                   ELSE publishHeader(m, pid, Len(tx.buffer))) :
        \E b \in IF h.ok /\ ~ invalid THEN ClientWrites(h.conn, tx.buffer) ELSE {h} :
          LET ok == ~ invalid /\ h.ok /\ b.ok
          IN /\ \E end \in IF ok THEN Goes(b.conn) ELSE Stopped(b.conn, tx.connected) :
                  /\ conn' = end.conn
                  /\ sent' = sent \o (IF invalid THEN <<>>
                                      ELSE <<Publication(program.message, pid, program.payload)>>)
                                  \o end.sent
             /\ tx' = [tx EXCEPT !.pid = pid, !.connected = @ /\ ok]
             /\ told' = [ended |-> TRUE, ok |-> ok]
             /\ doubt' = (doubt \/ InDoubt(h) \/ InDoubt(b))
     /\ program' = [program EXCEPT !.message = None, !.payload = <<>>]

(***************************************************************************)
(* The will.  It stays for every connection that follows.                  *)
(***************************************************************************)
BeginWill(w) ==
  /\ Idle
  /\ tx' = [tx EXCEPT !.composed = writeString(w.topic) \o write16(0),
                      !.willAt = Len(w.topic) + 4,
                      !.willFlags = 8 * w.qos + 4 + FlagBit(w.retain, 32)]
  /\ program' = [program EXCEPT !.will = w, !.bytes = <<>>]
  /\ UNCHANGED <<conn, sent, told, doubt>>

EndWill ==
  LET before == SubSeq(tx.composed, 1, tx.willAt - 2)
      payload == SubSeq(tx.composed, tx.willAt + 1, Len(tx.composed))
  IN /\ Composes
     /\ tx' = [tx EXCEPT !.will = before \o write16(Len(payload)) \o payload, !.willAt = 0]
     /\ program' = [program EXCEPT !.lastWill = [program.will EXCEPT !.bytes = program.bytes],
                                   !.will = None, !.bytes = <<>>]
     /\ UNCHANGED <<conn, sent, told, doubt>>

(***************************************************************************)
(* The connection.                                                         *)
(***************************************************************************)
\* An empty identifier is replaced by one of 16 characters.
IdOf(login) == IF login.id = <<>> THEN [k \in 1..16 |-> 65] ELSE login.id
ConnectFlags(login) ==
  FlagBit(login.user # <<>>, 128) + FlagBit(login.password # <<>>, 64) + tx.willFlags
  + FlagBit(login.clean, 2)
Named(s) == IF s = <<>> THEN <<>> ELSE writeString(s)
ConnectPacket(login) ==
  LET body == writeString(<<77, 81, 84, 84>>) \o <<4, ConnectFlags(login)>> \o write16(60)
              \o writeString(IdOf(login)) \o tx.will \o Named(login.user) \o Named(login.password)
  IN beginPacket(CONNECT, 0, Len(body)) \o body

Strings(login, w) ==
  <<IdOf(login)>> \o (IF w = None THEN <<>> ELSE <<w.topic, w.bytes>>)
  \o SelectSeq(<<login.user, login.password>>, LAMBDA s : s # <<>>)
ExpectedFlags(login, w) ==
  FlagBit(login.user # <<>>, 128) + FlagBit(login.password # <<>>, 64) + FlagBit(login.clean, 2)
  + (IF w = None THEN 0 ELSE 8 * w.qos + 4 + FlagBit(w.retain, 32))

\* The broker may not be reached, or not accept the connection.
Connect(login) ==
  /\ Idle
  /\ \/ \E w \in ClientWrites([link |-> TRUE, wire |-> <<>>], ConnectPacket(login)),
          accepted \in BOOLEAN :
          LET up == w.ok /\ accepted
          IN /\ conn' = [w.conn EXCEPT !.link = @ /\ up]
             /\ tx' = [tx EXCEPT !.connected = up, !.pid = 0]
             /\ sent' = Copies(w.times, <<Sent(CONNECT, ExpectedFlags(login, program.lastWill),
                                               Strings(login, program.lastWill))>>)
             /\ doubt' = FALSE
     \/ /\ conn' = [link |-> FALSE, wire |-> <<>>] /\ sent' = <<>>
        /\ tx' = [tx EXCEPT !.connected = FALSE, !.pid = 0] /\ doubt' = FALSE
  /\ told' = [told EXCEPT !.ended = FALSE]
  /\ UNCHANGED program

\* poll() answers or pings, of which it does not look at the result, and PUBREL is sent to
\* end an exchange.
Poll(type) ==
  LET parts == IF type = PINGREQ THEN <<>> ELSE write16(tx.pid)
      flags == IF type = PUBREL THEN 2 ELSE 0
  IN /\ Idle /\ conn.link /\ tx.connected /\ AnotherFits
     /\ \E w \in ClientWrites(conn, beginPacket(type, flags, Len(parts)) \o parts) :
          /\ conn' = w.conn
          /\ sent' = sent \o Copies(w.times, <<Sent(type, flags, <<parts>>)>>)
     /\ told' = [told EXCEPT !.ended = FALSE]
     /\ UNCHANGED <<tx, program, doubt>>

StopClient ==
  /\ Idle /\ AnotherFits
  /\ \E end \in Stopped(conn, tx.connected) : conn' = end.conn /\ sent' = sent \o end.sent
  /\ tx' = [tx EXCEPT !.connected = FALSE]
  /\ told' = [told EXCEPT !.ended = FALSE]
  /\ UNCHANGED <<program, doubt>>

\* Between two messages.
SetTxPayloadSize(size) ==
  /\ Idle /\ program.message = None
  /\ tx' = [tx EXCEPT !.size = size, !.buffer = <<>>]
  /\ UNCHANGED <<conn, program, sent, told, doubt>>

LinkDrops ==
  /\ conn.link
  /\ conn' = [conn EXCEPT !.link = FALSE]
  /\ UNCHANGED <<tx, program, sent, told, doubt>>

PublicationsInit ==
  /\ tx = [message |-> None, buffer |-> <<>>, size |-> CHOOSE s \in PayloadSizes : TRUE,
           pid |-> 0, composed |-> <<>>, will |-> <<>>, willAt |-> 0, willFlags |-> 0,
           connected |-> FALSE]
  /\ conn = [link |-> FALSE, wire |-> <<>>]
  /\ program = [message |-> None, payload |-> <<>>, will |-> None, bytes |-> <<>>,
                lastWill |-> None]
  /\ sent = <<>> /\ told = [ended |-> FALSE, ok |-> FALSE] /\ doubt = FALSE

PublicationsNext ==
  \/ \E m \in Messages : BeginMessage(m)
  \/ \E chunk \in Chunks : WriteWill(chunk) \/ WriteStream(chunk) \/ WriteBuffer(chunk)
  \/ EndStream \/ EndMessage
  \/ \E w \in Wills : BeginWill(w)
  \/ EndWill
  \/ \E login \in Logins : Connect(login)
  \/ \E type \in {PUBACK, PUBREL, PINGREQ} : Poll(type)
  \/ StopClient \/ LinkDrops
  \/ \E size \in PayloadSizes : SetTxPayloadSize(size)

PublicationsSpec == PublicationsInit /\ [][PublicationsNext]_publicationVars

(***************************************************************************)
(* Properties.                                                             *)
(***************************************************************************)
\* What a broker reads: whole packets, and how many bytes are left behind them.
RECURSIVE LengthAt(_, _, _)
LengthAt(bytes, i, weight) ==   \* of the remaining length that begins at i, or none
  IF i > Len(bytes) THEN [ok |-> FALSE, length |-> 0, next |-> i]
  ELSE IF bytes[i] < LengthBase THEN [ok |-> TRUE, length |-> weight * bytes[i], next |-> i + 1]
  ELSE LET r == LengthAt(bytes, i + 1, weight * LengthBase)
       IN [r EXCEPT !.length = @ + weight * (bytes[i] - LengthBase)]
RECURSIVE StringsIn(_)
StringsIn(bytes) ==
  IF bytes = <<>> THEN <<>>
  ELSE LET n == 256 * bytes[1] + bytes[2]
       IN <<SubSeq(bytes, 3, 2 + n)>> \o StringsIn(SubSeq(bytes, 3 + n, Len(bytes)))
Decoded(first, body) ==
  LET type == first \div 16
      flags == first % 16
      n == 256 * body[1] + body[2]
      id == IF (flags \div 2) % 4 = 0 THEN 0 ELSE 2
  IN CASE type = CONNECT -> Sent(type, body[8], StringsIn(SubSeq(body, 11, Len(body))))
       [] type = PUBLISH -> Sent(type, flags, <<SubSeq(body, 3, 2 + n),
                                                SubSeq(body, 3 + n, 2 + n + id),
                                                SubSeq(body, 3 + n + id, Len(body))>>)
       [] OTHER -> Sent(type, flags, <<body>>)
RECURSIVE Packets(_)
Packets(bytes) ==
  LET l == LengthAt(bytes, 2, 1)
      last == l.next + l.length - 1
  IN IF bytes = <<>> \/ ~ l.ok \/ last > Len(bytes) THEN [whole |-> <<>>, left |-> Len(bytes)]
     ELSE LET r == Packets(SubSeq(bytes, last + 1, Len(bytes)))
          IN [r EXCEPT !.whole = <<Decoded(bytes[1], SubSeq(bytes, l.next, last))>> \o @]

\* The broker gets whole packets with what the program gave, in order: each publication
\* with its own topic and with what write() took of its payload, the last completed will
\* with each CONNECT, whatever was begun, composed, dropped, refused or pinged in between;
\* only the last one may be cut, by a connection that ends or while it is streamed.  A
\* buffered message that endMessage() reports as sent is whole.  A packet that is written
\* at once, as CONNECT, acknowledgments and pings are, may come repeated, but whole.  (Until
\* part of a message was sent twice, or sent and reported as failed: its header is then
\* followed by another that is taken for its payload, or by the bytes of a DISCONNECT.)
PacketsAreWhole ==
  LET p == Packets(conn.wire)
  IN ~ doubt =>
       /\ IsPrefix(p.whole, sent)
       /\ (conn.link /\ ~ Streams) \/ (told.ended /\ told.ok) => p.whole = sent /\ p.left = 0
=============================================================================
