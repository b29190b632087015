---------------------------- MODULE WiFiSockets ----------------------------
(***************************************************************************)
(* The TCP clients of the board (WiFiNINA/src/WiFiClient.cpp), the buffer  *)
(* each socket has on the board (utility/WiFiSocketBuffer.cpp) and the     *)
(* sockets of the radio module.  The board is sequential, but every        *)
(* command to the module takes time: the peer sends and closes between any *)
(* two commands, also in the middle of connect() and connected().          *)
(***************************************************************************)
EXTENDS Integers, Sequences, FiniteSets

CONSTANTS
  Clients,    \* the WiFiClient objects
  Sockets,    \* the module's sockets
  Bytes,      \* bytes a peer may send
  Lossy,      \* commands whose reply may be lost
  Tries,      \* times the same bytes are written until the module answers (6)
  MaxSent     \* bound: bytes on a connection

Commands == {"socket", "state", "data", "send"}
NoClient == "none"
NoSocket == 255
ASSUME SocketsAssumption ==
  /\ NoSocket \notin Sockets /\ Lossy \subseteq Commands /\ NoClient \notin Clients
  /\ Tries \in Nat /\ MaxSent \in Nat

VARIABLES
  sock,      \* _sock of a client
  buffer,    \* the unread bytes of WiFiSocketBuffer, by socket
  module,    \* external, by socket: [used, owner, open, unread]
  busy,      \* where connect() or connected() is: [client, at, rounds]
  astray,    \* history: clients whose socket may be another's as well: a failed write
             \* has closed it and they keep it, or such a client kept the one they got
  spoilt,    \* history: clients that may read what is not of their connection: two of
             \* them had its socket, or a reply with bytes was lost
  sent, got, \* history: bytes of the last connection, sent and (till it is spoilt) read
  told       \* history: the success a write has just reported: by whom, on whose
             \* connection it was sent, how many times, and the replies lost

clientVars == <<sock, buffer, busy, astray, spoilt>>
sockVars == <<sock, buffer, module, busy, astray, spoilt, sent, got, told>>

NoWrite == [by |-> NoClient, on |-> NoClient, times |-> 1, lost |-> 0]
Free == [used |-> FALSE, owner |-> NoClient, open |-> FALSE, unread |-> <<>>]
Ready == [client |-> NoClient, at |-> "none", rounds |-> 0]
Has(c) == sock[c] # NoSocket

\* Replies that come, and those that need not.
Loses(cmd) == IF cmd \in Lossy THEN BOOLEAN ELSE {FALSE}

(***************************************************************************)
(* The module: a peer sends, or closes the connection.                     *)
(***************************************************************************)
PeerSends(s, b) ==
  /\ module[s].open /\ module[s].owner # NoClient
  /\ Len(sent[module[s].owner]) < MaxSent
  /\ module' = [module EXCEPT ![s].unread = Append(@, b)]
  /\ sent' = [sent EXCEPT ![module[s].owner] = Append(@, b)]
  /\ told' = NoWrite
  /\ UNCHANGED <<clientVars, got>>

PeerCloses(s) ==
  /\ module[s].open
  /\ module' = [module EXCEPT ![s].open = FALSE]
  /\ told' = NoWrite
  /\ UNCHANGED <<clientVars, sent, got>>

(***************************************************************************)
(* WiFiSocketBuffer.                                                       *)
(***************************************************************************)
\* (Bug: the buffer is filled again before it is empty.)
FillsEarly(s) == {[buffer |-> module[s].unread, unread |-> <<>>, lost |-> FALSE]}

\* available(): an empty buffer is filled with bytes of the module, as many as it
\* hands over.  When the reply is lost they are lost too, and the buffer counts
\* as filled with what was in it before: any byte.
Fills(s) ==
  IF buffer[s] # <<>>
  THEN {[buffer |-> buffer[s], unread |-> module[s].unread, lost |-> FALSE]}
  ELSE {[buffer |-> SubSeq(module[s].unread, 1, k),
         unread |-> SubSeq(module[s].unread, k + 1, Len(module[s].unread)),
         lost |-> FALSE] : k \in 0..Len(module[s].unread)}
       \cup {[buffer |-> <<b>>, unread |-> <<>>, lost |-> TRUE] :
               b \in IF TRUE \in Loses("data") THEN Bytes ELSE {}}

\* A client finds f in its buffer and leaves some of it.
Fill(c, f, left) ==
  /\ buffer' = [buffer EXCEPT ![sock[c]] = left]
  /\ module' = [module EXCEPT ![sock[c]].unread = f.unread]
  /\ spoilt' = IF f.lost THEN spoilt \cup {c} ELSE spoilt

(***************************************************************************)
(* The operations of a client.                                             *)
(***************************************************************************)
\* read(): at most n bytes.
Read(c) ==
  /\ busy = Ready /\ Has(c)
  /\ \E f \in Fills(sock[c]) : \E k \in 0..Len(f.buffer) :
       /\ k = 0 => f.buffer = <<>>
       /\ Fill(c, f, SubSeq(f.buffer, k + 1, Len(f.buffer)))
       /\ got' = IF c \in spoilt' THEN got
                 ELSE [got EXCEPT ![c] = @ \o SubSeq(f.buffer, 1, k)]
  /\ told' = NoWrite
  /\ UNCHANGED <<sock, busy, astray, sent>>

Available(c) ==
  /\ busy = Ready /\ Has(c)
  /\ \E f \in Fills(sock[c]) : Fill(c, f, f.buffer)
  /\ told' = NoWrite
  /\ UNCHANGED <<sock, busy, astray, sent, got>>

\* (Bug: the bytes stay in the buffer.)
StopKeepsBytes(c) ==
  /\ busy = Ready /\ Has(c)
  /\ module' = [module EXCEPT ![sock[c]] = Free]
  /\ sock' = [sock EXCEPT ![c] = NoSocket]
  /\ astray' = astray \ {c}
  /\ told' = NoWrite
  /\ UNCHANGED <<buffer, busy, spoilt, sent, got>>

\* stop() waits for the module to say that the socket is closed, 5 s at most,
\* and forgets it in any case.
Stopped(s) == module' = [module EXCEPT ![s] = Free]
Stop(c) ==
  /\ busy = Ready /\ Has(c)
  /\ Stopped(sock[c])
  /\ buffer' = [buffer EXCEPT ![sock[c]] = <<>>]
  /\ sock' = [sock EXCEPT ![c] = NoSocket]
  /\ astray' = astray \ {c}
  /\ told' = NoWrite
  /\ UNCHANGED <<busy, spoilt, sent, got>>

\* connect(), connectSSL() and connectBearSSL(), by address or by name: what is open is
\* stopped; the module names a free socket and starts to connect it, or has none, or its
\* reply is lost.  (connect() with a name that is not found does nothing.)  The socket may
\* be the one a failed write has closed and whose client keeps it.
Released(c) == IF Has(c) THEN {sock[c]} ELSE {}
Keepers(c, s) == {d \in astray \ {c} : sock[d] = s}
Connect(c) ==
  /\ busy = Ready
  /\ LET mods == [s \in Sockets |-> IF s \in Released(c) THEN Free ELSE module[s]]
     IN \/ /\ (\A s \in Sockets : mods[s].used) \/ TRUE \in Loses("socket")
           /\ sock' = [sock EXCEPT ![c] = NoSocket]
           /\ module' = mods
           /\ astray' = astray \ {c}
           /\ UNCHANGED <<busy, spoilt, sent, got>>
        \/ \E s \in Sockets, open \in BOOLEAN :
             /\ ~ mods[s].used
             /\ module' = [mods EXCEPT ![s] =
                  [used |-> TRUE, owner |-> c, open |-> open, unread |-> <<>>]]
             /\ sock' = [sock EXCEPT ![c] = s]
             /\ busy' = [client |-> c, at |-> "available", rounds |-> 2]
             /\ sent' = [sent EXCEPT ![c] = <<>>]
             /\ got' = [got EXCEPT ![c] = <<>>]
             /\ IF Keepers(c, s) = {}
                THEN astray' = astray \ {c} /\ spoilt' = spoilt \ {c}
                ELSE /\ astray' = astray \cup {c}
                     /\ spoilt' = spoilt \cup Keepers(c, s) \cup {c}
  /\ buffer' = [s \in Sockets |-> IF s \in Released(c) THEN <<>> ELSE buffer[s]]
  /\ told' = NoWrite

Connected(c) ==
  /\ busy = Ready /\ Has(c)
  /\ busy' = [client |-> c, at |-> "available", rounds |-> 1]
  /\ told' = NoWrite
  /\ UNCHANGED <<sock, buffer, module, astray, spoilt, sent, got>>

\* connected() first asks for bytes: a connection that has some counts, whatever
\* has become of it.  connect() asks twice.
Again == IF busy.rounds > 1 THEN [busy EXCEPT !.rounds = @ - 1, !.at = "available"]
         ELSE Ready
AsksAvailable ==
  /\ busy.at = "available"
  /\ \E f \in Fills(sock[busy.client]) :
       /\ Fill(busy.client, f, f.buffer)
       /\ busy' = IF f.buffer # <<>> THEN Again ELSE [busy EXCEPT !.at = "state"]
  /\ told' = NoWrite
  /\ UNCHANGED <<sock, astray, sent, got>>

\* (Bug: the client keeps a socket that is closed.)
AsksStateKeeps ==
  /\ busy.at = "state"
  /\ LET s == sock[busy.client]
     IN IF module[s].open
        THEN busy' = Again /\ UNCHANGED module
        ELSE busy' = Ready /\ Stopped(s)
  /\ told' = NoWrite
  /\ UNCHANGED <<sock, buffer, astray, spoilt, sent, got>>

\* Then for the state: CLOSED makes the client forget its socket and its bytes.
\* The module frees a socket it reports as closed; one whose report is lost while it
\* is open stays in use, with bytes nobody can read any more.
AsksState ==
  /\ busy.at = "state"
  /\ LET c == busy.client
         s == sock[c]
     IN \E lost \in Loses("state") :
          IF module[s].open /\ ~ lost
          THEN busy' = Again /\ UNCHANGED <<sock, buffer, module, astray>>
          ELSE /\ busy' = Ready
               /\ astray' = astray \ {c}
               /\ sock' = [sock EXCEPT ![c] = NoSocket]
               /\ buffer' = [buffer EXCEPT ![s] = <<>>]
               /\ module' = IF ~ module[s].open THEN [module EXCEPT ![s] = Free]
                            ELSE IF module[s].owner # c THEN module
                            ELSE [module EXCEPT ![s].owner = NoClient, ![s].unread = <<>>]
  /\ told' = NoWrite
  /\ UNCHANGED <<spoilt, sent, got>>

\* write() tries to send the same bytes until one of the tries is answered; the module
\* sends them with any of them, also when its reply is lost.  When none is answered the
\* socket is closed, but the client keeps it.  When the module does not confirm that the
\* bytes have left, the write fails as well.
Write(c) ==
  /\ busy = Ready /\ Has(c)
  /\ \E times \in 0..Tries, answered, confirmed \in BOOLEAN :
       LET lost == IF answered THEN times - 1 ELSE times
       IN /\ lost >= 0
          /\ times > 0 => module[sock[c]].open
          /\ lost > 0 => TRUE \in Loses("send")
          /\ told' = IF answered /\ confirmed
                     THEN [by |-> c, on |-> module[sock[c]].owner,
                           times |-> times, lost |-> lost]
                     ELSE NoWrite
          /\ IF answered THEN UNCHANGED <<module, astray>>
             ELSE Stopped(sock[c]) /\ astray' = astray \cup {c}
  /\ UNCHANGED <<sock, buffer, busy, spoilt, sent, got>>

SockInit ==
  /\ sock = [c \in Clients |-> NoSocket]
  /\ buffer = [s \in Sockets |-> <<>>]
  /\ module = [s \in Sockets |-> Free]
  /\ busy = Ready /\ astray = {} /\ spoilt = {}
  /\ sent = [c \in Clients |-> <<>>] /\ got = [c \in Clients |-> <<>>]
  /\ told = NoWrite

SockNext ==
  \/ \E c \in Clients : Read(c) \/ Available(c) \/ Stop(c) \/ Connect(c)
                        \/ Connected(c) \/ Write(c)
  \/ AsksAvailable \/ AsksState
  \/ \E s \in Sockets : PeerCloses(s) \/ \E b \in Bytes : PeerSends(s, b)

SockSpec == SockInit /\ [][SockNext]_sockVars

(***************************************************************************)
(* Properties.                                                             *)
(***************************************************************************)
\* The type invariant.
SockTypeOK ==
  /\ sock \in [Clients -> Sockets \cup {NoSocket}]
  /\ buffer \in [Sockets -> Seq(Bytes)]
  /\ module \in [Sockets -> [used : BOOLEAN, owner : Clients \cup {NoClient},
                             open : BOOLEAN, unread : Seq(Bytes)]]
  /\ busy \in [client : Clients \cup {NoClient},
               at : {"none", "available", "state"}, rounds : 0..2]
  /\ astray \subseteq Clients /\ spoilt \subseteq Clients
  /\ sent \in [Clients -> Seq(Bytes)] /\ got \in [Clients -> Seq(Bytes)]
  /\ told \in [by : Clients \cup {NoClient}, on : Clients \cup {NoClient},
               times : Nat, lost : Nat]

\* The module names a socket anew as soon as it is free.  Still, two clients have one
\* socket only if a failed write came first, and one that has one without that is who
\* the module has it for; and a buffer holds bytes only while a client holds its socket.
SocketsOwned ==
  /\ \A c, d \in Clients : c # d /\ Has(c) /\ sock[c] = sock[d] => {c, d} \subseteq astray
  /\ \A c \in Clients \ astray : Has(c) => module[sock[c]].owner = c
  /\ \A s \in Sockets : buffer[s] # <<>> => \E c \in Clients : sock[c] = s

\* What a client reads is what its peer sent on this connection, in order and
\* once: through the module, the buffer and every way a connection can end; until
\* two clients have its socket or a reply with bytes is lost, and again with the
\* next connection on a socket no other client keeps.
Streams == INSTANCE ByteStreams
             WITH Clients <- Clients, Bytes <- Bytes, sent <- sent, got <- got,
                  spoilt <- spoilt
ImplementsStreams == Streams!StreamSpec

\* A write that reports a success was sent on the client's own connection, once and
\* once more for every reply to it that was lost, whatever the connections before it
\* have left behind; but for clients that keep the socket of a failed write.
ToldIsSent == told.by \notin astray => told.on = told.by /\ told.times = told.lost + 1
=============================================================================
