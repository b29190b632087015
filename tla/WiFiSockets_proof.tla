------------------------- MODULE WiFiSockets_proof -------------------------
(***************************************************************************)
(* Proofs about the sockets: that a client has a socket of the module for  *)
(* itself unless a failed write came first, that a successful write was    *)
(* sent on the client's own connection, and that what the clients read     *)
(* implements ByteStreams, for any number of clients, sockets and bytes    *)
(* and whatever replies are lost.                                          *)
(***************************************************************************)
EXTENDS WiFiSockets, SequenceTheorems, TLAPS

\* A sequence is what two parts of it make.
LEMMA CutInTwo ==
  ASSUME NEW S, NEW s \in Seq(S), NEW k \in 0..Len(s)
  PROVE  /\ SubSeq(s, 1, k) \in Seq(S) /\ SubSeq(s, k + 1, Len(s)) \in Seq(S)
         /\ SubSeq(s, 1, k) \o SubSeq(s, k + 1, Len(s)) = s
<1>1. Len(s) \in Nat /\ \A i \in 1..Len(s) : s[i] \in S
  BY ElementOfSeq, LenProperties
<1>2. SubSeq(s, 1, k) \in Seq(S) /\ SubSeq(s, k + 1, Len(s)) \in Seq(S)
  BY <1>1, SubSeqProperties
<1>3. SubSeq(s, 1, k) \o SubSeq(s, k + 1, Len(s)) = SubSeq(s, 1, Len(s))
  <2>1. 1 \in 1..(Len(s) + 1) /\ k \in (1 - 1)..Len(s) /\ Len(s) \in k..Len(s)
    BY <1>1
  <2> QED BY <2>1, ConcatAdjacentSubSeq, Zenon
<1>4. SubSeq(s, 1, Len(s)) = s
  BY SubSeqFull
<1> QED BY <1>2, <1>3, <1>4

\* The beginning of a sequence is what is cut off it.
LEMMA BeginningOf ==
  ASSUME NEW S, NEW s \in Seq(S), NEW t \in Seq(S)
  PROVE  SubSeq(s \o t, 1, Len(s)) = s /\ Len(s) <= Len(s \o t) /\ s \o t \in Seq(S)
<1>1. s \o t \in Seq(S) /\ Len(s \o t) = Len(s) + Len(t)
      /\ \A i \in 1..Len(s) : (s \o t)[i] = s[i]
  BY ConcatProperties
<1>2. /\ SubSeq(s \o t, 1, Len(s)) \in Seq(S) /\ Len(SubSeq(s \o t, 1, Len(s))) = Len(s)
      /\ \A i \in 1..Len(s) : SubSeq(s \o t, 1, Len(s))[i] = s[i]
  BY <1>1, SubSeqProperties, Len(s) \in Nat, Len(t) \in Nat
<1> QED BY <1>1, <1>2, SeqEqual
-----------------------------------------------------------------------------
LEMMA Sizes == NoSocket \notin Sockets /\ NoClient \notin Clients
BY SocketsAssumption

\* What the buffer and the module hold of a socket stays the same while the module hands
\* bytes over, as long as its reply comes.
LEMMA Filling ==
  ASSUME SockTypeOK, NEW s \in Sockets, NEW x \in Fills(s), ~ x.lost
  PROVE  /\ x.buffer \in Seq(Bytes) /\ x.unread \in Seq(Bytes)
         /\ x.buffer \o x.unread = buffer[s] \o module[s].unread
         /\ module[s].unread = <<>> => x.buffer = buffer[s] /\ x.unread = <<>>
<1>1. buffer[s] \in Seq(Bytes) /\ module[s].unread \in Seq(Bytes)
  BY DEF SockTypeOK
<1>2. CASE buffer[s] # <<>>
  <2>1. x = [buffer |-> buffer[s], unread |-> module[s].unread, lost |-> FALSE]
    BY <1>2, Zenon DEF Fills
  <2> QED BY <1>1, <2>1
<1>3. CASE buffer[s] = <<>>
  <2> DEFINE u == module[s].unread
  <2>0. \A b : [buffer |-> <<b>>, unread |-> <<>>, lost |-> TRUE].lost
    OBVIOUS
  <2>1. PICK k \in 0..Len(u) :
          x = [buffer |-> SubSeq(u, 1, k), unread |-> SubSeq(u, k + 1, Len(u)), lost |-> FALSE]
    BY <1>3, <2>0, Zenon DEF Fills
  <2>2. /\ SubSeq(u, 1, k) \in Seq(Bytes) /\ SubSeq(u, k + 1, Len(u)) \in Seq(Bytes)
        /\ SubSeq(u, 1, k) \o SubSeq(u, k + 1, Len(u)) = u
    BY <1>1, CutInTwo
  <2>3. <<>> \o u = u
    BY <1>1, ConcatEmptySeq
  <2>4. u = <<>> => x.buffer = <<>> /\ x.unread = <<>>
    BY <1>1, <2>1, <2>2, ConcatSimplifications
  <2> QED BY <1>3, <2>1, <2>2, <2>3, <2>4
<1> QED BY <1>2, <1>3

\* Also when it does not, the bytes are bytes, and the module has none it did not have.
LEMMA FillsBytes ==
  ASSUME SockTypeOK, NEW s \in Sockets, NEW x \in Fills(s)
  PROVE  /\ x.buffer \in Seq(Bytes) /\ x.unread \in Seq(Bytes)
         /\ module[s].unread = <<>> => x.unread = <<>>
<1>1. CASE ~ x.lost
  BY <1>1, Filling
<1>2. CASE x.lost
  <2>1. \/ x.lost = FALSE
        \/ \E b \in Bytes : x = [buffer |-> <<b>>, unread |-> <<>>, lost |-> TRUE]
    <3>1. \A m, n : [buffer |-> m, unread |-> n, lost |-> FALSE].lost = FALSE
      OBVIOUS
    <3> QED BY <3>1, Zenon DEF Fills
  <2>2. PICK b \in Bytes : x = [buffer |-> <<b>>, unread |-> <<>>, lost |-> TRUE]
    BY <1>2, <2>1, Zenon
  <2>3. <<b>> \in Seq(Bytes) /\ <<>> \in Seq(Bytes)
    OBVIOUS
  <2> QED BY <2>2, <2>3
<1> QED BY <1>1, <1>2

Module == [used : BOOLEAN, owner : Clients \cup {NoClient}, open : BOOLEAN, unread : Seq(Bytes)]

LEMMA FreeIsModule == Free \in Module /\ Free.owner = NoClient /\ Free.unread = <<>> /\ ~ Free.used
                      /\ ~ Free.open
BY DEF Free, Module

\* A module's socket with some of its fields changed.
LEMMA Updated ==
  ASSUME module \in [Sockets -> Module], NEW s \in Sockets
  PROVE  /\ \A u \in Seq(Bytes) : [module EXCEPT ![s].unread = u] \in [Sockets -> Module]
         /\ [module EXCEPT ![s].open = FALSE] \in [Sockets -> Module]
         /\ [module EXCEPT ![s] = Free] \in [Sockets -> Module]
         /\ [module EXCEPT ![s].owner = NoClient, ![s].unread = <<>>] \in [Sockets -> Module]
<1>1. \A u \in Seq(Bytes) : [module[s] EXCEPT !.unread = u] \in Module
  BY DEF Module
<1>2. [module[s] EXCEPT !.open = FALSE] \in Module
  BY DEF Module
<1>3. <<>> \in Seq(Bytes)
  OBVIOUS
<1>4. [module[s] EXCEPT !.owner = NoClient, !.unread = <<>>] \in Module
  BY <1>3 DEF Module
<1> QED BY <1>1, <1>2, <1>4, FreeIsModule

\* A sequence of bytes in place of that of one socket or client.
LEMMA Replaced ==
  ASSUME NEW D, NEW g \in [D -> Seq(Bytes)], NEW d \in D, NEW u \in Seq(Bytes)
  PROVE  [g EXCEPT ![d] = u] \in [D -> Seq(Bytes)]
OBVIOUS

LEMMA TypeInit == SockInit => SockTypeOK
<1>1. <<>> \in Seq(Bytes)
  OBVIOUS
<1> QED BY <1>1, FreeIsModule DEF SockInit, SockTypeOK, Ready, Module, NoWrite

\* An empty buffer that is filled, and one that is not.
LEMMA TypeFill ==
  ASSUME SockTypeOK, NEW c \in Clients, sock[c] \in Sockets, NEW x, NEW left \in Seq(Bytes),
         Fill(c, x, left), x.unread \in Seq(Bytes)
  PROVE  /\ buffer' \in [Sockets -> Seq(Bytes)] /\ module' \in [Sockets -> Module]
         /\ spoilt' \subseteq Clients
BY Updated, Replaced DEF Fill, SockTypeOK, Module

Busy == [client : Clients \cup {NoClient}, at : {"none", "available", "state"}, rounds : 0..2]

LEMMA AgainIsBusy ==
  ASSUME busy \in Busy PROVE Again \in Busy /\ Ready \in Busy
                              /\ [busy EXCEPT !.at = "state"] \in Busy
<1>1. Ready \in Busy
  BY DEF Busy, Ready
<1>2. [busy EXCEPT !.at = "state"] \in Busy
  BY DEF Busy
<1>3. ASSUME busy.rounds > 1
      PROVE  [busy EXCEPT !.rounds = @ - 1, !.at = "available"] \in Busy
  <2>1. busy.rounds - 1 \in 0..2
    BY <1>3 DEF Busy
  <2> DEFINE n == busy.rounds - 1
  <2>2. [busy EXCEPT !.rounds = n, !.at = "available"] \in Busy
    <3> HIDE DEF n
    <3> QED BY <2>1 DEF Busy, n
  <2> QED BY <2>2
<1> QED BY <1>1, <1>2, <1>3 DEF Again

\* What connect() makes of the sockets before it asks the module for one.
Emptied(c) == [s \in Sockets |-> IF s \in Released(c) THEN <<>> ELSE buffer[s]]
Mods(c) == [s \in Sockets |-> IF s \in Released(c) THEN Free ELSE module[s]]

\* connect() without a socket, and with one.
Rejects(c) == /\ sock' = [sock EXCEPT ![c] = NoSocket] /\ module' = Mods(c)
              /\ astray' = astray \ {c} /\ UNCHANGED <<busy, spoilt, sent, got>>
Gets(c, s, open) ==
  /\ ~ Mods(c)[s].used
  /\ module' = [Mods(c) EXCEPT ![s] =
       [used |-> TRUE, owner |-> c, open |-> open, unread |-> <<>>]]
  /\ sock' = [sock EXCEPT ![c] = s]
  /\ busy' = [client |-> c, at |-> "available", rounds |-> 2]
  /\ sent' = [sent EXCEPT ![c] = <<>>]
  /\ got' = [got EXCEPT ![c] = <<>>]
  /\ IF Keepers(c, s) = {}
     THEN astray' = astray \ {c} /\ spoilt' = spoilt \ {c}
     ELSE /\ astray' = astray \cup {c}
          /\ spoilt' = spoilt \cup Keepers(c, s) \cup {c}

LEMMA ConnectIs ==
  ASSUME NEW c, Connect(c)
  PROVE  /\ buffer' = Emptied(c) /\ told' = NoWrite /\ busy = Ready
         /\ Rejects(c) \/ \E s \in Sockets, open \in BOOLEAN : Gets(c, s, open)
BY Zenon DEF Connect, Rejects, Gets, Emptied, Mods

LEMMA ReleasedTypes ==
  ASSUME SockTypeOK, NEW c \in Clients
  PROVE  Emptied(c) \in [Sockets -> Seq(Bytes)] /\ Mods(c) \in [Sockets -> Module]
<1>1. <<>> \in Seq(Bytes)
  OBVIOUS
<1> QED BY <1>1, FreeIsModule DEF Emptied, Mods, SockTypeOK, Module

Told == [by : Clients \cup {NoClient}, on : Clients \cup {NoClient}, times : Nat, lost : Nat]

\* What connected() makes of a socket the module says is closed.
Forgets(c) ==
  /\ busy' = Ready /\ astray' = astray \ {c}
  /\ sock' = [sock EXCEPT ![c] = NoSocket]
  /\ buffer' = [buffer EXCEPT ![sock[c]] = <<>>]
  /\ \/ module' = [module EXCEPT ![sock[c]] = Free]
     \/ module' = module /\ module[sock[c]].owner # c
     \/ module' = [module EXCEPT ![sock[c]].owner = NoClient, ![sock[c]].unread = <<>>]

LEMMA AsksStateIs ==
  ASSUME AsksState, NEW c, c = busy.client
  PROVE  (busy' = Again /\ UNCHANGED <<sock, buffer, module, astray>>) \/ Forgets(c)
BY DEF AsksState, Forgets

\* Who waits in connect() or connected() holds a socket.
BusyHolds == busy = Ready \/ (busy.client \in Clients /\ Has(busy.client))

LEMMA TypeStep == SockTypeOK /\ BusyHolds /\ [SockNext]_sockVars => SockTypeOK'
<1> SUFFICES ASSUME SockTypeOK, BusyHolds, [SockNext]_sockVars PROVE SockTypeOK'
  OBVIOUS
<1> USE DEF clientVars
<1>t. /\ sock \in [Clients -> Sockets \cup {NoSocket}] /\ buffer \in [Sockets -> Seq(Bytes)]
      /\ module \in [Sockets -> Module] /\ busy \in Busy
      /\ astray \subseteq Clients /\ spoilt \subseteq Clients
      /\ sent \in [Clients -> Seq(Bytes)] /\ got \in [Clients -> Seq(Bytes)]
      /\ told \in Told
  BY DEF SockTypeOK, Module, Busy, Told
<1>s. ASSUME /\ sock' \in [Clients -> Sockets \cup {NoSocket}]
             /\ buffer' \in [Sockets -> Seq(Bytes)]
             /\ module' \in [Sockets -> Module] /\ busy' \in Busy
             /\ astray' \subseteq Clients /\ spoilt' \subseteq Clients
             /\ sent' \in [Clients -> Seq(Bytes)] /\ got' \in [Clients -> Seq(Bytes)]
             /\ told' \in Told
      PROVE  SockTypeOK'
  BY <1>s DEF SockTypeOK, Module, Busy, Told
<1>n. NoWrite \in Told
  BY DEF NoWrite, Told
<1>e. <<>> \in Seq(Bytes)
  OBVIOUS
<1>h. \A c \in Clients : Has(c) => sock[c] \in Sockets
  BY <1>t DEF Has
<1>1. CASE UNCHANGED sockVars
  BY <1>1, <1>t, <1>s DEF sockVars
<1>2. ASSUME NEW c \in Clients, Read(c) PROVE SockTypeOK'
  <2>1. sock[c] \in Sockets
    BY <1>2, <1>h DEF Read
  <2>2. PICK x \in Fills(sock[c]) : \E k \in 0..Len(x.buffer) :
          /\ Fill(c, x, SubSeq(x.buffer, k + 1, Len(x.buffer)))
          /\ got' = IF c \in spoilt' THEN got
                    ELSE [got EXCEPT ![c] = @ \o SubSeq(x.buffer, 1, k)]
    BY <1>2, Zenon DEF Read
  <2>3. PICK k \in 0..Len(x.buffer) :
          /\ Fill(c, x, SubSeq(x.buffer, k + 1, Len(x.buffer)))
          /\ got' = IF c \in spoilt' THEN got
                    ELSE [got EXCEPT ![c] = @ \o SubSeq(x.buffer, 1, k)]
    BY <2>2
  <2>4. x.buffer \in Seq(Bytes) /\ x.unread \in Seq(Bytes)
    BY <2>1, FillsBytes
  <2>5. /\ SubSeq(x.buffer, 1, k) \in Seq(Bytes)
        /\ SubSeq(x.buffer, k + 1, Len(x.buffer)) \in Seq(Bytes)
    BY <2>4, CutInTwo
  <2>6. /\ buffer' \in [Sockets -> Seq(Bytes)] /\ module' \in [Sockets -> Module]
        /\ spoilt' \subseteq Clients
    BY <2>1, <2>3, <2>4, <2>5, TypeFill
  <2>7. got' \in [Clients -> Seq(Bytes)]
    <3>1. got[c] \o SubSeq(x.buffer, 1, k) \in Seq(Bytes)
      BY <1>t, <2>5, ConcatProperties
    <3> QED BY <1>t, <2>3, <3>1
  <2> QED BY <1>2, <1>t, <1>s, <1>n, <2>6, <2>7 DEF Read
<1>3. ASSUME NEW c \in Clients, Available(c) PROVE SockTypeOK'
  <2>1. sock[c] \in Sockets
    BY <1>3, <1>h DEF Available
  <2>2. /\ buffer' \in [Sockets -> Seq(Bytes)] /\ module' \in [Sockets -> Module]
        /\ spoilt' \subseteq Clients
    BY <1>3, <2>1, FillsBytes, TypeFill DEF Available
  <2> QED BY <1>3, <1>t, <1>s, <1>n, <2>2 DEF Available
<1>4. ASSUME NEW c \in Clients, Stop(c) PROVE SockTypeOK'
  <2>1. sock[c] \in Sockets
    BY <1>4, <1>h DEF Stop
  <2> QED BY <1>4, <1>t, <1>s, <1>n, <1>e, <2>1, Updated, Replaced DEF Stop, Stopped
<1>5. ASSUME NEW c \in Clients, Connect(c) PROVE SockTypeOK'
  <2>1. buffer' = Emptied(c) /\ told' = NoWrite
    BY <1>5, ConnectIs
  <2>2. Emptied(c) \in [Sockets -> Seq(Bytes)] /\ Mods(c) \in [Sockets -> Module]
    BY ReleasedTypes
  <2>3. CASE Rejects(c)
    BY <1>t, <1>s, <1>n, <2>1, <2>2, <2>3 DEF Rejects
  <2>4. ASSUME NEW s \in Sockets, NEW open \in BOOLEAN, Gets(c, s, open) PROVE SockTypeOK'
    <3>1. [used |-> TRUE, owner |-> c, open |-> open, unread |-> <<>>] \in Module
      BY <1>e DEF Module
    <3>2. busy' \in Busy
      BY <2>4 DEF Busy, Gets
    <3>3. module' \in [Sockets -> Module] /\ sock' \in [Clients -> Sockets \cup {NoSocket}]
      BY <1>t, <2>2, <2>4, <3>1 DEF Gets
    <3>4. sent' \in [Clients -> Seq(Bytes)] /\ got' \in [Clients -> Seq(Bytes)]
      BY <1>t, <1>e, <2>4, Replaced DEF Gets
    <3>5. astray' \subseteq Clients /\ spoilt' \subseteq Clients
      BY <1>t, <2>4 DEF Gets, Keepers
    <3> QED BY <1>t, <1>s, <1>n, <2>1, <2>2, <3>2, <3>3, <3>4, <3>5
  <2> QED BY <1>5, <2>3, <2>4, ConnectIs
<1>6. ASSUME NEW c \in Clients, Connected(c) PROVE SockTypeOK'
  BY <1>6, <1>t, <1>s, <1>n DEF Connected, Busy
<1>7. ASSUME NEW c \in Clients, Write(c) PROVE SockTypeOK'
  <2>1. sock[c] \in Sockets
    BY <1>7, <1>h DEF Write
  <2>2. module' \in [Sockets -> Module] /\ astray' \subseteq Clients
    <3>1. \/ UNCHANGED <<module, astray>>
          \/ module' = [module EXCEPT ![sock[c]] = Free] /\ astray' = astray \cup {c}
      BY <1>7 DEF Write, Stopped
    <3>2. [module EXCEPT ![sock[c]] = Free] \in [Sockets -> Module]
      BY <1>t, <2>1, Updated
    <3>3. astray \cup {c} \subseteq Clients
      BY <1>t
    <3> QED BY <1>t, <3>1, <3>2, <3>3
  <2>3. module[sock[c]].owner \in Clients \cup {NoClient}
    BY <1>t, <2>1 DEF Module
  <2>4. told' \in Told
    <3>1. PICK times \in 0..Tries, lost \in Int :
            /\ lost >= 0
            /\ told' = NoWrite \/
               told' = [by |-> c, on |-> module[sock[c]].owner, times |-> times, lost |-> lost]
      BY <1>7, SocketsAssumption DEF Write
    <3>2. times \in Nat /\ lost \in Nat
      BY <3>1, SocketsAssumption
    <3> QED BY <1>n, <2>3, <3>1, <3>2 DEF Told
  <2> QED BY <1>7, <1>t, <1>s, <2>2, <2>4 DEF Write
<1>o. busy.at # "none" => busy.client \in Clients /\ sock[busy.client] \in Sockets
  BY <1>h DEF BusyHolds, Ready
<1>8. CASE AsksAvailable
  <2>1. busy.client \in Clients /\ sock[busy.client] \in Sockets
    BY <1>8, <1>o DEF AsksAvailable
  <2>2. PICK x \in Fills(sock[busy.client]) :
          /\ Fill(busy.client, x, x.buffer)
          /\ busy' = IF x.buffer # <<>> THEN Again ELSE [busy EXCEPT !.at = "state"]
    BY <1>8 DEF AsksAvailable
  <2>3. /\ buffer' \in [Sockets -> Seq(Bytes)] /\ module' \in [Sockets -> Module]
        /\ spoilt' \subseteq Clients
    BY <2>1, <2>2, FillsBytes, TypeFill
  <2>4. busy' \in Busy
    BY <1>t, <2>2, AgainIsBusy
  <2> QED BY <1>8, <1>t, <1>s, <1>n, <2>3, <2>4 DEF AsksAvailable
<1>9. CASE AsksState
  <2>1. busy.client \in Clients /\ sock[busy.client] \in Sockets
    BY <1>9, <1>o DEF AsksState
  <2>2. PICK c \in Clients : c = busy.client
    BY <2>1
  <2>3. (busy' = Again /\ UNCHANGED <<sock, buffer, module, astray>>) \/ Forgets(c)
    BY <1>9, <2>2, AsksStateIs
  <2>4. UNCHANGED <<spoilt, sent, got>> /\ told' = NoWrite
    BY <1>9 DEF AsksState
  <2>5. busy' \in Busy /\ astray' \subseteq Clients
    BY <1>t, <2>3, AgainIsBusy DEF Forgets
  <2>6. sock' \in [Clients -> Sockets \cup {NoSocket}] /\ buffer' \in [Sockets -> Seq(Bytes)]
    <3>1. /\ sock' = sock \/ sock' = [sock EXCEPT ![c] = NoSocket]
          /\ buffer' = buffer \/ buffer' = [buffer EXCEPT ![sock[c]] = <<>>]
      BY <2>3, Zenon DEF Forgets
    <3>2. [buffer EXCEPT ![sock[c]] = <<>>] \in [Sockets -> Seq(Bytes)]
      BY <1>t, <1>e, <2>1, <2>2, Replaced
    <3> QED BY <1>t, <3>1, <3>2
  <2>7. module' \in [Sockets -> Module]
    <3>1. \/ module' = module
          \/ module' = [module EXCEPT ![sock[c]].owner = NoClient, ![sock[c]].unread = <<>>]
          \/ module' = [module EXCEPT ![sock[c]] = Free]
      BY <2>3, Zenon DEF Forgets
    <3>2. PICK s \in Sockets : s = sock[c]
      BY <2>1, <2>2
    <3>3. \/ module' = module
          \/ module' = [module EXCEPT ![s].owner = NoClient, ![s].unread = <<>>]
          \/ module' = [module EXCEPT ![s] = Free]
      BY <3>1, <3>2
    <3> QED BY <1>t, <3>3, Updated
  <2> QED BY <1>t, <1>s, <1>n, <2>4, <2>5, <2>6, <2>7
<1>10. ASSUME NEW s \in Sockets, PeerCloses(s) PROVE SockTypeOK'
  BY <1>10, <1>t, <1>s, <1>n, Updated DEF PeerCloses
<1>11. ASSUME NEW s \in Sockets, NEW b \in Bytes, PeerSends(s, b) PROVE SockTypeOK'
  <2>1. module[s].unread \in Seq(Bytes) /\ module[s].owner \in Clients
    BY <1>11, <1>t DEF Module, PeerSends
  <2>o. sent[module[s].owner] \in Seq(Bytes)
    BY <1>t, <2>1
  <2>2. /\ Append(module[s].unread, b) \in Seq(Bytes)
        /\ Append(sent[module[s].owner], b) \in Seq(Bytes)
    BY <2>1, <2>o, AppendProperties
  <2>3. module' = [module EXCEPT ![s].unread = Append(module[s].unread, b)]
    BY <1>11, Zenon DEF PeerSends
  <2>4. sent' = [sent EXCEPT ![module[s].owner] = Append(sent[module[s].owner], b)]
    BY <1>11, Zenon DEF PeerSends
  <2>5. module' \in [Sockets -> Module] /\ sent' \in [Clients -> Seq(Bytes)]
    BY <1>t, <2>1, <2>2, <2>3, <2>4, Updated, Replaced
  <2> QED BY <1>11, <1>t, <1>s, <1>n, <2>5 DEF PeerSends
<1> QED BY <1>1, <1>2, <1>3, <1>4, <1>5, <1>6, <1>7, <1>8, <1>9, <1>10, <1>11 DEF SockNext

LEMMA BusyStep == SockTypeOK /\ BusyHolds /\ [SockNext]_sockVars => BusyHolds'
<1> SUFFICES ASSUME SockTypeOK, BusyHolds, [SockNext]_sockVars PROVE BusyHolds'
  OBVIOUS
<1>t. sock \in [Clients -> Sockets \cup {NoSocket}] /\ busy \in Busy
  BY DEF SockTypeOK, Busy
<1>1. ASSUME UNCHANGED <<sock, busy>> PROVE BusyHolds'
  BY <1>1 DEF BusyHolds, Has
<1>2. ASSUME busy' = Ready PROVE BusyHolds'
  BY <1>2 DEF BusyHolds
<1>3. ASSUME UNCHANGED sock, busy # Ready, busy'.client = busy.client PROVE BusyHolds'
  BY <1>3 DEF BusyHolds, Has
<1>4. CASE UNCHANGED sockVars
  BY <1>1, <1>4 DEF sockVars
<1>5. ASSUME NEW c \in Clients, Read(c) \/ Available(c) \/ Stop(c) \/ Write(c) PROVE BusyHolds'
  BY <1>2, <1>5 DEF Read, Available, Stop, Write
<1>6. ASSUME NEW c \in Clients, Connect(c) PROVE BusyHolds'
  <2>1. CASE UNCHANGED busy
    BY <1>2, <1>6, <2>1 DEF Connect
  <2>2. ASSUME NEW s \in Sockets, sock' = [sock EXCEPT ![c] = s], busy'.client = c PROVE BusyHolds'
    BY <1>t, <2>2, Sizes DEF BusyHolds, Has
  <2>3. \/ UNCHANGED busy
        \/ \E s \in Sockets : sock' = [sock EXCEPT ![c] = s] /\ busy'.client = c
    BY <1>6, ConnectIs DEF Rejects, Gets
  <2> QED BY <2>1, <2>2, <2>3
<1>7. ASSUME NEW c \in Clients, Connected(c) PROVE BusyHolds'
  BY <1>7 DEF Connected, BusyHolds, Has
<1>8. CASE AsksAvailable \/ AsksState
  <2>1. busy # Ready
    BY <1>8 DEF AsksAvailable, AsksState, Ready
  <2>2. Again = Ready \/ Again.client = busy.client
    BY <1>t DEF Again, Busy
  <2>3. [busy EXCEPT !.at = "state"].client = busy.client
    BY <1>t DEF Busy
  <2> QED BY <1>2, <1>3, <1>8, <2>1, <2>2, <2>3 DEF AsksAvailable, AsksState
<1>9. ASSUME NEW s \in Sockets, PeerCloses(s) \/ (\E b \in Bytes : PeerSends(s, b)) PROVE BusyHolds'
  BY <1>1, <1>9 DEF PeerCloses, PeerSends, clientVars
<1> QED BY <1>4, <1>5, <1>6, <1>7, <1>8, <1>9 DEF SockNext

\* Every value has its type, whatever replies are lost.
THEOREM SocketTypes == SockSpec => []SockTypeOK
<1>1. SockInit => BusyHolds
  BY DEF SockInit, BusyHolds
<1> QED BY <1>1, TypeInit, TypeStep, BusyStep, PTL DEF SockSpec
-----------------------------------------------------------------------------
\* Clients that have one socket are astray, and may read each other's bytes; a buffer that
\* is not empty is held; the module has the socket of a client that is not astray for that
\* client; who the module has a socket for holds it; and one it has for nobody brings no
\* bytes.
Sole == \A c, d \in Clients :
          c # d /\ Has(c) /\ sock[c] = sock[d] => c \in astray /\ c \in spoilt
Kept == \A s \in Sockets : buffer[s] # <<>> => \E c \in Clients : sock[c] = s
Owned == \A c \in Clients : c \notin astray /\ Has(c) =>
           module[sock[c]].used /\ module[sock[c]].owner = c
Holder == \A s \in Sockets : module[s].owner # NoClient => sock[module[s].owner] = s
Nobodys == \A s \in Sockets : module[s].owner = NoClient => module[s].unread = <<>>
OwnInv == Sole /\ Kept /\ Owned /\ Holder /\ Nobodys

Base == SockTypeOK /\ BusyHolds

\* A step that leaves the sockets to those who have them.
LEMMA Keeps ==
  ASSUME OwnInv, SockTypeOK, UNCHANGED <<sock, astray>>, spoilt \subseteq spoilt',
         \A s \in Sockets : /\ module'[s].used = module[s].used
                            /\ module'[s].owner = module[s].owner
                            /\ module[s].owner = NoClient /\ module[s].unread = <<>> =>
                                 module'[s].unread = <<>>
                            /\ buffer'[s] # <<>> =>
                                 buffer[s] # <<>> \/ \E c \in Clients : sock[c] = s
  PROVE  OwnInv'
<1>h. \A c \in Clients : Has(c) => sock[c] \in Sockets
  BY DEF Has, SockTypeOK
<1>e. sock' = sock /\ astray' = astray
  OBVIOUS
<1>k. ASSUME NEW s \in Sockets
      PROVE  /\ module'[s].used = module[s].used /\ module'[s].owner = module[s].owner
             /\ module[s].owner = NoClient /\ module[s].unread = <<>> =>
                  module'[s].unread = <<>>
             /\ buffer'[s] # <<>> => buffer[s] # <<>> \/ \E c \in Clients : sock[c] = s
  OBVIOUS
<1>1. Sole'
  BY <1>e DEF OwnInv, Sole, Has
<1>2. ASSUME NEW s \in Sockets, buffer'[s] # <<>> PROVE \E c \in Clients : sock'[c] = s
  BY <1>e, <1>k, <1>2 DEF OwnInv, Kept
<1>3. Owned'
  BY <1>e, <1>h, <1>k DEF OwnInv, Owned, Has
<1>4. ASSUME NEW s \in Sockets, module'[s].owner # NoClient PROVE sock'[module'[s].owner] = s
  BY <1>e, <1>k, <1>4 DEF OwnInv, Holder
<1>5. ASSUME NEW s \in Sockets, module'[s].owner = NoClient PROVE module'[s].unread = <<>>
  BY <1>k, <1>5 DEF OwnInv, Nobodys
<1> QED BY <1>1, <1>2, <1>3, <1>4, <1>5 DEF OwnInv, Kept, Holder, Nobodys

\* A step with which client c forgets its socket, and the module has it for c no more.
LEMMA Drops ==
  ASSUME OwnInv, SockTypeOK, NEW c \in Clients, sock' = [sock EXCEPT ![c] = NoSocket],
         astray' = astray \ {c}, spoilt' = spoilt,
         \A s \in Sockets :
           IF s = sock[c]
           THEN /\ buffer'[s] = <<>>
                /\ \/ module'[s].owner = NoClient /\ module'[s].unread = <<>>
                   \/ module'[s] = module[s] /\ module[s].owner # c
           ELSE buffer'[s] = buffer[s] /\ module'[s] = module[s]
  PROVE  OwnInv'
<1>h. \A d \in Clients : Has(d) => sock[d] \in Sockets
  BY DEF Has, SockTypeOK
<1>o. ~ Has(c)' /\ \A d \in Clients \ {c} : sock'[d] = sock[d] /\ Has(d)' = Has(d)
  BY DEF Has, SockTypeOK
<1>1. Sole'
  BY <1>o DEF OwnInv, Sole, Has
<1>2. Kept'
  BY <1>o DEF OwnInv, Kept
<1>3. \A d \in Clients \ {c} : d \notin astray /\ Has(d) => module'[sock[d]] = module[sock[d]]
  BY <1>h DEF OwnInv, Sole
<1>4. Owned'
  BY <1>o, <1>3 DEF OwnInv, Owned
<1>5. ASSUME NEW s \in Sockets, module'[s].owner # NoClient PROVE sock'[module'[s].owner] = s
  <2>1. module'[s] = module[s] /\ sock[module[s].owner] = s /\ module[s].owner # c
    BY <1>5 DEF OwnInv, Holder
  <2>2. module[s].owner \in Clients
    BY <1>5, <2>1 DEF SockTypeOK
  <2> QED BY <1>o, <2>1, <2>2
<1>6. Nobodys'
  BY DEF OwnInv, Nobodys
<1> QED BY <1>1, <1>2, <1>4, <1>5, <1>6 DEF OwnInv, Holder

\* What connect() releases is the client's own socket, and another client has it only if
\* both are astray.
LEMMA OthersKeep ==
  ASSUME OwnInv, SockTypeOK, NEW c \in Clients
  PROVE  /\ \A s \in Sockets : IF s = sock[c] THEN Emptied(c)[s] = <<>> /\ Mods(c)[s] = Free
                                 ELSE Emptied(c)[s] = buffer[s] /\ Mods(c)[s] = module[s]
         /\ \A d \in Clients \ {c} : Has(d) => sock[d] \in Sockets
         /\ \A d \in Clients \ {c} : Has(d) /\ sock[d] = sock[c] => d \in astray /\ d \in spoilt
BY Sizes DEF OwnInv, Sole, Emptied, Mods, Released, Has, SockTypeOK

\* A socket connect() is given is kept only by clients that are astray; its buffer is
\* empty if there is none.
LEMMA Fresh ==
  ASSUME OwnInv, SockTypeOK, NEW c \in Clients, NEW s \in Sockets, ~ Mods(c)[s].used
  PROVE  /\ \A d \in Clients \ {c} : sock[d] = s => d \in Keepers(c, s)
         /\ Keepers(c, s) = {} => Emptied(c)[s] = <<>>
<1>1. ASSUME NEW d \in Clients \ {c}, sock[d] = s PROVE d \in Keepers(c, s)
  <2>1. Has(d)
    BY <1>1, Sizes DEF Has
  <2>2. d \in astray
    <3>1. CASE s = sock[c]
      BY <1>1, <2>1, <3>1, OthersKeep
    <3>2. CASE s # sock[c]
      <4>1. Mods(c)[s] = module[s]
        BY <3>2, OthersKeep
      <4> QED BY <1>1, <2>1, <4>1 DEF OwnInv, Owned
    <3> QED BY <3>1, <3>2
  <2> QED BY <1>1, <2>2 DEF Keepers
<1>2. Keepers(c, s) = {} => Emptied(c)[s] = <<>>
  BY <1>1, OthersKeep DEF OwnInv, Kept
<1> QED BY <1>1, <1>2

LEMMA OwnStep == Base /\ OwnInv /\ [SockNext]_sockVars => OwnInv'
<1> SUFFICES ASSUME Base, OwnInv, [SockNext]_sockVars PROVE OwnInv'
  OBVIOUS
<1>t. SockTypeOK /\ BusyHolds
  BY DEF Base
<1>m. /\ sock \in [Clients -> Sockets \cup {NoSocket}] /\ buffer \in [Sockets -> Seq(Bytes)]
      /\ module \in [Sockets -> Module]
  BY <1>t DEF SockTypeOK, Module
<1>h. \A c \in Clients : Has(c) => sock[c] \in Sockets
  BY <1>m DEF Has
<1>1. ASSUME UNCHANGED <<sock, buffer, module, astray, spoilt>> PROVE OwnInv'
  BY <1>1, <1>t, Keeps
<1>f. ASSUME NEW c \in Clients, Has(c), NEW x \in Fills(sock[c]), NEW left,
             Fill(c, x, left), UNCHANGED <<sock, astray>>
      PROVE  OwnInv'
  <2>1. module[sock[c]].unread = <<>> => x.unread = <<>>
    BY <1>f, <1>h, <1>t, FillsBytes
  <2>2. \A s \in Sockets : /\ module'[s].used = module[s].used
                           /\ module'[s].owner = module[s].owner
                           /\ module[s].unread = <<>> => module'[s].unread = <<>>
    BY <1>f, <1>m, <2>1 DEF Fill, Module
  <2>3. \A s \in Sockets : s # sock[c] => buffer'[s] = buffer[s]
    BY <1>f, <1>m DEF Fill
  <2>4. spoilt \subseteq spoilt'
    BY <1>f DEF Fill
  <2> QED BY <1>f, <1>t, <2>2, <2>3, <2>4, Keeps
<1>2. ASSUME NEW c \in Clients, Read(c) PROVE OwnInv'
  <2>1. PICK x \in Fills(sock[c]) : \E k \in 0..Len(x.buffer) :
          Fill(c, x, SubSeq(x.buffer, k + 1, Len(x.buffer)))
    BY <1>2, Zenon DEF Read
  <2>2. PICK left : Fill(c, x, left)
    BY <2>1, Zenon
  <2> QED BY <1>2, <1>f, <2>2 DEF Read
<1>3. ASSUME NEW c \in Clients, Available(c) PROVE OwnInv'
  BY <1>3, <1>f DEF Available
<1>4. ASSUME NEW c \in Clients, Stop(c) PROVE OwnInv'
  BY <1>4, <1>t, <1>m, FreeIsModule, Drops DEF Stop, Stopped
<1>5. ASSUME NEW c \in Clients, Connect(c) PROVE OwnInv'
  <2>1. buffer' = Emptied(c)
    BY <1>5, ConnectIs
  <2>k. /\ \A s \in Sockets : IF s = sock[c] THEN Emptied(c)[s] = <<>> /\ Mods(c)[s] = Free
                                ELSE Emptied(c)[s] = buffer[s] /\ Mods(c)[s] = module[s]
        /\ \A d \in Clients \ {c} : Has(d) => sock[d] \in Sockets
        /\ \A d \in Clients \ {c} : Has(d) /\ sock[d] = sock[c] => d \in astray /\ d \in spoilt
    BY <1>t, OthersKeep
  <2>2. CASE Rejects(c)
    <3>1. \A s \in Sockets :
            IF s = sock[c]
            THEN buffer'[s] = <<>> /\ module'[s].owner = NoClient /\ module'[s].unread = <<>>
            ELSE buffer'[s] = buffer[s] /\ module'[s] = module[s]
      BY <2>1, <2>2, <2>k, FreeIsModule DEF Rejects
    <3>2. sock' = [sock EXCEPT ![c] = NoSocket] /\ astray' = astray \ {c} /\ spoilt' = spoilt
      BY <2>2 DEF Rejects
    <3> QED BY <1>t, <3>1, <3>2, Drops
  <2>3. ASSUME NEW s \in Sockets, NEW open \in BOOLEAN, Gets(c, s, open) PROVE OwnInv'
    <3>1. /\ \A d \in Clients \ {c} : sock[d] = s => d \in Keepers(c, s)
          /\ Keepers(c, s) = {} => Emptied(c)[s] = <<>>
      BY <1>t, <2>3, Fresh DEF Gets
    <3>2. sock'[c] = s /\ \A d \in Clients \ {c} : sock'[d] = sock[d]
      BY <1>m, <2>3 DEF Gets
    <3>3. /\ module'[s].used /\ module'[s].owner = c
          /\ \A r \in Sockets \ {s} : module'[r] = Mods(c)[r]
      BY <1>t, <2>3, ReleasedTypes DEF Gets
    <3>4. /\ \A d \in Clients \ {c} : /\ d \in astray <=> d \in astray'
                                      /\ d \in spoilt => d \in spoilt'
          /\ Keepers(c, s) \subseteq spoilt' /\ Keepers(c, s) \subseteq astray
          /\ Keepers(c, s) # {} => c \in astray' /\ c \in spoilt'
      BY <2>3 DEF Gets, Keepers
    <3>5. \A d \in Clients \ {c} : Has(d)' = Has(d)
      BY <3>2 DEF Has
    <3>6. Sole'
      <4>1. ASSUME NEW d \in Clients \ {c}, sock'[d] = sock'[c]
            PROVE  {c, d} \subseteq astray' /\ {c, d} \subseteq spoilt'
        <5>1. d \in Keepers(c, s)
          BY <3>1, <3>2, <4>1
        <5>2. d \in astray'
          BY <3>4, <5>1
        <5> QED BY <3>4, <5>1, <5>2
      <4>2. ASSUME NEW d \in Clients \ {c}, NEW e \in Clients \ {c}, d # e, Has(d),
                   sock'[d] = sock'[e]
            PROVE  d \in astray' /\ d \in spoilt'
        BY <3>2, <3>4, <4>2 DEF OwnInv, Sole
      <4> QED BY <3>5, <4>1, <4>2 DEF Sole
    <3>7. Kept'
      <4>1. ASSUME NEW r \in Sockets, buffer'[r] # <<>> PROVE \E d \in Clients : sock'[d] = r
        <5>1. r # sock[c] /\ buffer[r] # <<>>
          BY <2>1, <2>k, <4>1
        <5>2. PICK d \in Clients : sock[d] = r
          BY <5>1 DEF OwnInv, Kept
        <5> QED BY <3>2, <5>1, <5>2
      <4> QED BY <4>1 DEF Kept
    <3>8. Owned'
      <4>1. ASSUME NEW d \in Clients, d \notin astray', Has(d)'
            PROVE  (module[sock[d]].used /\ module[sock[d]].owner = d)'
        <5>1. CASE d = c
          BY <3>2, <3>3, <5>1
        <5>2. CASE d # c
          <6>1. d \notin astray /\ Has(d) /\ sock'[d] = sock[d]
            BY <3>2, <3>4, <3>5, <4>1, <5>2
          <6>2. sock[d] \in Sockets /\ sock[d] # sock[c] /\ sock[d] # s
            BY <2>k, <3>1, <3>4, <5>2, <6>1
          <6>3. module'[sock[d]] = module[sock[d]]
            BY <2>k, <3>3, <6>2
          <6> QED BY <5>2, <6>1, <6>3 DEF OwnInv, Owned
        <5> QED BY <5>1, <5>2
      <4> QED BY <4>1 DEF Owned
    <3>9. ASSUME NEW r \in Sockets, module'[r].owner # NoClient PROVE sock'[module'[r].owner] = r
      <4>1. CASE r = s
        BY <3>2, <3>3, <4>1
      <4>2. CASE r # s
        <5>1. r # sock[c] /\ module'[r] = module[r]
          BY <2>k, <3>3, <3>9, <4>2, FreeIsModule
        <5>2. module[r].owner \in Clients /\ sock[module[r].owner] = r
          BY <1>m, <3>9, <5>1 DEF OwnInv, Holder, Module
        <5> QED BY <3>2, <5>1, <5>2
      <4> QED BY <4>1, <4>2
    <3>10. ASSUME NEW r \in Sockets, module'[r].owner = NoClient PROVE module'[r].unread = <<>>
      <4>1. r # s
        BY <3>3, <3>10, Sizes
      <4> QED BY <2>k, <3>3, <3>10, <4>1, FreeIsModule DEF OwnInv, Nobodys
    <3> QED BY <3>6, <3>7, <3>8, <3>9, <3>10 DEF OwnInv, Holder, Nobodys
  <2> QED BY <1>5, <2>2, <2>3, ConnectIs
<1>6. ASSUME NEW c \in Clients, Connected(c) PROVE OwnInv'
  BY <1>1, <1>6 DEF Connected
<1>7. ASSUME NEW c \in Clients, Write(c) PROVE OwnInv'
  <2>0. UNCHANGED <<sock, buffer, spoilt>> /\ Has(c)
    BY <1>7 DEF Write
  <2>1. CASE UNCHANGED <<module, astray>>
    BY <1>1, <2>0, <2>1
  <2>2. CASE Stopped(sock[c]) /\ astray' = astray \cup {c}
    <3>1. Has(c) /\ sock[c] \in Sockets /\ sock' = sock /\ buffer' = buffer /\ spoilt' = spoilt
      BY <1>h, <2>0
    <3>2. /\ module'[sock[c]] = Free
          /\ \A s \in Sockets \ {sock[c]} : module'[s] = module[s]
      BY <1>m, <2>2, <3>1 DEF Stopped
    <3>3. Sole' /\ Kept'
      BY <2>2, <3>1 DEF OwnInv, Sole, Kept, Has
    <3>4. ASSUME NEW d \in Clients, d \notin astray', Has(d)'
          PROVE  (module[sock[d]].used /\ module[sock[d]].owner = d)'
      <4>1. d # c /\ d \notin astray /\ Has(d)
        BY <2>2, <3>1, <3>4 DEF Has
      <4>2. sock[d] # sock[c] /\ sock[d] \in Sockets
        BY <1>h, <3>1, <4>1 DEF OwnInv, Sole
      <4> QED BY <3>1, <3>2, <4>1, <4>2 DEF OwnInv, Owned
    <3>5. Owned'
      BY <3>4 DEF Owned
    <3>6. Holder' /\ Nobodys'
      BY <3>1, <3>2, FreeIsModule DEF OwnInv, Holder, Nobodys
    <3> QED BY <3>3, <3>5, <3>6 DEF OwnInv
  <2> QED BY <1>7, <2>1, <2>2 DEF Write
<1>o. busy.at # "none" => busy.client \in Clients /\ Has(busy.client)
  BY <1>t DEF BusyHolds, Ready
<1>8. CASE AsksAvailable
  BY <1>8, <1>o, <1>f DEF AsksAvailable
<1>9. CASE AsksState
  <2>1. busy.client \in Clients /\ Has(busy.client) /\ spoilt' = spoilt
    BY <1>9, <1>o DEF AsksState
  <2>2. PICK c \in Clients : c = busy.client
    BY <2>1
  <2>3. UNCHANGED <<sock, buffer, module, astray>> \/ Forgets(c)
    BY <1>9, <2>2, AsksStateIs
  <2>4. CASE Forgets(c)
    <3>1. sock[c] \in Sockets
      BY <1>h, <2>1, <2>2
    <3>2. \A r \in Sockets :
            IF r = sock[c]
            THEN \/ module'[r].owner = NoClient /\ module'[r].unread = <<>>
                 \/ module'[r] = module[r] /\ module[r].owner # c
            ELSE module'[r] = module[r]
      BY <1>m, <2>4, <3>1, FreeIsModule DEF Module, Forgets
    <3>3. \A r \in Sockets : IF r = sock[c] THEN buffer'[r] = <<>> ELSE buffer'[r] = buffer[r]
      BY <1>m, <2>4, <3>1 DEF Forgets
    <3>4. sock' = [sock EXCEPT ![c] = NoSocket] /\ astray' = astray \ {c}
      BY <2>4 DEF Forgets
    <3> QED BY <1>t, <2>1, <3>2, <3>3, <3>4, Drops
  <2> QED BY <1>1, <2>1, <2>3, <2>4
<1>10. ASSUME NEW s \in Sockets, PeerCloses(s) PROVE OwnInv'
  <2>1. UNCHANGED <<sock, buffer, astray, spoilt>> /\ module' = [module EXCEPT ![s].open = FALSE]
    BY <1>10 DEF PeerCloses, clientVars
  <2>2. \A r \in Sockets : /\ module'[r].used = module[r].used /\ module'[r].owner = module[r].owner
                           /\ module'[r].unread = module[r].unread
    BY <1>m, <2>1 DEF Module
  <2> QED BY <1>t, <2>1, <2>2, Keeps
<1>11. ASSUME NEW s \in Sockets, NEW b \in Bytes, PeerSends(s, b) PROVE OwnInv'
  <2>1. UNCHANGED <<sock, buffer, astray, spoilt>> /\ module[s].owner # NoClient
    BY <1>11 DEF PeerSends, clientVars
  <2>2. module' = [module EXCEPT ![s].unread = Append(module[s].unread, b)]
    BY <1>11, Zenon DEF PeerSends
  <2>3. \A r \in Sockets : /\ module'[r].used = module[r].used /\ module'[r].owner = module[r].owner
                           /\ r # s => module'[r] = module[r]
    BY <1>m, <2>2 DEF Module
  <2> QED BY <1>t, <2>1, <2>3, Keeps
<1>12. CASE UNCHANGED sockVars
  BY <1>1, <1>12 DEF sockVars
<1> QED BY <1>2, <1>3, <1>4, <1>5, <1>6, <1>7, <1>8, <1>9, <1>10, <1>11, <1>12 DEF SockNext

\* Every state has its types and its owners.
LEMMA Owners == SockSpec => [](Base /\ OwnInv)
<1>1. SockInit => BusyHolds /\ OwnInv
  BY Sizes DEF SockInit, BusyHolds, OwnInv, Sole, Kept, Owned, Holder, Nobodys, Has, Free
<1>2. Base /\ OwnInv /\ [SockNext]_sockVars => OwnInv'
  BY OwnStep
<1> QED BY <1>1, <1>2, TypeInit, TypeStep, BusyStep, PTL DEF SockSpec, Base

\* Without a failed write before it no two clients have one socket of the module, the
\* socket of a client is the one the module has for it, and bytes wait only for a client
\* that holds their socket; whatever replies are lost.
THEOREM OneOwner == SockSpec => []SocketsOwned
<1>1. Base /\ OwnInv => SocketsOwned
  <2> SUFFICES ASSUME OwnInv PROVE SocketsOwned
    BY DEF Base
  <2>1. ASSUME NEW c \in Clients, NEW d \in Clients, c # d, Has(c), sock[c] = sock[d]
        PROVE  {c, d} \subseteq astray
    <3>1. Has(d)
      BY <2>1 DEF Has
    <3> QED BY <2>1, <3>1 DEF OwnInv, Sole
  <2> QED BY <2>1 DEF OwnInv, SocketsOwned, Kept, Owned
<1> QED BY <1>1, Owners, PTL

\* The socket of a client that is not astray is its own, so that a write the module has
\* answered was sent for the client that asked for it.
LEMMA ToldStep == Base /\ OwnInv /\ ToldIsSent /\ [SockNext]_sockVars => ToldIsSent'
<1> SUFFICES ASSUME Base, OwnInv, ToldIsSent, [SockNext]_sockVars PROVE ToldIsSent'
  OBVIOUS
<1>1. ASSUME told' = NoWrite PROVE ToldIsSent'
  BY <1>1 DEF ToldIsSent, NoWrite
<1>2. ASSUME NEW c \in Clients, Write(c) PROVE ToldIsSent'
  <2>1. Has(c)
    BY <1>2 DEF Write
  <2>2. c \notin astray => module[sock[c]].owner = c
    BY <2>1 DEF OwnInv, Owned
  <2>3. PICK times \in 0..Tries, answered \in BOOLEAN :
          \/ told' = NoWrite
          \/ /\ answered /\ astray' = astray
             /\ told' = [by |-> c, on |-> module[sock[c]].owner,
                         times |-> times, lost |-> times - 1]
    BY <1>2 DEF Write
  <2>4. times \in Int
    BY <2>3, SocketsAssumption
  <2> QED BY <1>1, <2>2, <2>3, <2>4 DEF ToldIsSent
<1>3. ASSUME NEW c \in Clients,
             Read(c) \/ Available(c) \/ Stop(c) \/ Connect(c) \/ Connected(c)
      PROVE  told' = NoWrite
  BY <1>3 DEF Read, Available, Stop, Connect, Connected
<1>4. ASSUME AsksAvailable \/ AsksState PROVE told' = NoWrite
  BY <1>4 DEF AsksAvailable, AsksState
<1>5. ASSUME NEW s \in Sockets, PeerCloses(s) \/ \E b \in Bytes : PeerSends(s, b)
      PROVE  told' = NoWrite
  BY <1>5 DEF PeerCloses, PeerSends
<1>6. CASE UNCHANGED sockVars
  BY <1>6 DEF sockVars, ToldIsSent
<1> QED BY <1>1, <1>2, <1>3, <1>4, <1>5, <1>6 DEF SockNext

\* A write that reports a success was sent on the client's own connection, once and once
\* more for every reply that was lost, if no failed write came first; however many
\* clients, sockets and retries there are.
THEOREM ToldSent == SockSpec => []ToldIsSent
<1>1. SockInit => ToldIsSent
  BY DEF SockInit, ToldIsSent, NoWrite
<1> QED BY <1>1, Owners, ToldStep, PTL DEF SockSpec
-----------------------------------------------------------------------------
\* On a connection that is not spoilt, what the peer has sent is what the client has read,
\* what waits in its buffer and a rest; as long as the module has the connection for the
\* client, the rest waits there.
Held(c) == IF Has(c) THEN buffer[sock[c]] ELSE <<>>
Owns(c) == Has(c) /\ module[sock[c]].owner = c
Streamed(c) == \E rest \in Seq(Bytes) :
  sent[c] = got[c] \o (Held(c) \o rest) /\ (Owns(c) => rest = module[sock[c]].unread)
StreamsInv == \A c \in Clients \ spoilt : Streamed(c)

\* w falls into a and b.
Cut(w, a, b) == w = a \o b

\* The order of two cuts does not matter.
LEMMA Regroups ==
  ASSUME NEW x \in Seq(Bytes), NEW y \in Seq(Bytes), NEW z \in Seq(Bytes),
         NEW xy, Cut(xy, x, y), NEW yz, Cut(yz, y, z), NEW xyz, Cut(xyz, xy, z)
  PROVE  Cut(xyz, x, yz)
<1>1. xy = x \o y /\ yz = y \o z /\ xyz = xy \o z
  BY DEF Cut
<1>2. (x \o y) \o z = x \o (y \o z)
  BY ConcatAssociative
<1> QED BY <1>1, <1>2 DEF Cut

\* What is sent goes to the end.
LEMMA GoesLast ==
  ASSUME NEW g \in Seq(Bytes), NEW h \in Seq(Bytes), NEW u \in Seq(Bytes), NEW b \in Bytes
  PROVE  Append(g \o (h \o u), b) = g \o (h \o Append(u, b)) /\ Append(u, b) \in Seq(Bytes)
<1>1. \A s \in Seq(Bytes) : Cut(Append(s, b), s, <<b>>)
  BY AppendIsConcat DEF Cut
<1>2. <<b>> \in Seq(Bytes)
  OBVIOUS
<1>3. PICK hu \in Seq(Bytes) : Cut(hu, h, u)
  BY ConcatProperties DEF Cut
<1>4. PICK ghu \in Seq(Bytes) : Cut(ghu, g, hu)
  BY ConcatProperties DEF Cut
<1>5. Append(u, b) \in Seq(Bytes)
  OBVIOUS
<1>6. Cut(Append(hu, b), h, Append(u, b))
  BY <1>1, <1>2, <1>3, Regroups
<1>7. Cut(Append(ghu, b), g, Append(hu, b))
  BY <1>1, <1>2, <1>3, <1>4, Regroups
<1>8. ghu = g \o (h \o u)
  BY <1>3, <1>4 DEF Cut
<1>9. Append(ghu, b) = g \o (h \o Append(u, b))
  BY <1>6, <1>7 DEF Cut
<1> QED BY <1>5, <1>8, <1>9

\* A client whose connection a step leaves alone.
LEMMA SameStream ==
  ASSUME NEW d \in Clients, Streamed(d), sent'[d] = sent[d], got'[d] = got[d],
         Held(d)' = Held(d),
         Owns(d)' => Owns(d) /\ module'[sock'[d]].unread = module[sock[d]].unread
  PROVE  Streamed(d)'
BY DEF Streamed

\* A client that forgets its socket: what waited is the rest.
LEMMA ForgetsIt ==
  ASSUME SockTypeOK, NEW c \in Clients, Streamed(c), ~ Has(c)', sent'[c] = sent[c], got'[c] = got[c]
  PROVE  Streamed(c)'
<1>1. PICK rest \in Seq(Bytes) : sent[c] = got[c] \o (Held(c) \o rest)
  BY DEF Streamed
<1>2. Held(c) \in Seq(Bytes)
  <2>1. <<>> \in Seq(Bytes)
    OBVIOUS
  <2> QED BY <2>1 DEF Held, Has, SockTypeOK
<1>3. Held(c) \o rest \in Seq(Bytes)
  BY <1>1, <1>2, ConcatProperties
<1>4. <<>> \o (Held(c) \o rest) = Held(c) \o rest
  BY <1>3, ConcatEmptySeq
<1>5. sent'[c] = got'[c] \o (Held(c)' \o (Held(c) \o rest))
  <2>1. Held(c)' = <<>>
    BY DEF Held
  <2> QED BY <1>1, <1>4, <2>1
<1>6. ~ Owns(c)'
  BY DEF Owns
<1> QED BY <1>3, <1>5, <1>6 DEF Streamed

\* A client whose connection is not spoilt has its socket for itself, and one the module has
\* for another client brings it nothing.
LEMMA Alone ==
  ASSUME Base, OwnInv, NEW c \in Clients \ spoilt, Has(c)
  PROVE  /\ sock[c] \in Sockets
         /\ \A d \in Clients \ {c} : sock[d] # sock[c]
         /\ ~ Owns(c) => module[sock[c]].unread = <<>>
<1>1. sock[c] \in Sockets
  BY DEF Base, SockTypeOK, Has
<1>2. \A d \in Clients \ {c} : sock[d] # sock[c]
  BY DEF OwnInv, Sole
<1>3. ASSUME ~ Owns(c) PROVE module[sock[c]].owner = NoClient
  <2>1. module[sock[c]].owner \in Clients \cup {NoClient}
    BY <1>1 DEF Base, SockTypeOK
  <2>2. module[sock[c]].owner # c
    BY <1>3 DEF Owns
  <2> QED BY <1>1, <1>2, <2>1, <2>2 DEF OwnInv, Holder
<1> QED BY <1>1, <1>2, <1>3 DEF OwnInv, Nobodys

\* A step with which one client forgets its socket, and the rest stays the same.
LEMMA OneForgets ==
  ASSUME Base, OwnInv, StreamsInv, NEW c \in Clients, sock' = [sock EXCEPT ![c] = NoSocket],
         UNCHANGED <<spoilt, sent, got>>,
         \A s \in Sockets : s # sock[c] => buffer'[s] = buffer[s] /\ module'[s] = module[s]
  PROVE  StreamsInv'
<1>1. ASSUME NEW d \in Clients \ spoilt PROVE Streamed(d)'
  <2>0. sent' = sent /\ got' = got /\ Streamed(d) /\ SockTypeOK
    BY DEF StreamsInv, Base
  <2>1. CASE d = c
    <3>1. ~ Has(c)'
      BY <2>0 DEF Has, SockTypeOK
    <3> QED BY <2>0, <2>1, <3>1, ForgetsIt
  <2>2. CASE d # c
    <3>1. sock'[d] = sock[d] /\ Has(d)' = Has(d)
      BY <2>0, <2>2 DEF Has, SockTypeOK
    <3>2. Has(d) => sock[d] \in Sockets /\ sock[d] # sock[c]
      BY <2>2, Alone
    <3>3. /\ Held(d)' = Held(d)
          /\ Owns(d)' => Owns(d) /\ module'[sock'[d]].unread = module[sock[d]].unread
      BY <3>1, <3>2 DEF Held, Owns
    <3> QED BY <2>0, <3>3, SameStream
  <2> QED BY <2>1, <2>2
<1>2. spoilt' = spoilt
  OBVIOUS
<1> QED BY <1>1, <1>2 DEF StreamsInv

\* The streams of the other clients, while one fills its buffer and reads.
LEMMA OthersStream ==
  ASSUME Base, OwnInv, StreamsInv, NEW c \in Clients, Has(c), NEW u, NEW left,
         buffer' = [buffer EXCEPT ![sock[c]] = left],
         module' = [module EXCEPT ![sock[c]].unread = u],
         UNCHANGED <<sock, sent>>, spoilt \subseteq spoilt',
         \A d \in Clients \ {c} : got'[d] = got[d],
         c \in spoilt' \/ Streamed(c)'
  PROVE  StreamsInv'
<1>t. /\ sock[c] \in Sockets /\ sock' = sock /\ sent' = sent
      /\ buffer \in [Sockets -> Seq(Bytes)] /\ module \in [Sockets -> Module]
  BY DEF Base, SockTypeOK, Has, Module
<1>u. \A s \in Sockets : s # sock[c] => buffer'[s] = buffer[s] /\ module'[s] = module[s]
  BY <1>t
<1>1. ASSUME NEW d \in Clients \ spoilt', d # c PROVE Streamed(d)'
  <2>1. got'[d] = got[d] /\ sent'[d] = sent[d] /\ Streamed(d) /\ d \in Clients \ spoilt
    BY <1>t, <1>1 DEF StreamsInv
  <2>2. Has(d) => sock[d] \in Sockets /\ sock[d] # sock[c]
    BY <1>1, <2>1, Alone
  <2>3. /\ Held(d)' = Held(d)
        /\ Owns(d)' => Owns(d) /\ module'[sock'[d]].unread = module[sock[d]].unread
    BY <1>t, <1>u, <2>2 DEF Held, Owns, Has
  <2> QED BY <1>1, <2>1, <2>3, SameStream
<1> QED BY <1>1 DEF StreamsInv

\* A step that fills a client's buffer and reads the first bytes of it: a is what is
\* read.
LEMMA Reads ==
  ASSUME Base, OwnInv, StreamsInv, NEW c \in Clients \ spoilt, Has(c),
         NEW x \in Fills(sock[c]), ~ x.lost, NEW a \in Seq(Bytes), NEW left \in Seq(Bytes),
         Cut(x.buffer, a, left), buffer' = [buffer EXCEPT ![sock[c]] = left],
         module' = [module EXCEPT ![sock[c]].unread = x.unread],
         UNCHANGED <<sock, sent>>, got'[c] = got[c] \o a
  PROVE  Streamed(c)'
<1>t. /\ SockTypeOK /\ sock[c] \in Sockets /\ sock' = sock /\ sent' = sent
      /\ buffer \in [Sockets -> Seq(Bytes)] /\ module \in [Sockets -> Module]
      /\ got \in [Clients -> Seq(Bytes)]
  BY DEF Base, SockTypeOK, Has, Module
<1>x. /\ x.buffer \in Seq(Bytes) /\ x.unread \in Seq(Bytes)
      /\ x.buffer \o x.unread = buffer[sock[c]] \o module[sock[c]].unread
      /\ module[sock[c]].unread = <<>> => x.buffer = buffer[sock[c]] /\ x.unread = <<>>
  BY <1>t, Filling
<1>u. /\ buffer'[sock[c]] = left /\ module'[sock[c]].unread = x.unread
      /\ module'[sock[c]].owner = module[sock[c]].owner
      /\ \A s \in Sockets : s # sock[c] => buffer'[s] = buffer[s] /\ module'[s] = module[s]
  BY <1>t DEF Module
<1>1. PICK rest \in Seq(Bytes) :
        sent[c] = got[c] \o (Held(c) \o rest) /\ (Owns(c) => rest = module[sock[c]].unread)
  BY DEF StreamsInv, Streamed
<1>2. Held(c) = buffer[sock[c]] /\ Held(c)' = left
  BY <1>t, <1>u DEF Held, Has
<1>3. PICK r \in Seq(Bytes) : sent[c] = got[c] \o (x.buffer \o r) /\ (Owns(c) => r = x.unread)
  <2>1. CASE Owns(c)
    <3>1. rest = module[sock[c]].unread
      BY <1>1, <2>1
    <3>2. sent[c] = got[c] \o (x.buffer \o x.unread)
      BY <1>x, <1>1, <1>2, <3>1
    <3> QED BY <1>x, <3>2
  <2>2. CASE ~ Owns(c)
    <3>1. module[sock[c]].unread = <<>>
      BY <2>2, Alone
    <3> QED BY <1>x, <1>1, <1>2, <2>2, <3>1
  <2> QED BY <2>1, <2>2
<1>4. sent'[c] = got'[c] \o (Held(c)' \o r)
  <2>1. got'[c] = got[c] \o a
    BY <1>t
  <2>2. got[c] \in Seq(Bytes)
    BY <1>t
  <2>3. Cut(got'[c], got[c], a) /\ Cut(left \o r, left, r) /\ Cut(x.buffer \o r, x.buffer, r)
    BY <2>1 DEF Cut
  <2>5. PICK now, g, lr, wr, w :
           /\ now = got'[c] /\ g = got[c] /\ lr = left \o r /\ wr = x.buffer \o r /\ w = x.buffer
           /\ Cut(now, g, a) /\ Cut(lr, left, r) /\ Cut(wr, w, r) /\ Cut(w, a, left)
           /\ g \in Seq(Bytes)
    BY <2>2, <2>3
  <2>6. lr \in Seq(Bytes)
    <3>1. left \o r \in Seq(Bytes)
      BY ConcatProperties
    <3> QED BY <2>5, <3>1
  <2>c. Cut(now, g, a) /\ Cut(lr, left, r) /\ Cut(wr, w, r) /\ Cut(w, a, left) /\ g \in Seq(Bytes)
    BY <2>5
  <2>7. Cut(wr, a, lr)
    BY <2>c, Regroups
  <2>8. PICK all : Cut(all, now, lr)
    BY DEF Cut
  <2>9. Cut(all, g, wr)
    BY <2>c, <2>6, <2>7, <2>8, Regroups
  <2>10. now \o lr = g \o wr
    BY <2>8, <2>9 DEF Cut
  <2>4. got'[c] \o (left \o r) = got[c] \o (x.buffer \o r)
    BY <2>5, <2>10
  <2> QED BY <1>t, <1>2, <1>3, <2>4
<1>5. Owns(c)' => r = module'[sock'[c]].unread
  BY <1>t, <1>u, <1>3 DEF Owns, Has
<1> QED BY <1>4, <1>5 DEF Streamed

\* A step that fills a client's buffer and reads nothing.
LEMMA FillsOnly ==
  ASSUME Base, OwnInv, StreamsInv, NEW c \in Clients, Has(c),
         NEW x \in Fills(sock[c]), Fill(c, x, x.buffer), UNCHANGED <<sock, sent, got>>
  PROVE  /\ StreamsInv'
         /\ spoilt' = spoilt \/ spoilt' = spoilt \cup {c}
<1>0. spoilt' = IF x.lost THEN spoilt \cup {c} ELSE spoilt
  BY DEF Fill
<1>1. CASE x.lost \/ c \in spoilt
  <2>1. c \in spoilt' /\ spoilt \subseteq spoilt'
    BY <1>0, <1>1
  <2> QED BY <1>0, <2>1, OthersStream DEF Fill
<1>2. CASE ~ x.lost /\ c \notin spoilt
  <2>1. x.buffer \in Seq(Bytes) /\ got[c] \in Seq(Bytes)
    BY FillsBytes DEF Base, SockTypeOK, Has
  <2>2. <<>> \in Seq(Bytes)
    OBVIOUS
  <2>3. Cut(x.buffer, <<>>, x.buffer) /\ got'[c] = got[c] \o <<>>
    BY <2>1, ConcatEmptySeq DEF Cut
  <2>4. c \in Clients \ spoilt /\ ~ x.lost
    BY <1>2
  <2>5. /\ buffer' = [buffer EXCEPT ![sock[c]] = x.buffer]
        /\ module' = [module EXCEPT ![sock[c]].unread = x.unread] /\ UNCHANGED <<sock, sent>>
    BY DEF Fill
  <2>6. Streamed(c)'
    BY <2>1, <2>2, <2>3, <2>4, <2>5, Reads
  <2> QED BY <1>0, <1>2, <2>5, <2>6, OthersStream
<1> QED BY <1>1, <1>2

\* read() hands out the bytes the peer has sent next.
LEMMA ReadStreams ==
  ASSUME Base, OwnInv, StreamsInv, NEW c \in Clients, Read(c)
  PROVE  /\ StreamsInv'
         /\ \/ UNCHANGED got /\ (spoilt' = spoilt \/ spoilt' = spoilt \cup {c})
            \/ /\ c \notin spoilt /\ spoilt' = spoilt
               /\ \E a \in Seq(Bytes) : got'[c] = got[c] \o a
               /\ \A d \in Clients \ {c} : got'[d] = got[d]
<1>1. PICK x \in Fills(sock[c]) : \E k \in 0..Len(x.buffer) :
        /\ Fill(c, x, SubSeq(x.buffer, k + 1, Len(x.buffer)))
        /\ got' = IF c \in spoilt' THEN got
                  ELSE [got EXCEPT ![c] = @ \o SubSeq(x.buffer, 1, k)]
  BY Zenon DEF Read
<1>2. PICK k \in 0..Len(x.buffer) :
        /\ Fill(c, x, SubSeq(x.buffer, k + 1, Len(x.buffer)))
        /\ got' = IF c \in spoilt' THEN got
                  ELSE [got EXCEPT ![c] = @ \o SubSeq(x.buffer, 1, k)]
  BY <1>1
<1> DEFINE left == SubSeq(x.buffer, k + 1, Len(x.buffer))
           a == SubSeq(x.buffer, 1, k)
<1>3. /\ sock[c] \in Sockets /\ Has(c) /\ UNCHANGED <<sock, sent>>
      /\ got \in [Clients -> Seq(Bytes)]
  BY DEF Read, Base, SockTypeOK, Has
<1>4. x.buffer \in Seq(Bytes) /\ x.unread \in Seq(Bytes)
  BY <1>3, FillsBytes DEF Base
<1>5. a \in Seq(Bytes) /\ left \in Seq(Bytes) /\ a \o left = x.buffer
  BY <1>4, CutInTwo
<1>6. /\ buffer' = [buffer EXCEPT ![sock[c]] = left]
      /\ module' = [module EXCEPT ![sock[c]].unread = x.unread]
      /\ spoilt' = IF x.lost THEN spoilt \cup {c} ELSE spoilt
  BY <1>2 DEF Fill
<1>7. got' = IF c \in spoilt' THEN got ELSE [got EXCEPT ![c] = got[c] \o a]
  BY <1>2
<1> HIDE DEF left, a
<1>8. CASE c \in spoilt'
  <2>1. got' = got /\ spoilt \subseteq spoilt' /\ (spoilt' = spoilt \/ spoilt' = spoilt \cup {c})
    BY <1>6, <1>7, <1>8
  <2> QED BY <1>3, <1>6, <1>8, <2>1, OthersStream
<1>9. CASE c \notin spoilt'
  <2>1. c \in Clients \ spoilt /\ ~ x.lost /\ spoilt' = spoilt
    BY <1>6, <1>9
  <2>2. got'[c] = got[c] \o a /\ \A d \in Clients \ {c} : got'[d] = got[d]
    BY <1>3, <1>7, <1>9
  <2>3. Cut(x.buffer, a, left)
    BY <1>5 DEF Cut
  <2>4. Streamed(c)'
    BY <1>3, <1>5, <1>6, <2>1, <2>2, <2>3, Reads
  <2>5. StreamsInv'
    BY <1>3, <1>6, <2>1, <2>2, <2>4, OthersStream
  <2> QED BY <1>5, <2>1, <2>2, <2>5
<1> QED BY <1>8, <1>9

\* connect() starts a stream anew: nothing of an earlier one is in the way, unless another
\* client keeps the socket.
LEMMA ConnectStreams ==
  ASSUME Base, OwnInv, StreamsInv, NEW c \in Clients, Connect(c)
  PROVE  StreamsInv' /\ (UNCHANGED <<sent, got, spoilt>> \/ Streams!Open(c))
<1>t. /\ SockTypeOK /\ sock \in [Clients -> Sockets \cup {NoSocket}]
      /\ sent \in [Clients -> Seq(Bytes)] /\ got \in [Clients -> Seq(Bytes)]
  BY DEF Base, SockTypeOK
<1>1. buffer' = Emptied(c) /\ (Rejects(c) \/ \E s \in Sockets, open \in BOOLEAN : Gets(c, s, open))
  BY ConnectIs
<1>k. /\ \A s \in Sockets : IF s = sock[c] THEN Emptied(c)[s] = <<>> /\ Mods(c)[s] = Free
                            ELSE Emptied(c)[s] = buffer[s] /\ Mods(c)[s] = module[s]
  BY <1>t, OthersKeep
<1>2. CASE Rejects(c)
  BY <1>1, <1>2, <1>k, OneForgets DEF Rejects
<1>3. ASSUME NEW s \in Sockets, NEW open \in BOOLEAN, Gets(c, s, open)
      PROVE  StreamsInv' /\ Streams!Open(c)
  <2>1. /\ \A d \in Clients \ {c} : sock[d] = s => d \in Keepers(c, s)
        /\ Keepers(c, s) = {} => Emptied(c)[s] = <<>>
    BY <1>t, <1>3, Fresh DEF Gets
  <2>2. sock'[c] = s /\ \A d \in Clients \ {c} : sock'[d] = sock[d]
    BY <1>t, <1>3 DEF Gets
  <2>3. /\ module'[s].owner = c /\ module'[s].unread = <<>>
        /\ \A r \in Sockets \ {s} : module'[r] = Mods(c)[r]
    BY <1>t, <1>3, ReleasedTypes DEF Gets
  <2>4. buffer' = Emptied(c)
    BY <1>1
  <2>5. /\ sent'[c] = <<>> /\ got'[c] = <<>>
        /\ \A d \in Clients \ {c} : sent'[d] = sent[d] /\ got'[d] = got[d]
    BY <1>t, <1>3 DEF Gets
  <2>6. /\ IF Keepers(c, s) = {} THEN spoilt' = spoilt \ {c}
           ELSE spoilt' = spoilt \cup Keepers(c, s) \cup {c}
        /\ Keepers(c, s) \subseteq Clients \ {c}
    BY <1>t, <1>3 DEF Gets, Keepers, SockTypeOK
  <2>7. ASSUME c \notin spoilt' PROVE Streamed(c)'
    <3>1. <<>> \in Seq(Bytes) /\ <<>> \o (<<>> \o <<>>) = <<>>
      OBVIOUS
    <3>2. Held(c)' = <<>>
      BY <2>1, <2>2, <2>4, <2>6, <2>7 DEF Held
    <3> QED BY <2>2, <2>3, <2>5, <3>1, <3>2 DEF Streamed, Owns
  <2>8. ASSUME NEW d \in Clients \ spoilt', d # c PROVE Streamed(d)'
    <3>1. d \in Clients \ spoilt /\ d \notin Keepers(c, s)
      BY <2>6, <2>8
    <3>2. Has(d) => sock[d] # s /\ sock[d] \in Sockets /\ sock[d] # sock[c]
      BY <2>1, <2>8, <3>1, Alone
    <3>3. Has(d) => buffer'[sock[d]] = buffer[sock[d]] /\ module'[sock[d]] = module[sock[d]]
      BY <1>k, <2>3, <2>4, <3>2
    <3>4. /\ Held(d)' = Held(d)
          /\ Owns(d)' => Owns(d) /\ module'[sock'[d]].unread = module[sock[d]].unread
      BY <2>2, <2>8, <3>3 DEF Held, Owns, Has
    <3> QED BY <2>5, <2>8, <3>1, <3>4, SameStream DEF StreamsInv
  <2>9. StreamsInv'
    BY <2>7, <2>8 DEF StreamsInv
  <2>10. Streams!Open(c)
    <3>1. sent' = [sent EXCEPT ![c] = <<>>] /\ got' = [got EXCEPT ![c] = <<>>]
      BY <1>3 DEF Gets
    <3>2. \E others \in SUBSET (Clients \ {c}) :
            spoilt' = IF others = {} THEN spoilt \ {c} ELSE spoilt \cup others \cup {c}
      BY <2>6
    <3> QED BY <3>1, <3>2 DEF Streams!Open
  <2> QED BY <2>9, <2>10
<1> QED BY <1>1, <1>2, <1>3 DEF Rejects

\* What a peer sends waits behind what it has sent before.
LEMMA SendStreams ==
  ASSUME Base, OwnInv, StreamsInv, NEW s \in Sockets, NEW b \in Bytes, PeerSends(s, b)
  PROVE  /\ StreamsInv' /\ UNCHANGED <<got, spoilt>>
         /\ \E c \in Clients : sent' = [sent EXCEPT ![c] = Append(sent[c], b)]
<1>t. /\ sock \in [Clients -> Sockets \cup {NoSocket}] /\ buffer \in [Sockets -> Seq(Bytes)]
      /\ module \in [Sockets -> Module]
      /\ sent \in [Clients -> Seq(Bytes)] /\ got \in [Clients -> Seq(Bytes)]
  BY DEF Base, SockTypeOK, Module
<1>1. /\ UNCHANGED <<sock, buffer, got, spoilt>> /\ module[s].owner # NoClient
  BY DEF PeerSends, clientVars
<1>2. module' = [module EXCEPT ![s].unread = Append(module[s].unread, b)]
  BY Zenon DEF PeerSends
<1>o. module[s].owner \in Clients
  BY <1>1, <1>t DEF Module
<1>c. PICK c \in Clients : c = module[s].owner
  BY <1>o
<1>3. sent' = [sent EXCEPT ![c] = Append(sent[c], b)]
  BY <1>c, Zenon DEF PeerSends
<1>4. c \in Clients /\ sock[c] = s
  BY <1>1, <1>c DEF OwnInv, Holder
<1>5. Has(c)
  BY <1>4, Sizes DEF Has
<1>6. Owns(c)
  BY <1>c, <1>4, <1>5 DEF Owns
<1>7. /\ module'[s].unread = Append(module[s].unread, b) /\ module[s].unread \in Seq(Bytes)
      /\ \A r \in Sockets : /\ module'[r].owner = module[r].owner
                            /\ r # s => module'[r] = module[r]
  BY <1>t, <1>2 DEF Module
<1>8. sent'[c] = Append(sent[c], b) /\ \A d \in Clients \ {c} : sent'[d] = sent[d]
  BY <1>t, <1>3, <1>4
<1>9. ASSUME c \notin spoilt PROVE Streamed(c)'
  <2>1. sent[c] = got[c] \o (Held(c) \o module[s].unread)
    BY <1>4, <1>6, <1>9 DEF StreamsInv, Streamed
  <2>2. Held(c) = buffer[s] /\ Held(c)' = buffer[s]
    BY <1>1, <1>4, <1>5 DEF Held, Has
  <2> DEFINE u == module[s].unread
             h == buffer[s]
             g == got[c]
  <2>3. u \in Seq(Bytes) /\ h \in Seq(Bytes) /\ g \in Seq(Bytes)
    BY <1>t, <1>4, <1>7
  <2>4. sent[c] = g \o (h \o u)
    BY <2>1, <2>2
  <2> HIDE DEF u, h, g
  <2>5. Append(g \o (h \o u), b) = g \o (h \o Append(u, b)) /\ Append(u, b) \in Seq(Bytes)
    BY <2>3, GoesLast
  <2>6. sent'[c] = g \o (h \o Append(u, b))
    BY <1>8, <2>4, <2>5
  <2>7. got'[c] = g /\ Held(c)' = h /\ module'[sock'[c]].unread = Append(u, b)
    BY <1>1, <1>4, <1>7, <2>2 DEF g, h, u
  <2> QED BY <2>5, <2>6, <2>7 DEF Streamed
<1>10. ASSUME NEW d \in Clients \ spoilt, d # c PROVE Streamed(d)'
  <2>1. Has(d) => sock[d] \in Sockets /\ sock[d] # s
    BY <1>4, <1>10, Alone
  <2>2. /\ Held(d)' = Held(d)
        /\ Owns(d)' => Owns(d) /\ module'[sock'[d]].unread = module[sock[d]].unread
    BY <1>1, <1>7, <2>1 DEF Held, Owns, Has
  <2> QED BY <1>1, <1>8, <1>10, <2>2, SameStream DEF StreamsInv
<1> QED BY <1>1, <1>3, <1>4, <1>9, <1>10 DEF StreamsInv

\* The steps that neither send, read nor connect.
LEMMA QuietStreams ==
  ASSUME Base, OwnInv, StreamsInv,
         \/ \E c \in Clients : Available(c) \/ Stop(c) \/ Connected(c) \/ Write(c)
         \/ AsksAvailable \/ AsksState
         \/ \E s \in Sockets : PeerCloses(s)
  PROVE  /\ StreamsInv' /\ UNCHANGED <<sent, got>>
         /\ spoilt' = spoilt \/ \E c \in Clients : spoilt' = spoilt \cup {c}
<1>t. /\ SockTypeOK /\ sock \in [Clients -> Sockets \cup {NoSocket}]
      /\ buffer \in [Sockets -> Seq(Bytes)] /\ module \in [Sockets -> Module]
  BY DEF Base, SockTypeOK, Module
<1>h. \A c \in Clients : Has(c) => sock[c] \in Sockets
  BY <1>t DEF Has
<1>o. busy.at # "none" => busy.client \in Clients /\ Has(busy.client)
  BY DEF Base, BusyHolds, Ready
<1>e. ASSUME UNCHANGED <<sock, buffer, spoilt, sent, got>>,
             \A s \in Sockets : module'[s].owner # NoClient =>
                                  /\ module'[s].owner = module[s].owner
                                  /\ module'[s].unread = module[s].unread
      PROVE  StreamsInv'
  <2>1. ASSUME NEW d \in Clients \ spoilt PROVE Streamed(d)'
    <3>1. /\ Held(d)' = Held(d)
          /\ Owns(d)' => Owns(d) /\ module'[sock'[d]].unread = module[sock[d]].unread
      BY <1>e, <1>h, Sizes DEF Held, Owns, Has
    <3> QED BY <1>e, <3>1, SameStream DEF StreamsInv
  <2> QED BY <1>e, <2>1 DEF StreamsInv
<1> DEFINE spoils == spoilt' = spoilt \/ \E c \in Clients : spoilt' = spoilt \cup {c}
<1>1. ASSUME NEW c \in Clients, Available(c) PROVE StreamsInv' /\ spoils
  BY <1>1, FillsOnly DEF Available
<1>2. ASSUME NEW c \in Clients, Stop(c) PROVE StreamsInv'
  <2>1. /\ sock[c] \in Sockets /\ sock' = [sock EXCEPT ![c] = NoSocket]
        /\ buffer' = [buffer EXCEPT ![sock[c]] = <<>>]
        /\ module' = [module EXCEPT ![sock[c]] = Free] /\ UNCHANGED <<spoilt, sent, got>>
    BY <1>2, <1>h DEF Stop, Stopped
  <2> QED BY <1>t, <2>1, OneForgets
<1>3. ASSUME NEW c \in Clients, Connected(c) PROVE StreamsInv'
  BY <1>3, <1>e DEF Connected
<1>4. ASSUME NEW c \in Clients, Write(c) PROVE StreamsInv'
  <2>1. /\ UNCHANGED <<sock, buffer, spoilt, sent, got>>
        /\ module' = module \/ module' = [module EXCEPT ![sock[c]] = Free]
    BY <1>4 DEF Write, Stopped
  <2>2. \A s \in Sockets : module'[s] = module[s] \/ module'[s].owner = NoClient
    BY <1>t, <2>1, FreeIsModule
  <2> QED BY <1>e, <2>1, <2>2
<1>5. CASE AsksAvailable
  <2>1. PICK c \in Clients : c = busy.client
    BY <1>5, <1>o DEF AsksAvailable
  <2>2. \E x \in Fills(sock[c]) : Fill(c, x, x.buffer)
    <3>1. PICK x \in Fills(sock[busy.client]) :
            /\ Fill(busy.client, x, x.buffer)
            /\ busy' = IF x.buffer # <<>> THEN Again ELSE [busy EXCEPT !.at = "state"]
      BY <1>5 DEF AsksAvailable
    <3>2. x \in Fills(sock[c]) /\ Fill(c, x, x.buffer)
      BY <2>1, <3>1
    <3> QED BY <3>2
  <2>3. Has(c) /\ UNCHANGED <<sock, sent, got>>
    BY <1>5, <1>o, <2>1 DEF AsksAvailable
  <2>4. StreamsInv' /\ spoils
    BY <2>2, <2>3, FillsOnly, Zenon
  <2> QED BY <2>3, <2>4
<1>6. CASE AsksState
  <2>1. busy.client \in Clients /\ Has(busy.client) /\ UNCHANGED <<spoilt, sent, got>>
    BY <1>6, <1>o DEF AsksState
  <2>2. PICK c \in Clients : c = busy.client
    BY <2>1
  <2>3. UNCHANGED <<sock, buffer, module>> \/ Forgets(c)
    BY <1>6, <2>2, AsksStateIs
  <2>4. CASE UNCHANGED <<sock, buffer, module>>
    BY <1>e, <2>1, <2>4
  <2>5. CASE Forgets(c)
    <3>1. \A s \in Sockets : s # sock[c] => buffer'[s] = buffer[s] /\ module'[s] = module[s]
      BY <1>t, <2>5 DEF Forgets
    <3> QED BY <2>1, <2>5, <3>1, OneForgets DEF Forgets
  <2> QED BY <2>3, <2>4, <2>5
<1>7. ASSUME NEW s \in Sockets, PeerCloses(s) PROVE StreamsInv'
  <2>1. UNCHANGED <<sock, buffer, spoilt, sent, got>> /\ module' = [module EXCEPT ![s].open = FALSE]
    BY <1>7 DEF PeerCloses, clientVars
  <2>2. \A r \in Sockets : /\ module'[r].owner = module[r].owner
                           /\ module'[r].unread = module[r].unread
    BY <1>t, <2>1 DEF Module
  <2> QED BY <1>e, <2>1, <2>2
<1>8. UNCHANGED <<sent, got>>
  BY DEF Available, Stop, Connected, Write, AsksAvailable, AsksState, PeerCloses
<1>9. spoils
  <2>1. ASSUME \/ \E c \in Clients : Stop(c) \/ Connected(c) \/ Write(c)
               \/ AsksState
               \/ \E s \in Sockets : PeerCloses(s)
        PROVE  spoilt' = spoilt
    BY <2>1 DEF Stop, Connected, Write, AsksState, PeerCloses, clientVars
  <2>2. ASSUME AsksAvailable PROVE spoils
    <3>1. busy.client \in Clients
      BY <1>o, <2>2 DEF AsksAvailable
    <3> QED BY <2>2, <3>1 DEF AsksAvailable, Fill
  <2> QED BY <1>1, <2>1, <2>2
<1> QED BY <1>1, <1>2, <1>3, <1>4, <1>5, <1>6, <1>7, <1>8, <1>9

\* A client that reads is a client of ByteStreams that receives.
LEMMA ReadReceives ==
  ASSUME SockTypeOK, SockTypeOK', StreamsInv', NEW c \in Clients \ spoilt, sent' = sent,
         spoilt' = spoilt,
         NEW a \in Seq(Bytes), got'[c] = got[c] \o a, \A d \in Clients \ {c} : got'[d] = got[d]
  PROVE  Streams!Receive(c)
<1>t. /\ got \in [Clients -> Seq(Bytes)] /\ got' \in [Clients -> Seq(Bytes)]
      /\ buffer' \in [Sockets -> Seq(Bytes)] /\ sock' \in [Clients -> Sockets \cup {NoSocket}]
  BY DEF SockTypeOK
<1>1. PICK rest \in Seq(Bytes) : sent[c] = got'[c] \o (Held(c)' \o rest)
  BY DEF StreamsInv, Streamed
<1>2. Held(c)' \in Seq(Bytes)
  <2>1. <<>> \in Seq(Bytes)
    OBVIOUS
  <2> QED BY <1>t, <2>1 DEF Held, Has
<1>3. Held(c)' \o rest \in Seq(Bytes) /\ got'[c] \in Seq(Bytes) /\ got[c] \in Seq(Bytes)
  BY <1>t, <1>1, <1>2, ConcatProperties
<1> DEFINE n == Len(got'[c])
<1>4. SubSeq(sent[c], 1, n) = got'[c] /\ n <= Len(sent[c]) /\ sent[c] \in Seq(Bytes)
  <2> DEFINE now == got'[c]
             later == Held(c)' \o rest
  <2>1. now \in Seq(Bytes) /\ later \in Seq(Bytes) /\ sent[c] = now \o later
    BY <1>1, <1>3
  <2> HIDE DEF now, later
  <2>2. SubSeq(sent[c], 1, Len(now)) = now /\ Len(now) <= Len(sent[c]) /\ sent[c] \in Seq(Bytes)
    BY <2>1, BeginningOf
  <2> QED BY <2>2 DEF now
<1>5. Len(got[c]) <= n
  BY <1>3, BeginningOf
<1>6. n \in Len(got[c])..Len(sent[c])
  <2>1. n \in Nat /\ Len(got[c]) \in Nat /\ Len(sent[c]) \in Nat
    BY <1>3, <1>4, LenProperties
  <2> HIDE DEF n
  <2> QED BY <1>4, <1>5, <2>1
<1>7. got' = [got EXCEPT ![c] = SubSeq(sent[c], 1, n)]
  BY <1>t, <1>4
<1> QED BY <1>6, <1>7 DEF Streams!Receive

\* Every step of the sockets is one of ByteStreams, or none.
LEMMA StreamStep ==
  ASSUME Base, Base', OwnInv, StreamsInv, [SockNext]_sockVars
  PROVE  StreamsInv' /\ [Streams!StreamNext]_(Streams!streamVars)
<1>1. ASSUME UNCHANGED <<sent, got>>,
             spoilt' = spoilt \/ \E c \in Clients : spoilt' = spoilt \cup {c}
      PROVE  [Streams!StreamNext]_(Streams!streamVars)
  BY <1>1 DEF Streams!streamVars, Streams!StreamNext, Streams!Spoil
<1>2. ASSUME NEW c \in Clients, Read(c)
      PROVE  StreamsInv' /\ [Streams!StreamNext]_(Streams!streamVars)
  <2>0. sent' = sent /\ SockTypeOK /\ SockTypeOK'
    BY <1>2 DEF Read, Base
  <2>1. /\ StreamsInv'
        /\ \/ UNCHANGED got /\ (spoilt' = spoilt \/ spoilt' = spoilt \cup {c})
           \/ /\ c \notin spoilt /\ spoilt' = spoilt
              /\ \E a \in Seq(Bytes) : got'[c] = got[c] \o a
              /\ \A d \in Clients \ {c} : got'[d] = got[d]
    BY <1>2, ReadStreams
  <2>2. CASE /\ c \notin spoilt /\ spoilt' = spoilt
             /\ \E a \in Seq(Bytes) : got'[c] = got[c] \o a
             /\ \A d \in Clients \ {c} : got'[d] = got[d]
    <3>1. PICK a \in Seq(Bytes) : got'[c] = got[c] \o a
      BY <2>2
    <3>2. Streams!Receive(c)
      BY <2>0, <2>1, <2>2, <3>1, ReadReceives
    <3> QED BY <2>1, <3>2 DEF Streams!StreamNext
  <2> QED BY <1>1, <2>0, <2>1, <2>2
<1>3. ASSUME NEW c \in Clients, Connect(c)
      PROVE  StreamsInv' /\ [Streams!StreamNext]_(Streams!streamVars)
  <2>1. StreamsInv' /\ (UNCHANGED <<sent, got, spoilt>> \/ Streams!Open(c))
    BY <1>3, ConnectStreams
  <2> QED BY <1>1, <2>1 DEF Streams!StreamNext
<1>4. ASSUME NEW s \in Sockets, NEW b \in Bytes, PeerSends(s, b)
      PROVE  StreamsInv' /\ [Streams!StreamNext]_(Streams!streamVars)
  <2>1. StreamsInv' /\ UNCHANGED <<got, spoilt>>
    BY <1>4, SendStreams
  <2>2. PICK c \in Clients : sent' = [sent EXCEPT ![c] = Append(sent[c], b)]
    BY <1>4, SendStreams
  <2>3. Streams!Send(c)
    BY <2>1, <2>2 DEF Streams!Send
  <2> QED BY <2>1, <2>3 DEF Streams!StreamNext
<1>5. CASE UNCHANGED sockVars
  <2>1. StreamsInv'
    BY <1>5 DEF sockVars, StreamsInv, Streamed, Held, Owns, Has
  <2> QED BY <1>1, <1>5, <2>1 DEF sockVars
<1>6. ASSUME \/ \E c \in Clients : Available(c) \/ Stop(c) \/ Connected(c) \/ Write(c)
             \/ AsksAvailable \/ AsksState
             \/ \E s \in Sockets : PeerCloses(s)
      PROVE  StreamsInv' /\ [Streams!StreamNext]_(Streams!streamVars)
  BY <1>1, <1>6, QuietStreams
<1> QED BY <1>2, <1>3, <1>4, <1>5, <1>6 DEF SockNext

\* What every client reads is what its peer has sent on the connection, in order and
\* once, until another client has its socket or a reply with bytes is lost; and again
\* after the next connect() that gets a socket nobody keeps.
THEOREM RefinesStreams == SockSpec => ImplementsStreams
<1>1. SockInit => StreamsInv /\ Streams!StreamInit
  <2> SUFFICES ASSUME SockInit PROVE StreamsInv /\ Streams!StreamInit
    OBVIOUS
  <2>1. <<>> \in Seq(Bytes) /\ <<>> \o (<<>> \o <<>>) = <<>>
    OBVIOUS
  <2>2. ASSUME NEW c \in Clients PROVE Streamed(c)
    <3>1. ~ Has(c) /\ sent[c] = <<>> /\ got[c] = <<>>
      BY DEF SockInit, Has
    <3> QED BY <2>1, <3>1 DEF Streamed, Held, Owns
  <2> QED BY <2>2 DEF SockInit, StreamsInv, Streams!StreamInit
<1>2. /\ Base /\ Base' /\ OwnInv /\ StreamsInv /\ [SockNext]_sockVars
      => StreamsInv' /\ [Streams!StreamNext]_(Streams!streamVars)
  BY StreamStep
<1> QED BY <1>1, <1>2, Owners, PTL DEF SockSpec, ImplementsStreams, Streams!StreamSpec
=============================================================================
