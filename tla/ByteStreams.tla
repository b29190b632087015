---------------------------- MODULE ByteStreams ----------------------------
(***************************************************************************)
(* What a client expects of its connection: it reads the bytes the peer    *)
(* has sent on this connection, each once and in order.  A connection may  *)
(* be spoilt: then nothing is promised any more of what is read on it.     *)
(***************************************************************************)
EXTENDS Naturals, Sequences

CONSTANTS Clients, Bytes

VARIABLES
  sent,    \* what the peer has sent on the client's last connection
  got,     \* what the client has read of it before it was spoilt
  spoilt   \* the clients whose connection is spoilt

streamVars == <<sent, got, spoilt>>

StreamInit == /\ sent = [c \in Clients |-> <<>>]
              /\ got = [c \in Clients |-> <<>>]
              /\ spoilt = {}

\* A new connection is a good one, unless it spoils others with its own.
Open(c) == /\ sent' = [sent EXCEPT ![c] = <<>>]
           /\ got' = [got EXCEPT ![c] = <<>>]
           /\ \E others \in SUBSET (Clients \ {c}) :
                spoilt' = IF others = {} THEN spoilt \ {c} ELSE spoilt \cup others \cup {c}
Send(c) == /\ \E b \in Bytes : sent' = [sent EXCEPT ![c] = Append(@, b)]
           /\ UNCHANGED <<got, spoilt>>
Receive(c) == /\ c \notin spoilt
              /\ \E n \in Len(got[c])..Len(sent[c]) :
                   got' = [got EXCEPT ![c] = SubSeq(sent[c], 1, n)]
              /\ UNCHANGED <<sent, spoilt>>
Spoil(c) == spoilt' = spoilt \cup {c} /\ UNCHANGED <<sent, got>>

StreamNext == \E c \in Clients : Open(c) \/ Send(c) \/ Receive(c) \/ Spoil(c)

StreamSpec == StreamInit /\ [][StreamNext]_streamVars
=============================================================================
