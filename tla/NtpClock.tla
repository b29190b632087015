------------------------------ MODULE NtpClock ------------------------------
(***************************************************************************)
(* The clock of the device (NTPClient.cpp) over the UDP socket of the      *)
(* radio module (WiFiNINA/src/WiFiUdp.cpp).  Time is counted in ticks of   *)
(* 10 ms, the pause between two looks for the answer; of the commands to   *)
(* the module only those that find the server take any.  The time server   *)
(* may answer at once, late or not at all, and a command may fail.         *)
(*                                                                         *)
(* An answer has two bytes here, the half before the time in it and the    *)
(* time, and the buffer of a socket holds a number of bytes of one answer  *)
(* or, when the reply to the command that fills it was lost, of no answer: *)
(* getDataBuf() then returns true, with the size of the buffer as the      *)
(* number of bytes, and the buffer counts as full of what was in it.       *)
(***************************************************************************)
EXTENDS Integers, Sequences

CONSTANTS
  Second,          \* ticks of a second (100)
  MillisWord,      \* ticks after which millis() starts over (2^32 ms)
  SecondsWord,     \* seconds after which an unsigned long starts over (2^32)
  SEVENZYYEARS,    \* seconds from 1900 to 1970
  updateInterval,  \* _updateInterval in ticks
  Boot,            \* seconds from 1970 to the start of the device
  CommandsFail,    \* a command to the module may fail
  BufferSize,      \* bytes of a socket's buffer, of which an answer has two (62.5)
  Stale,           \* seconds the bytes of no answer may be read as
  MaxTicks,        \* bound: ticks
  MaxFlying        \* bound: answers on their way

ASSUME ClockAssumption ==
  /\ Second \in Nat \ {0} /\ MillisWord \in Nat \ {0} /\ SecondsWord \in Nat \ {0}
  /\ SEVENZYYEARS \in Nat /\ updateInterval \in Nat /\ Boot \in Nat
  /\ CommandsFail \in BOOLEAN /\ BufferSize \in Nat \ {0} /\ Stale \subseteq Nat
  /\ MaxTicks \in Nat /\ MaxFlying \in Nat

VARIABLES
  now,      \* ticks since the start
  ntp,      \* the fields of NTPClient: [epoch, last, setup, standard], the last for
            \* _port = NTP_DEFAULT_LOCAL_PORT
  udp,      \* WiFiUDP and its socket's buffer: [sock, parsed, buffer, aimed], and
            \* history: a reply with bytes was lost on this socket (lost)
  inbox,    \* external: packets the module holds
  flying,   \* external: answers on their way
  waits,    \* where forceUpdate() is: [at, timeout]
  heard,    \* history: what the clock was set by, and the tick of the request
  asked     \* history: tick of the last request

ntpVars == <<now, ntp, udp, inbox, flying, waits, heard, asked>>
Network == <<inbox, flying>>

Millis == now % MillisWord
\* The seconds since 1970, as the time server has them.
TrueTime(t) == Boot + t \div Second
Fails == IF CommandsFail THEN BOOLEAN ELSE {FALSE}

(***************************************************************************)
(* WiFiUDP.                                                                *)
(***************************************************************************)
\* Bytes of one answer, or of none.
OfNoAnswer(sec) == [asked |-> -1, sec |-> sec]
FromServer(of) == of.asked # -1
NoBytes == [of |-> OfNoAnswer(0), left |-> 0]
Without1(b) == IF b.left <= 1 THEN NoBytes ELSE [b EXCEPT !.left = @ - 1]

\* begin() and beginMulticast(): an open socket is stopped, with its buffer; the module
\* may have none.
\* (stop() leaves _parsed as it is; without a socket it is counted down to no
\* effect here, where the code reads beyond its array of buffers.)
Opened(u, got) == [u EXCEPT !.sock = got, !.parsed = IF got THEN 0 ELSE @,
                            !.buffer = NoBytes, !.aimed = FALSE, !.lost = FALSE]

\* stop(): a socket goes with its buffer.
Closed(u) == [u EXCEPT !.sock = FALSE, !.buffer = IF u.sock THEN NoBytes ELSE @]

\* beginPacket() of a name: the name is looked up, a socket is made when there is none and
\* aimed at the server.
BeginPacket(u, unknown, none) ==
  LET sock == u.sock \/ (~ unknown /\ ~ none)
  IN [u EXCEPT !.sock = sock, !.aimed = sock /\ (@ \/ ~ unknown)]

\* write() and endPacket(): what is sent on a socket that is aimed.
EndPacket(u, lost) ==
  IF u.aimed /\ ~ lost /\ Len(flying) < MaxFlying
  THEN Append(flying, [asked |-> now, sec |-> -1]) ELSE flying

\* An empty buffer is filled with the next packet; with nothing; or its reply is lost,
\* after or before the module has let go of a packet.
LetGo(box) == IF box = <<>> THEN {box} ELSE {box, Tail(box)}
Fillings(s) ==
  IF s.buffer.left # 0 THEN {s}
  ELSE (IF s.inbox = <<>> THEN {s}
        ELSE {[buffer |-> [of |-> Head(s.inbox), left |-> 2], inbox |-> Tail(s.inbox),
               lost |-> s.lost]})
       \cup (IF ~ CommandsFail THEN {}
             ELSE {s} \cup {[buffer |-> [of |-> OfNoAnswer(sec), left |-> BufferSize],
                             inbox |-> box, lost |-> TRUE] :
                               sec \in Stale, box \in LetGo(s.inbox)})

\* A byte is taken out, for the most of two that _parsed counts.
Drop(s) == {[f EXCEPT !.buffer = Without1(@)] : f \in Fillings(s)}
Taken(s, n) ==
  IF n = 0 THEN {s} ELSE IF n = 1 THEN Drop(s) ELSE UNION {Drop(t) : t \in Drop(s)}

Socket(u, box) == [buffer |-> u.buffer, inbox |-> box, lost |-> u.lost]
With(u, s, parsed) == [u EXCEPT !.buffer = s.buffer, !.lost = s.lost, !.parsed = parsed]

\* parsePacket(): the rest of the last packet is thrown away, the module says how
\* long the next one is.
ParsePacket(u, box) ==
  UNION {{[udp |-> With(u, s, IF s.inbox = <<>> \/ failed THEN 0 ELSE 2),
           inbox |-> s.inbox] : failed \in Fails} : s \in Taken(Socket(u, box), u.parsed)}

\* read(buffer, 48) of a packet that has been announced: what the buffer has, at most
\* the bytes of an answer.
Fewer(n) == IF n < 2 THEN n ELSE 2
Reads(u, box) ==
  {[udp |-> With(u, [s EXCEPT !.buffer = Without1(Without1(@))], u.parsed - Fewer(s.buffer.left)),
    inbox |-> s.inbox, of |-> s.buffer.of, bytes |-> Fewer(s.buffer.left)] :
      s \in Fillings(Socket(u, box))}

(***************************************************************************)
(* NTPClient.                                                              *)
(***************************************************************************)
Since == (Millis - ntp.last) % MillisWord
getEpochTime == (ntp.epoch + Since \div Second) % SecondsWord
get_millis == Since

Begin ==
  /\ waits.at = "loop"
  /\ \E failed \in Fails : udp' = Opened(udp, ~ failed)
  /\ inbox' = <<>>
  /\ \E standard \in BOOLEAN : ntp' = [ntp EXCEPT !.setup = TRUE, !.standard = standard]
  /\ UNCHANGED <<now, flying, waits, heard, asked>>
End ==
  /\ waits.at = "loop" /\ ntp.setup
  /\ udp' = Closed(udp)
  /\ inbox' = <<>>
  /\ ntp' = [ntp EXCEPT !.setup = FALSE]
  /\ UNCHANGED <<now, flying, waits, heard, asked>>

\* update(): due, or never done.  A socket at another port than the usual one is opened
\* anew each time.
Due == Since >= updateInterval \/ ntp.last = 0
Update ==
  /\ waits.at = "loop" /\ Due
  /\ IF ntp.setup /\ ntp.standard THEN UNCHANGED <<udp, inbox>>
     ELSE inbox' = <<>> /\ \E failed \in Fails : udp' = Opened(udp, ~ failed)
  /\ ntp' = [ntp EXCEPT !.setup = TRUE]
  /\ waits' = [at |-> "flush", timeout |-> 0]
  /\ UNCHANGED <<now, flying, heard, asked>>

\* Existing packets are thrown away until none is announced.
Flush ==
  /\ waits.at = "flush"
  /\ \E p \in ParsePacket(udp, inbox) :
       /\ udp' = p.udp /\ inbox' = p.inbox
       /\ waits' = [waits EXCEPT !.at = IF p.udp.parsed = 0 THEN "send" ELSE "flush"]
  /\ UNCHANGED <<now, ntp, flying, heard, asked>>

\* sendNTPPacket(): no failure is looked at.  A socket that was aimed at the server still is.
SendNTPPacket ==
  /\ waits.at = "send"
  /\ \E unknown, none, lost \in Fails :
       /\ udp' = BeginPacket(udp, unknown, none)
       /\ flying' = EndPacket(udp', lost)
  /\ asked' = now
  /\ waits' = [waits EXCEPT !.at = "wait"]
  /\ UNCHANGED <<now, ntp, inbox, heard>>

\* 10 ms, a look for a packet, the limit, and then the answer.  A packet that is
\* found beyond the limit is left; what was not read of an answer is zero.  Where the
\* bytes come from is not looked at.
Tries == Second
\* (Bug: the time that was waited does not count.)
AtTheAnswer(t, timeout) == t % MillisWord
AtTheRequest(t, timeout) == (t - (timeout + 2)) % MillisWord
Epoch(secsSince1900) == (secsSince1900 - SEVENZYYEARS) % SecondsWord
SecsSince1900(r) == IF r.bytes = 2 THEN (r.of.sec + SEVENZYYEARS) % SecondsWord ELSE 0
\* The history: strange are bytes of no answer where no reply was lost.
Heard(r) ==
  IF r.bytes = 2 /\ FromServer(r.of)
  THEN [whole |-> TRUE, strange |-> FALSE, own |-> r.of.asked = asked, at |-> asked]
  ELSE [whole |-> FALSE, strange |-> r.bytes # 0 /\ ~ FromServer(r.of) /\ ~ r.udp.lost,
        own |-> FALSE, at |-> 0]
Wait ==
  /\ waits.at = "wait" /\ now < MaxTicks
  /\ now' = now + 1
  /\ \E p \in ParsePacket(udp, inbox) :
       \/ /\ waits.timeout > Tries
          /\ udp' = p.udp /\ inbox' = p.inbox
          /\ waits' = [waits EXCEPT !.at = "loop"]
          /\ UNCHANGED <<ntp, heard>>
       \/ /\ waits.timeout <= Tries /\ p.udp.parsed = 0
          /\ udp' = p.udp /\ inbox' = p.inbox
          /\ waits' = [waits EXCEPT !.timeout = @ + 1]
          /\ UNCHANGED <<ntp, heard>>
       \/ /\ waits.timeout <= Tries /\ p.udp.parsed # 0
          /\ \E r \in Reads(p.udp, p.inbox) :
               /\ udp' = r.udp /\ inbox' = r.inbox
               /\ ntp' = [ntp EXCEPT
                    !.last = AtTheRequest(now', waits.timeout),
                    !.epoch = Epoch(SecsSince1900(r))]
               /\ heard' = Heard(r)
          /\ waits' = [waits EXCEPT !.at = "loop"]
  /\ UNCHANGED <<flying, asked>>

(***************************************************************************)
(* Time and the network.                                                   *)
(***************************************************************************)
Tick == /\ waits.at \in {"loop", "send"} /\ now < MaxTicks
        /\ now' = now + 1
        /\ UNCHANGED <<ntp, udp, Network, waits, heard, asked>>

Without(i) == SubSeq(flying, 1, i - 1) \o SubSeq(flying, i + 1, Len(flying))
ServerStamps == \E i \in DOMAIN flying :
  /\ flying[i].sec = -1
  /\ flying' = [flying EXCEPT ![i].sec = TrueTime(now)]
  /\ UNCHANGED <<now, ntp, udp, inbox, waits, heard, asked>>
Arrives == \E i \in DOMAIN flying :
  /\ flying[i].sec # -1
  /\ flying' = Without(i)
  /\ inbox' = IF udp.sock THEN Append(inbox, flying[i]) ELSE inbox
  /\ UNCHANGED <<now, ntp, udp, waits, heard, asked>>
IsLost == \E i \in DOMAIN flying :
  /\ flying' = Without(i)
  /\ UNCHANGED <<now, ntp, udp, inbox, waits, heard, asked>>

NtpInit ==
  /\ now = 0
  /\ ntp = [epoch |-> 0, last |-> 0, setup |-> FALSE, standard |-> TRUE]
  /\ udp = [sock |-> FALSE, parsed |-> 0, buffer |-> NoBytes, aimed |-> FALSE, lost |-> FALSE]
  /\ inbox = <<>> /\ flying = <<>>
  /\ waits = [at |-> "loop", timeout |-> 0]
  /\ heard = [whole |-> FALSE, strange |-> FALSE, own |-> FALSE, at |-> 0]
  /\ asked = 0

NtpNext == Begin \/ End \/ Update \/ Flush \/ SendNTPPacket \/ Wait \/ Tick
           \/ ServerStamps \/ Arrives \/ IsLost

NtpSpec == NtpInit /\ [][NtpNext]_ntpVars

(***************************************************************************)
(* Properties.                                                             *)
(***************************************************************************)
\* The clock set by the bytes of a whole answer is one second behind the true time at
\* most and two before it, over the wait for the answer, the end of the word of
\* millis() and of that of the seconds since 1900, and however long updates have
\* failed since (less than 2^32 ms).  The answer to a request that was given up may
\* put it behind by its age, but never more ahead.  The clock set by bytes of no
\* answer may be anything, and update() reports a success all the same; that takes a
\* reply that was lost after the socket was opened.
ClockIsNear ==
  /\ heard.whole /\ now - heard.at < MillisWord - (Tries + 2)
       => \E d \in (IF heard.own THEN -1 ELSE -(now \div Second + 1))..2 :
            getEpochTime = (TrueTime(now) + d) % SecondsWord
  /\ ~ heard.strange

\* get_millis() returns "ms of this second" (NTPClient.h).
MillisOfSecond == heard.whole /\ waits.at = "loop" => get_millis < Second
=============================================================================
