--------------------------- MODULE IndoorMonitor ---------------------------
(***************************************************************************)
(* The device: setup() and loop() of the sketch, the callback that applies *)
(* settings, the connection to the broker and the two ways a sample takes  *)
(* to Telegraf (MQTT through the broker, or an HTTP POST).                 *)
(*                                                                         *)
(* A message is whole here: how its bytes are received is MqttReceiver.    *)
(* The connection has two ends, and the device may go on writing for a     *)
(* while to one the broker has closed.                                     *)
(***************************************************************************)
EXTENDS Integers, Sequences

CONSTANTS
  Readings,    \* what readCO() may return, in half units of MAX_GAS_VALUE
  Commands,    \* the settings the bot publishes: [max, min, p]
  Stalls,      \* a payload may pause for more than the second read() waits
  MaxCommands, MaxSamples, MaxBoots       \* bounds

ASSUME ReadingsAssumption == Readings \subseteq Nat
ASSUME CommandsAssumption == Commands \subseteq [max : Nat, min : Nat, p : BOOLEAN]
ASSUME BoundsAssumption   == /\ Stalls \in BOOLEAN
                             /\ MaxCommands \in Nat
                             /\ MaxSamples \in Nat
                             /\ MaxBoots \in Nat

VARIABLES
  \* the sketch
  dev,        \* where the only thread is
  msg,        \* the message onMqttMessage is reading, or NoMsg
  settings,   \* MAX_GAS_VALUE, MIN_GAS_VALUE, PROTOCOL, and the command they are from
  window,     \* measureWindow
  aqi,
  idx,
  sample,     \* the JSON document of this turn, from its building to its sending
  boot,       \* how often the device has been started
  \* the connection to the broker
  link,       \* mqttClient.connected(), the device's end
  peer,       \* the broker's end
  subscribed, \* the broker has the device's subscription to "set"
  granted,    \* the broker's SUBACK is on its way or there
  inbox,      \* settings on their way to the device
  issued,     \* commands the bot has published
  \* the way of the samples
  transit,    \* published by MQTT, not yet at Telegraf
  received    \* what Telegraf has taken

sketchVars == <<dev, msg, settings, window, aqi, idx, sample, boot>>
sessionVars == <<link, peer, subscribed, granted, inbox>>
pathVars == <<transit, received>>
vars == <<sketchVars, sessionVars, issued, pathVars>>

\* MAX_GAS_VALUE = 1, MIN_GAS_VALUE = 0.5, PROTOCOL = true.
Defaults == [ver |-> 0, max |-> 2, min |-> 1, p |-> TRUE]

NoMsg == [ver |-> 0, max |-> 0, min |-> 0, p |-> FALSE, whole |-> TRUE]

NoSample == [boot |-> 0, n |-> 0, q |-> 0, mqtt |-> TRUE]

Setting == [ver : Nat, max : Nat, min : Nat, p : BOOLEAN]
Message == [ver : Nat, max : Nat, min : Nat, p : BOOLEAN, whole : BOOLEAN]
Sample  == [boot : Nat, n : Nat, q : 0..2, mqtt : BOOLEAN]

Places == {"setup", "halted", "setup_subscribe", "check", "subscribe", "poll",
           "delay", "sense", "build", "send", "hung"}

TypeOK ==
  /\ dev \in Places
  /\ msg \in Message
  /\ settings \in Setting
  /\ window \in [1..5 -> Nat]
  /\ aqi \in 0..2
  /\ idx \in Nat
  /\ sample \in Sample
  /\ boot \in Nat
  /\ link \in BOOLEAN /\ peer \in BOOLEAN /\ subscribed \in BOOLEAN
  /\ granted \in BOOLEAN
  /\ inbox \in Seq(Message)
  /\ issued \in Nat
  /\ transit \in Seq(Sample) /\ received \in Seq(Sample)

\* The air quality index of a window: 0 is bad, 2 is good.  The average is
\* compared as a sum, so that nothing is rounded.
Sum(w) == w[1] + w[2] + w[3] + w[4] + w[5]

Index(w, s) ==
  IF Sum(w) >= 5 * s.max THEN 0
  ELSE IF Sum(w) >= 5 * s.min THEN 1 ELSE 2

Shift(w, co) == [i \in 1..5 |-> IF i = 5 THEN co ELSE w[i + 1]]

Running(place) == dev = place /\ msg = NoMsg
Subscribing    == dev \in {"setup_subscribe", "subscribe"}
-----------------------------------------------------------------------------
(* Connecting.                                                             *)

\* A connection is new at both ends, and a clean session has no subscription.
Connects ==
  /\ link' = TRUE /\ peer' = TRUE
  /\ subscribed' = FALSE /\ granted' = FALSE
  /\ inbox' = <<>>

\* The device closes its end, with what it has not read; connect() has done so
\* before it fails.
Closes ==
  /\ link' = FALSE /\ peer' = FALSE
  /\ subscribed' = FALSE /\ granted' = FALSE
  /\ inbox' = <<>>

\* setup() stops for good when there is no broker.
Setup ==
  /\ Running("setup")
  /\ \/ Connects /\ dev' = "setup_subscribe"
     \/ Closes /\ dev' = "halted"
  /\ UNCHANGED <<msg, settings, window, aqi, idx, sample, boot, issued, pathVars>>

\* The top of loop(): reconnect if need be, and go on whatever comes of it.
Check ==
  /\ Running("check")
  /\ \/ link /\ dev' = "poll" /\ UNCHANGED sessionVars
     \/ ~link /\ Connects /\ dev' = "subscribe"
     \/ ~link /\ Closes /\ dev' = "poll"
  /\ UNCHANGED <<msg, settings, window, aqi, idx, sample, boot, issued, pathVars>>

AfterSubscribe == IF dev = "setup_subscribe" THEN "check" ELSE "poll"

\* (Bug: subscribe() gives up and leaves the connection open.)
SubscribeGivesUp ==
  /\ Subscribing /\ msg = NoMsg
  /\ dev' = AfterSubscribe
  /\ UNCHANGED <<msg, settings, window, aqi, idx, sample, boot, sessionVars,
                 issued, pathVars>>

\* (Bug: the wait for the answer has no end.)
SubscribeWaits ==
  /\ Subscribing /\ msg = NoMsg
  /\ granted
  /\ dev' = AfterSubscribe
  /\ UNCHANGED <<msg, settings, window, aqi, idx, sample, boot, sessionVars,
                 issued, pathVars>>

\* subscribe() returns on the broker's answer, or closes the connection when
\* there is none; the sketch does not look at which it was.
SubscribeReturns ==
  /\ Subscribing /\ msg = NoMsg
  /\ \/ granted /\ UNCHANGED sessionVars
     \/ Closes
  /\ dev' = AfterSubscribe
  /\ UNCHANGED <<msg, settings, window, aqi, idx, sample, boot, issued, pathVars>>
-----------------------------------------------------------------------------
(* Receiving settings: poll() calls onMqttMessage, in loop() and while     *)
(* subscribe() waits.                                                      *)

\* Where poll() runs.  (Bug: also while a sample is taken.)
PollingAnywhere == dev \in {"poll", "delay", "sense", "build", "send"}
Polling         == dev = "poll" \/ Subscribing

StartCallback ==
  /\ Polling
  /\ msg = NoMsg
  /\ link
  /\ inbox # <<>>
  /\ msg' = Head(inbox)
  /\ inbox' = Tail(inbox)
  /\ UNCHANGED <<dev, settings, window, aqi, idx, sample, boot, link, peer,
                 subscribed, granted, issued, pathVars>>

\* (Bugs: a setting is left out; the message stays to be read again.)
ApplyWithoutMin ==
  /\ msg # NoMsg
  /\ msg.whole
  /\ settings' = [settings EXCEPT !.ver = msg.ver, !.max = msg.max, !.p = msg.p]
  /\ msg' = NoMsg
  /\ UNCHANGED <<dev, window, aqi, idx, sample, boot, sessionVars, issued, pathVars>>

ApplyAgain ==
  /\ msg # NoMsg
  /\ msg.whole
  /\ settings' = [ver |-> msg.ver, max |-> msg.max, min |-> msg.min, p |-> msg.p]
  /\ UNCHANGED <<dev, msg, window, aqi, idx, sample, boot, sessionVars, issued, pathVars>>

\* The message has been read and parsed: all four settings are assigned.
ApplySettings ==
  /\ msg # NoMsg
  /\ msg.whole
  /\ settings' = [ver |-> msg.ver, max |-> msg.max, min |-> msg.min, p |-> msg.p]
  /\ msg' = NoMsg
  /\ UNCHANGED <<dev, window, aqi, idx, sample, boot, sessionVars, issued, pathVars>>

\* What may be left of a number (in half units, of up to five digits before the
\* point) whose text ends early: of 15 it is 15, 1 or nothing, of 1.5 1.5, 1 or
\* nothing.
Cut(v) == {v, 0} \cup {2 * (v \div d) : d \in {2, 20, 200, 2000, 20000}}

\* read() gave up in the payload, and its -1 went into the text as one more
\* character.  In a key that value is missing, and reads as 0 or false; in a
\* number the parser stops, keeps the digits it has, and all after it is missing.
ApplyDamaged ==
  /\ Stalls
  /\ msg # NoMsg
  /\ msg.whole
  /\ \E max \in Cut(msg.max), min \in Cut(msg.min), p \in {FALSE, msg.p} :
       /\ max \notin {0, msg.max} => min = 0 /\ ~p
       /\ min \notin {0, msg.min} => ~p
       /\ settings' = [ver |-> msg.ver, max |-> max, min |-> min, p |-> p]
  /\ msg' = NoMsg
  /\ UNCHANGED <<dev, window, aqi, idx, sample, boot, sessionVars, issued, pathVars>>

\* The connection ended inside the payload: available() stays positive and
\* read() returns -1, for ever.  (Each -1 is also written to message[], beyond
\* its end after a while: what that destroys is not modelled.)
CallbackHangs ==
  /\ msg # NoMsg
  /\ ~msg.whole
  /\ dev # "hung"
  /\ dev' = "hung"
  /\ UNCHANGED <<msg, settings, window, aqi, idx, sample, boot, sessionVars,
                 issued, pathVars>>

PollReturns ==
  /\ Running("poll")
  /\ dev' = "delay"
  /\ UNCHANGED <<msg, settings, window, aqi, idx, sample, boot, sessionVars,
                 issued, pathVars>>
-----------------------------------------------------------------------------
(* One sample.                                                             *)

Delay ==
  /\ Running("delay")
  /\ dev' = "sense"
  /\ UNCHANGED <<msg, settings, window, aqi, idx, sample, boot, sessionVars,
                 issued, pathVars>>

Sense ==
  /\ Running("sense")
  /\ idx < MaxSamples
  /\ \E co \in Readings : window' = Shift(window, co)
  /\ aqi' = Index(window', settings)
  /\ dev' = "build"
  /\ UNCHANGED <<msg, settings, idx, sample, boot, sessionVars, issued, pathVars>>

\* (Bug: the index is not updated.)
BuildSameIndex ==
  /\ Running("build")
  /\ sample' = [boot |-> boot, n |-> idx, q |-> aqi, mqtt |-> settings.p]
  /\ dev' = "send"
  /\ UNCHANGED <<msg, settings, window, aqi, idx, boot, sessionVars, issued, pathVars>>

\* The document has this index; updateIndex() runs before the sending.
Build ==
  /\ Running("build")
  /\ sample' = [boot |-> boot, n |-> idx, q |-> aqi, mqtt |-> settings.p]
  /\ idx' = idx + 1
  /\ dev' = "send"
  /\ UNCHANGED <<msg, settings, window, aqi, boot, sessionVars, issued, pathVars>>

\* sendWithMQTT: no answer is awaited and no result is looked at.  A write to
\* a closed connection seems to succeed, or fails and closes the device's end.
SendWithMQTT ==
  /\ Running("send")
  /\ settings.p
  /\ \/ link /\ peer /\ transit' = Append(transit, sample) /\ UNCHANGED sessionVars
     \/ link /\ ~peer /\ UNCHANGED transit /\ (UNCHANGED sessionVars \/ Closes)
     \/ ~link /\ UNCHANGED <<transit, sessionVars>>
  /\ sample' = NoSample
  /\ dev' = "check"
  /\ UNCHANGED <<msg, settings, window, aqi, idx, boot, issued, received>>

\* sendWithHTTP: Telegraf has taken the sample when its answer is read, or the
\* request failed; the sketch does not look at which it was.
SendWithHTTP ==
  /\ Running("send")
  /\ ~settings.p
  /\ received' \in {received, Append(received, sample)}
  /\ sample' = NoSample
  /\ dev' = "check"
  /\ UNCHANGED <<msg, settings, window, aqi, idx, boot, sessionVars, issued, transit>>
-----------------------------------------------------------------------------
(* The rest of the system.                                                 *)

BrokerSubscribes ==
  /\ Subscribing
  /\ link /\ peer /\ ~granted
  /\ subscribed' = TRUE /\ granted' = TRUE
  /\ UNCHANGED <<sketchVars, link, peer, inbox, issued, pathVars>>

\* The bot publishes without retain, at QoS 0: with no subscriber it is lost.
BotPublishes(c) ==
  /\ issued < MaxCommands
  /\ issued' = issued + 1
  /\ inbox' = IF subscribed
              THEN Append(inbox, [ver |-> issued', max |-> c.max, min |-> c.min,
                                  p |-> c.p, whole |-> TRUE])
              ELSE inbox
  /\ UNCHANGED <<sketchVars, link, peer, subscribed, granted, pathVars>>

TelegrafConsumes ==
  /\ transit # <<>>
  /\ received' = Append(received, Head(transit))
  /\ transit' = Tail(transit)
  /\ UNCHANGED <<sketchVars, sessionVars, issued>>

\* What has arrived of q when the connection ends, the last message perhaps cut.
Arrived(q) ==
  LET kept == {SubSeq(q, 1, k) : k \in 0..Len(q)}
  IN  kept \cup {[s EXCEPT ![Len(s)].whole = FALSE] : s \in kept \ {<<>>}}

\* The broker's end goes: a failure of the network, of the broker, or its
\* keep-alive timeout.  The device can still read what has arrived.
PeerDrops ==
  /\ peer
  /\ peer' = FALSE
  /\ subscribed' = FALSE
  /\ inbox' \in Arrived(inbox)
  /\ granted' \in {FALSE, granted}
  /\ transit' \in {SubSeq(transit, 1, k) : k \in 0..Len(transit)}
  /\ UNCHANGED <<sketchVars, link, issued, received>>

\* connected() turns false once everything that arrived has been read.
DeviceNotices ==
  /\ link /\ ~peer
  /\ inbox = <<>>
  /\ link' = FALSE
  /\ UNCHANGED <<sketchVars, peer, subscribed, granted, inbox, issued, pathVars>>

\* Power fails and comes back, at any point.
Reboot ==
  /\ boot < MaxBoots
  /\ boot' = boot + 1
  /\ dev' = "setup"
  /\ msg' = NoMsg
  /\ settings' = Defaults
  /\ window' = [i \in 1..5 |-> 0]
  /\ aqi' = 0
  /\ idx' = 0
  /\ sample' = NoSample
  /\ Closes
  /\ UNCHANGED <<issued, pathVars>>
-----------------------------------------------------------------------------
Init ==
  /\ dev = "setup"
  /\ msg = NoMsg
  /\ settings = Defaults
  /\ window = [i \in 1..5 |-> 0]
  /\ aqi = 0
  /\ idx = 0
  /\ sample = NoSample
  /\ boot = 0
  /\ link = FALSE /\ peer = FALSE /\ subscribed = FALSE
  /\ granted = FALSE
  /\ inbox = <<>>
  /\ issued = 0
  /\ transit = <<>> /\ received = <<>>

Callback == ApplySettings \/ ApplyDamaged \/ CallbackHangs

Sketch == \/ Setup \/ Check \/ SubscribeReturns \/ PollReturns \/ Callback
          \/ Delay \/ Sense \/ Build \/ SendWithMQTT \/ SendWithHTTP

Next == \/ Sketch \/ StartCallback
        \/ BrokerSubscribes \/ TelegrafConsumes
        \/ PeerDrops \/ DeviceNotices \/ Reboot
        \/ \E c \in Commands : BotPublishes(c)

Spec == Init /\ [][Next]_vars

\* The only thread runs on.  Nothing is assumed of the broker or the network.
FairSpec == Spec /\ WF_vars(Sketch)
-----------------------------------------------------------------------------
\* The loop never runs on a live connection without a subscription to "set":
\* whatever way subscribe() returns, and whenever the broker's end went, settings
\* reach the device or its next turn connects again.
ConnectedIsSubscribed ==
  link /\ peer /\ ~Subscribing => subscribed

\* A sample is sent with the index of the window under the settings in force at
\* that moment, by the protocol in force: no settings are applied between
\* updateAQI() and the sending, though callbacks run inside the client.
SampleMatchesSettings ==
  Running("send") => /\ sample.q = Index(window, settings)
                     /\ sample.mqtt = settings.p
                     /\ sample.n + 1 = idx

\* What may be read of a value: a payload that stalls loses what follows, and
\* the end of a number.
ReadAs(value) == IF Stalls THEN Cut(value) ELSE {value}

\* Settings are read from one command (or are the defaults), never from two,
\* although callbacks run in the middle of subscribe().  Where a payload stalled
\* the parser may have kept a beginning of a number, a limit nobody sent: then
\* everything after it is missing, and a missing value is 0 and not that of an
\* earlier command.
SettingsOfOneCommand ==
  settings = Defaults \/
    \E c \in Commands :
       /\ settings.max \in ReadAs(c.max)
       /\ settings.min \in ReadAs(c.min)
       /\ settings.p \in (IF Stalls THEN {FALSE, c.p} ELSE {c.p})
       /\ settings.max \notin {0, c.max} => settings.min = 0 /\ ~settings.p
       /\ settings.min \notin {0, c.min} => ~settings.p

\* Later settings replace earlier ones and never the other way round, whatever
\* connections they came by.
SettingsInOrder ==
  /\ msg = NoMsg \/ msg.ver > settings.ver
  /\ \A i \in DOMAIN inbox : inbox[i].ver > settings.ver /\ inbox[i].ver > msg.ver
  /\ \A i, j \in DOMAIN inbox : i < j => inbox[i].ver < inbox[j].ver

Before(a, b) == a.boot < b.boot \/ (a.boot = b.boot /\ a.n < b.n)

\* Telegraf never gets a sample twice, and gets those that took the same way in
\* the order they were taken, over reconnections and restarts.
OncePerSample ==
  \A i, j \in DOMAIN received :
     i < j => /\ received[i] # received[j]
              /\ received[i].mqtt = received[j].mqtt => Before(received[i], received[j])

\* The device goes on sampling, with or without a broker, unless setup() found
\* none or a callback waits for bytes that will not come.
SamplingGoesOn == <>(idx = MaxSamples \/ dev \in {"hung", "halted"})
=============================================================================
