------------------------- MODULE IndoorMonitor_proof -------------------------
(***************************************************************************)
(* Proofs about the sketch, for any readings, commands, restarts and       *)
(* failures of the connection.                                             *)
(***************************************************************************)
EXTENDS IndoorMonitor, TLAPS

\* The prefixes of a sequence.
LEMMA Prefix ==
  ASSUME NEW S, NEW q \in Seq(S), NEW k \in 0..Len(q)
  PROVE  /\ SubSeq(q, 1, k) \in Seq(S) /\ Len(SubSeq(q, 1, k)) = k
         /\ \A i \in 1..k : SubSeq(q, 1, k)[i] = q[i] /\ i \in 1..Len(q)
<1>1. k \in Nat /\ Len(q) \in Nat /\ k <= Len(q)
  OBVIOUS
<1>2. \A i \in 1..k : i \in 1..Len(q) /\ q[i] \in S
  BY <1>1
<1> QED BY <1>1, <1>2

\* A message and its cut form.
LEMMA CutMessage ==
  ASSUME NEW m \in Message
  PROVE  LET cut == [m EXCEPT !.whole = FALSE] IN
         cut \in Message /\ cut.ver = m.ver /\ cut.max = m.max /\ cut.min = m.min /\ cut.p = m.p
BY DEF Message

\* What has arrived of a queue is a prefix of it, the last element perhaps cut.
LEMMA ArrivedFacts ==
  ASSUME NEW q \in Seq(Message), NEW r \in Arrived(q)
  PROVE  /\ r \in Seq(Message) /\ Len(r) \in Nat /\ Len(r) <= Len(q)
         /\ \A i \in 1..Len(r) :
               /\ i \in 1..Len(q)
               /\ r[i].ver = q[i].ver /\ r[i].max = q[i].max
               /\ r[i].min = q[i].min /\ r[i].p = q[i].p
<1>1. CASE \E k \in 0..Len(q) : r = SubSeq(q, 1, k)
  BY <1>1, Prefix
<1>2. CASE \E k \in 0..Len(q) :
             /\ SubSeq(q, 1, k) # <<>>
             /\ r = [SubSeq(q, 1, k) EXCEPT ![Len(SubSeq(q, 1, k))].whole = FALSE]
  <2>1. PICK k \in 0..Len(q) :
             /\ SubSeq(q, 1, k) # <<>>
             /\ r = [SubSeq(q, 1, k) EXCEPT ![Len(SubSeq(q, 1, k))].whole = FALSE]
    BY <1>2
  <2> DEFINE s == SubSeq(q, 1, k)
  <2>2. /\ s \in Seq(Message) /\ Len(s) = k /\ s # <<>>
        /\ \A i \in 1..k : s[i] = q[i] /\ i \in 1..Len(q)
    BY <2>1, Prefix
  <2> HIDE DEF s
  <2>3. r = [s EXCEPT ![k] = [s[k] EXCEPT !.whole = FALSE]]
    BY <2>1, <2>2 DEF s
  <2>4. k \in 1..Len(s) /\ s[k] \in Message /\ k \in Nat
    BY <2>2
  <2> DEFINE m == [s[k] EXCEPT !.whole = FALSE]
  <2>5. /\ m \in Message
        /\ m.ver = s[k].ver /\ m.max = s[k].max /\ m.min = s[k].min /\ m.p = s[k].p
    BY <2>4, CutMessage
  <2> HIDE DEF m
  <2>6. r = [s EXCEPT ![k] = m]
    BY <2>3 DEF m
  <2>7. r \in Seq(Message) /\ Len(r) = k
    BY <2>2, <2>4, <2>5, <2>6
  <2>8. \A i \in 1..k : r[i] = IF i = k THEN m ELSE s[i]
    BY <2>2, <2>6
  <2> QED BY <2>2, <2>4, <2>5, <2>7, <2>8
<1> QED BY <1>1, <1>2 DEF Arrived

-----------------------------------------------------------------------------
(* Types.                                                                  *)

\* TypeOK in parts: the sketch, the session, and the path of the samples.
SketchTypes ==
  /\ dev \in Places /\ msg \in Message /\ settings \in Setting
  /\ window \in [1..5 -> Nat] /\ aqi \in 0..2 /\ idx \in Nat
  /\ sample \in Sample /\ boot \in Nat
SessionTypes ==
  /\ link \in BOOLEAN /\ peer \in BOOLEAN /\ subscribed \in BOOLEAN
  /\ granted \in BOOLEAN
  /\ inbox \in Seq(Message) /\ issued \in Nat
PathTypes == transit \in Seq(Sample) /\ received \in Seq(Sample)

\* The parts are TypeOK.
LEMMA TypeParts == TypeOK <=> SketchTypes /\ SessionTypes /\ PathTypes
BY Zenon DEF TypeOK, SketchTypes, SessionTypes, PathTypes

\* The constants of the sketch have their types.
LEMMA ConstantTypes ==
  /\ NoMsg \in Message /\ Defaults \in Setting
  /\ [i \in 1..5 |-> 0] \in [1..5 -> Nat]
  /\ NoSample \in Sample
BY DEF NoMsg, Message, Defaults, Setting, Sample, NoSample

\* What is left of a number is a number.
LEMMA CutIsNumber ==
  ASSUME NEW v \in Nat
  PROVE  Cut(v) \subseteq Nat /\ v \in Cut(v)
BY DEF Cut

\* A new connection and a closed one.
LEMMA ConnectTypes ==
  ASSUME Connects \/ Closes, issued \in Nat, issued' = issued
  PROVE  SessionTypes'
<1>1. inbox' = <<>>
  BY DEF Connects, Closes
<1>2. inbox' \in Seq(Message)
  BY <1>1
<1>3. link' \in BOOLEAN /\ peer' \in BOOLEAN /\ subscribed' \in BOOLEAN /\ granted' \in BOOLEAN
  BY Zenon DEF Connects, Closes
<1> QED BY <1>2, <1>3 DEF SessionTypes

\* The values of the index.
LEMMA IndexValues == 0 \in 0..2 /\ 1 \in 0..2 /\ 2 \in 0..2
OBVIOUS

\* The measuring.
LEMMA SenseTypes ==
  ASSUME NEW w \in [1..5 -> Nat], NEW co \in Readings, NEW s \in Setting
  PROVE  Shift(w, co) \in [1..5 -> Nat] /\ Index(w, s) \in 0..2
<1>1. co \in Nat
  BY ReadingsAssumption
<1>2. \A i \in 1..5 : i # 5 => i + 1 \in 1..5
  OBVIOUS
<1>3. Shift(w, co) \in [1..5 -> Nat]
  BY <1>1, <1>2 DEF Shift
<1>4. Index(w, s) \in 0..2
  BY Zenon, IndexValues DEF Index
<1> QED BY <1>3, <1>4

\* Every step keeps the types.
THEOREM TypeCorrect == Spec => []TypeOK
<1>1. Init => TypeOK
  <2> SUFFICES ASSUME Init PROVE SketchTypes /\ SessionTypes /\ PathTypes
    BY TypeParts
  <2>1. SketchTypes
    <3>1. /\ msg = NoMsg /\ settings = Defaults /\ window = [i \in 1..5 |-> 0]
          /\ sample = NoSample
          /\ dev = "setup" /\ aqi = 0 /\ idx = 0 /\ boot = 0
      BY DEF Init
    <3>2. dev \in Places /\ aqi \in 0..2 /\ idx \in Nat /\ boot \in Nat
      BY <3>1 DEF Places
    <3>3. /\ msg \in Message /\ settings \in Setting /\ window \in [1..5 -> Nat]
          /\ sample \in Sample
      BY <3>1, ConstantTypes, Zenon
    <3> QED BY <3>2, <3>3 DEF SketchTypes
  <2>2. SessionTypes /\ PathTypes
    <3>1. inbox = <<>> /\ transit = <<>> /\ received = <<>> /\ issued = 0
      BY DEF Init
    <3>2. /\ inbox \in Seq(Message) /\ transit \in Seq(Sample) /\ received \in Seq(Sample)
          /\ issued \in Nat
      BY <3>1
    <3>3. link \in BOOLEAN /\ peer \in BOOLEAN /\ subscribed \in BOOLEAN /\ granted \in BOOLEAN
      BY Zenon DEF Init
    <3> QED BY <3>2, <3>3 DEF SessionTypes, PathTypes
  <2> QED BY <2>1, <2>2
<1>2. TypeOK /\ [Next]_vars => TypeOK'
  <2> SUFFICES ASSUME TypeOK, [Next]_vars PROVE TypeOK'
    OBVIOUS
  <2>0. SketchTypes /\ SessionTypes /\ PathTypes
    BY TypeParts
  <2> SUFFICES SketchTypes' /\ SessionTypes' /\ PathTypes'
    BY Zenon DEF TypeOK, SketchTypes, SessionTypes, PathTypes
  <2> USE DEF sketchVars, sessionVars, pathVars
  <2>1. CASE Setup \/ Check \/ SubscribeReturns
    <3>1. PathTypes' /\ SketchTypes'
      BY <2>0, <2>1 DEF Setup, Check, SubscribeReturns, AfterSubscribe, PathTypes,
         SketchTypes, Places
    <3>2. issued \in Nat /\ issued' = issued
      BY <2>0, <2>1 DEF Setup, Check, SubscribeReturns, SessionTypes
    <3>3. SessionTypes'
      <4>1. Connects \/ Closes \/ UNCHANGED sessionVars
        BY <2>1 DEF Setup, Check, SubscribeReturns
      <4> QED BY <2>0, <3>2, <4>1, ConnectTypes DEF SessionTypes
    <3> QED BY <3>1, <3>3
  <2>2. CASE PollReturns \/ Delay \/ CallbackHangs
    BY <2>0, <2>2 DEF PollReturns, Delay, CallbackHangs, SketchTypes, SessionTypes,
       PathTypes, Places
  <2>3. CASE ApplySettings \/ ApplyDamaged
    <3>1. UNCHANGED <<dev, window, aqi, idx, sample, boot, sessionVars, issued, pathVars>>
      BY <2>3 DEF ApplySettings, ApplyDamaged
    <3>2. msg \in Message
      BY <2>0 DEF SketchTypes
    <3>3. msg' = NoMsg
      BY <2>3 DEF ApplySettings, ApplyDamaged
    <3>4. PICK max \in Cut(msg.max), min \in Cut(msg.min), p \in {FALSE, msg.p} :
            settings' = [ver |-> msg.ver, max |-> max, min |-> min, p |-> p]
      <4>1. msg.max \in Cut(msg.max) /\ msg.min \in Cut(msg.min)
        BY <3>2, CutIsNumber DEF Message
      <4>2. CASE ApplySettings
        BY <4>1, <4>2, Zenon DEF ApplySettings
      <4>3. CASE ApplyDamaged
        BY <4>3, Zenon DEF ApplyDamaged
      <4> QED BY <2>3, <4>2, <4>3
    <3>5. settings' \in Setting
      <4>1. msg.ver \in Nat /\ msg.max \in Nat /\ msg.min \in Nat /\ msg.p \in BOOLEAN
        BY <3>2 DEF Message
      <4>2. max \in Nat /\ min \in Nat
        BY <4>1, CutIsNumber
      <4>3. p \in BOOLEAN
        BY <4>1, Zenon
      <4> QED BY <3>4, <4>1, <4>2, <4>3 DEF Setting
    <3>6. SketchTypes'
      BY <2>0, <3>1, <3>3, <3>5, ConstantTypes DEF SketchTypes
    <3> QED BY <2>0, <3>1, <3>6 DEF SessionTypes, PathTypes
  <2>4. CASE Sense
    <3>1. PICK co \in Readings : window' = Shift(window, co)
      BY <2>4 DEF Sense
    <3>2. window' \in [1..5 -> Nat]
      BY <2>0, <3>1, SenseTypes DEF SketchTypes
    <3>3. aqi' = Index(window', settings)
      BY <2>4 DEF Sense
    <3>4. aqi' \in 0..2
      BY <2>0, <3>1, <3>2, <3>3, SenseTypes DEF SketchTypes
    <3> QED BY <2>0, <2>4, <3>2, <3>4 DEF Sense, SketchTypes, SessionTypes, PathTypes, Places
  <2>5. CASE Build
    <3>1. sample' = [boot |-> boot, n |-> idx, q |-> aqi, mqtt |-> settings.p]
      BY <2>5 DEF Build
    <3>2. sample' \in Sample
      BY <2>0, <3>1 DEF SketchTypes, Setting, Sample
    <3>3. SketchTypes'
      BY <2>0, <2>5, <3>2 DEF Build, SketchTypes, Places
    <3> QED BY <2>0, <2>5, <3>3 DEF Build, SessionTypes, PathTypes
  <2>6. CASE SendWithMQTT
    <3>1. SketchTypes' /\ issued \in Nat /\ issued' = issued
      BY <2>0, <2>6, ConstantTypes DEF SendWithMQTT, SketchTypes, SessionTypes, Places
    <3>2. SessionTypes'
      <4>1. Closes \/ UNCHANGED sessionVars
        BY <2>6 DEF SendWithMQTT
      <4> QED BY <2>0, <3>1, <4>1, ConnectTypes DEF SessionTypes
    <3>3. PathTypes'
      <4>1. transit' = transit \/ transit' = Append(transit, sample)
        BY <2>6 DEF SendWithMQTT
      <4>2. sample \in Sample /\ transit \in Seq(Sample) /\ received \in Seq(Sample)
        BY <2>0 DEF SketchTypes, PathTypes
      <4>3. received' = received
        BY <2>6 DEF SendWithMQTT
      <4> QED BY <4>1, <4>2, <4>3 DEF PathTypes
    <3> QED BY <3>1, <3>2, <3>3
  <2>7. CASE SendWithHTTP
    <3>1. SketchTypes' /\ SessionTypes'
      BY <2>0, <2>7, ConstantTypes DEF SendWithHTTP, SketchTypes, SessionTypes, Places
    <3>2. PathTypes'
      <4>1. transit' = transit /\ received' \in {received, Append(received, sample)}
        BY <2>7 DEF SendWithHTTP
      <4>2. sample \in Sample /\ transit \in Seq(Sample) /\ received \in Seq(Sample)
        BY <2>0 DEF SketchTypes, PathTypes
      <4> QED BY <4>1, <4>2 DEF PathTypes
    <3> QED BY <3>1, <3>2
  <2>8. CASE StartCallback
    <3>1. Head(inbox) \in Message /\ Tail(inbox) \in Seq(Message)
      BY <2>0, <2>8 DEF StartCallback, SessionTypes
    <3> QED BY <2>0, <2>8, <3>1 DEF StartCallback, SketchTypes, SessionTypes, PathTypes
  <2>9. CASE BrokerSubscribes \/ DeviceNotices
    BY <2>0, <2>9 DEF BrokerSubscribes, DeviceNotices, SketchTypes, SessionTypes, PathTypes
  <2>10. CASE TelegrafConsumes
    <3>1. PathTypes'
      BY <2>0, <2>10 DEF TelegrafConsumes, PathTypes
    <3> QED BY <2>0, <2>10, <3>1 DEF TelegrafConsumes, SketchTypes, SessionTypes
  <2>11. CASE PeerDrops
    <3>1. inbox' \in Seq(Message)
      BY <2>0, <2>11, ArrivedFacts DEF PeerDrops, SessionTypes
    <3>2. PathTypes'
      BY <2>0, <2>11, Prefix DEF PeerDrops, PathTypes
    <3>3. SessionTypes'
      BY <2>0, <2>11, <3>1 DEF PeerDrops, SessionTypes
    <3> QED BY <2>0, <2>11, <3>2, <3>3 DEF PeerDrops, SketchTypes
  <2>12. CASE Reboot
    <3>1. SketchTypes'
      BY <2>0, <2>12, ConstantTypes DEF Reboot, SketchTypes, Places
    <3>2. SessionTypes'
      BY <2>0, <2>12, ConnectTypes DEF Reboot, SessionTypes
    <3> QED BY <2>0, <2>12, <3>1, <3>2 DEF Reboot, PathTypes
  <2>13. CASE \E c \in Commands : BotPublishes(c)
    <3>1. PICK c \in Commands : BotPublishes(c)
      BY <2>13
    <3>2. c \in [max : Nat, min : Nat, p : BOOLEAN] /\ issued' \in Nat
      BY <2>0, <3>1, CommandsAssumption DEF BotPublishes, SessionTypes
    <3>3. [ver |-> issued', max |-> c.max, min |-> c.min, p |-> c.p, whole |-> TRUE] \in Message
      BY <3>2 DEF Message
    <3>4. inbox' \in Seq(Message)
      BY <2>0, <3>1, <3>3 DEF BotPublishes, SessionTypes
    <3> QED BY <2>0, <3>1, <3>2, <3>4 DEF BotPublishes, SketchTypes, SessionTypes, PathTypes
  <2>14. CASE UNCHANGED vars
    BY <2>0, <2>14 DEF vars, SketchTypes, SessionTypes, PathTypes
  <2> QED BY <2>1, <2>2, <2>3, <2>4, <2>5, <2>6, <2>7, <2>8, <2>9, <2>10, <2>11, <2>12,
             <2>13, <2>14 DEF Next, Sketch, Callback
<1> QED BY <1>1, <1>2, PTL DEF Spec

-----------------------------------------------------------------------------
(* The session.                                                            *)

\* The broker's end holds a subscription once it has granted it, and a message
\* is cut only when the broker's end is gone: so a callback that hangs in the
\* middle of subscribe() hangs on a dead connection.
SessionInv ==
  /\ ConnectedIsSubscribed
  /\ peer /\ granted => subscribed
  /\ peer => msg.whole /\ \A i \in 1..Len(inbox) : inbox[i].whole

\* Nobody is left on a live connection without the subscription: whichever way
\* subscribe() returns, the device is subscribed or has lost the connection.
THEOREM LiveMeansSubscribed == Spec => []ConnectedIsSubscribed
<1>1. Init => SessionInv
  BY DEF Init, SessionInv, ConnectedIsSubscribed
<1>2. TypeOK /\ SessionInv /\ [Next]_vars => SessionInv'
  <2> SUFFICES ASSUME TypeOK, SessionInv, [Next]_vars PROVE SessionInv'
    OBVIOUS
  <2>0. inbox \in Seq(Message)
    BY DEF TypeOK
  <2> USE DEF sketchVars, sessionVars, pathVars, SessionInv, ConnectedIsSubscribed, Subscribing
  <2>1. CASE Setup \/ Check
    BY <2>1 DEF Setup, Check, Running, Connects, Closes, NoMsg
  <2>2. CASE SubscribeReturns
    BY <2>2 DEF SubscribeReturns, Closes, AfterSubscribe, NoMsg
  <2>3. CASE PollReturns \/ Delay \/ Sense \/ Build \/ SendWithMQTT \/ SendWithHTTP
    BY <2>3 DEF PollReturns, Delay, Sense, Build, SendWithMQTT, SendWithHTTP, Running, Closes
  <2>4. CASE ApplySettings \/ ApplyDamaged
    BY <2>4 DEF ApplySettings, ApplyDamaged, NoMsg
  <2>5. CASE CallbackHangs
    BY <2>5 DEF CallbackHangs
  <2>6. CASE StartCallback
    <3>1. /\ msg' = inbox[1] /\ inbox' = Tail(inbox) /\ Len(inbox) >= 1
          /\ UNCHANGED <<dev, link, peer, subscribed, granted>>
      BY <2>0, <2>6 DEF StartCallback
    <3>2. \A i \in 1..Len(inbox') : i + 1 \in 1..Len(inbox) /\ inbox'[i] = inbox[i + 1]
      BY <2>0, <3>1
    <3>3. 1 \in 1..Len(inbox)
      BY <2>0, <3>1
    <3> QED BY <3>1, <3>2, <3>3
  <2>7. CASE BrokerSubscribes \/ DeviceNotices \/ TelegrafConsumes
    BY <2>7 DEF BrokerSubscribes, DeviceNotices, TelegrafConsumes
  <2>8. CASE PeerDrops
    BY <2>8 DEF PeerDrops
  <2>9. CASE Reboot
    BY <2>9 DEF Reboot, Closes
  <2>10. CASE \E c \in Commands : BotPublishes(c)
    <3>1. PICK c \in Commands : BotPublishes(c)
      BY <2>10
    <3>2. UNCHANGED <<dev, msg, link, peer, subscribed, granted>>
      BY <3>1 DEF BotPublishes
    <3> DEFINE m == [ver |-> issued', max |-> c.max, min |-> c.min, p |-> c.p, whole |-> TRUE]
    <3>3. m.whole
      OBVIOUS
    <3>4. inbox' = inbox \/ inbox' = Append(inbox, m)
      BY <3>1 DEF BotPublishes
    <3> HIDE DEF m
    <3>5. peer => \A i \in 1..Len(inbox') : inbox'[i].whole
      <4>1. CASE inbox' = inbox
        BY <4>1
      <4>2. CASE inbox' = Append(inbox, m)
        <5>1. \A i \in 1..Len(inbox') : inbox'[i] = m \/ (i \in 1..Len(inbox)
                                                          /\ inbox'[i] = inbox[i])
          BY <2>0, <4>2
        <5> QED BY <3>3, <5>1
      <4> QED BY <3>4, <4>1, <4>2
    <3> QED BY <3>2, <3>5
  <2>11. CASE UNCHANGED vars
    BY <2>11 DEF vars
  <2> QED BY <2>1, <2>2, <2>3, <2>4, <2>5, <2>6, <2>7, <2>8, <2>9, <2>10, <2>11
          DEF Next, Sketch, Callback
<1>3. SessionInv => ConnectedIsSubscribed
  BY DEF SessionInv
<1> QED BY <1>1, <1>2, <1>3, TypeCorrect, PTL DEF Spec

-----------------------------------------------------------------------------
(* The sample of a turn.                                                   *)

\* A callback runs only where poll() may, so that the index of the window and
\* the protocol stand from updateAQI() to the sending.
SampleInv ==
  /\ msg # NoMsg => Polling \/ dev = "hung"
  /\ dev = "build" => aqi = Index(window, settings)
  /\ dev = "send" => /\ sample.q = Index(window, settings)
                     /\ sample.mqtt = settings.p
                     /\ sample.n + 1 = idx /\ sample.boot = boot

\* Every step keeps the sample of the turn.
LEMMA SampleInvariant == Spec => []SampleInv
<1>1. Init => SampleInv
  BY DEF Init, SampleInv
<1>2. SampleInv /\ [Next]_vars => SampleInv'
  <2> SUFFICES ASSUME SampleInv, [Next]_vars PROVE SampleInv'
    OBVIOUS
  <2> USE DEF sketchVars, sessionVars, pathVars, SampleInv, Polling, Subscribing, Running
  <2>1. CASE Setup \/ Check \/ SubscribeReturns \/ PollReturns \/ Delay
    BY <2>1 DEF Setup, Check, SubscribeReturns, PollReturns, Delay, AfterSubscribe
  <2>2. CASE Sense
    BY <2>2 DEF Sense
  <2>3. CASE Build
    BY <2>3 DEF Build
  <2>4. CASE SendWithMQTT \/ SendWithHTTP \/ Reboot
    BY <2>4 DEF SendWithMQTT, SendWithHTTP, Reboot
  <2>5. CASE Callback
    BY <2>5 DEF Callback, ApplySettings, ApplyDamaged, CallbackHangs
  <2>6. CASE StartCallback
    BY <2>6 DEF StartCallback
  <2>7. CASE \/ BrokerSubscribes \/ TelegrafConsumes \/ PeerDrops \/ DeviceNotices
             \/ \E c \in Commands : BotPublishes(c)
    BY <2>7 DEF BrokerSubscribes, TelegrafConsumes, PeerDrops, DeviceNotices, BotPublishes
  <2>8. CASE UNCHANGED vars
    BY <2>8 DEF vars
  <2> QED BY <2>1, <2>2, <2>3, <2>4, <2>5, <2>6, <2>7, <2>8 DEF Next, Sketch
<1> QED BY <1>1, <1>2, PTL DEF Spec

\* What is sent is the index of the window under the settings in force, by the
\* protocol in force: no callback comes between the measuring and the sending.
THEOREM SampleIsCurrent == Spec => []SampleMatchesSettings
<1>1. SampleInv => SampleMatchesSettings
  BY DEF SampleInv, SampleMatchesSettings, Running
<1> QED BY <1>1, SampleInvariant, PTL

-----------------------------------------------------------------------------
(* The settings.                                                           *)

\* The queue of a step is a queue of messages.
LEMMA QueueTypes == TypeOK => inbox \in Seq(Message) /\ msg \in Message /\ settings \in Setting
                              /\ issued \in Nat
BY DEF TypeOK

\* The queue after its head is taken.
LEMMA Taken ==
  ASSUME NEW q \in Seq(Message), q # <<>>
  PROVE  /\ Head(q) = q[1] /\ 1 \in 1..Len(q) /\ Head(q) \in Message
         /\ \A i \in 1..Len(Tail(q)) : i + 1 \in 1..Len(q) /\ Tail(q)[i] = q[i + 1]
OBVIOUS

\* The queue after an element is added.
LEMMA Added ==
  ASSUME NEW S, NEW q \in Seq(S), NEW m \in S
  PROVE  /\ Append(q, m) \in Seq(S) /\ Len(Append(q, m)) = Len(q) + 1
         /\ \A i \in 1..Len(Append(q, m)) :
               \/ i = Len(q) + 1 /\ Append(q, m)[i] = m
               \/ i \in 1..Len(q) /\ Append(q, m)[i] = q[i]
OBVIOUS

\* Every message waiting is later than those before it and than the settings,
\* and none is later than the last command.
OrderInv ==
  /\ settings.ver <= issued /\ msg.ver <= issued
  /\ msg = NoMsg \/ msg.ver > settings.ver
  /\ \A i \in 1..Len(inbox) : /\ inbox[i].ver > settings.ver /\ inbox[i].ver > msg.ver
                              /\ inbox[i].ver <= issued
  /\ \A i, j \in 1..Len(inbox) : i < j => inbox[i].ver < inbox[j].ver

\* Later settings replace earlier ones, over all connections and restarts: a new
\* connection starts with nothing of the old one, and one callback at a time
\* takes the messages from the front.
THEOREM LaterSettingsReplace == Spec => []SettingsInOrder
<1>1. Init => OrderInv
  BY DEF Init, OrderInv, Defaults, NoMsg
<1>2. TypeOK /\ OrderInv /\ [Next]_vars => OrderInv'
  <2> SUFFICES ASSUME TypeOK, OrderInv, [Next]_vars PROVE OrderInv'
    OBVIOUS
  <2>0. /\ inbox \in Seq(Message) /\ issued \in Nat
        /\ settings.ver \in Nat /\ msg.ver \in Nat
        /\ \A i \in 1..Len(inbox) : inbox[i].ver \in Nat
    <3>1. inbox \in Seq(Message) /\ issued \in Nat
      BY QueueTypes
    <3>2. settings.ver \in Nat /\ msg.ver \in Nat
      BY QueueTypes DEF Message, Setting
    <3>3. \A m \in Message : m.ver \in Nat
      BY DEF Message
    <3>4. \A i \in 1..Len(inbox) : inbox[i] \in Message
      BY <3>1
    <3> QED BY <3>1, <3>2, <3>3, <3>4
  <2> USE DEF sketchVars, sessionVars, pathVars, OrderInv
  <2>1. CASE Setup \/ Check \/ SubscribeReturns \/ SendWithMQTT
    <3>1. UNCHANGED <<msg, settings, issued>> /\ (inbox' = inbox \/ inbox' = <<>>)
      BY <2>1 DEF Setup, Check, SubscribeReturns, SendWithMQTT, Connects, Closes
    <3> QED BY <2>0, <3>1
  <2>2. CASE \/ PollReturns \/ Delay \/ Sense \/ Build \/ SendWithHTTP \/ CallbackHangs
             \/ BrokerSubscribes \/ TelegrafConsumes \/ DeviceNotices
    <3>1. UNCHANGED <<msg, settings, issued, inbox>>
      BY <2>2 DEF PollReturns, Delay, Sense, Build, SendWithHTTP, CallbackHangs,
         BrokerSubscribes, TelegrafConsumes, DeviceNotices
    <3> QED BY <3>1
  <2>3. CASE ApplySettings \/ ApplyDamaged
    <3>1. /\ settings'.ver = msg.ver /\ msg' = NoMsg /\ msg # NoMsg
          /\ UNCHANGED <<inbox, issued>>
      BY <2>3 DEF ApplySettings, ApplyDamaged
    <3>2. msg'.ver = 0
      BY <3>1 DEF NoMsg
    <3> QED BY <2>0, <3>1, <3>2
  <2>4. CASE StartCallback
    <3>1. /\ msg' = Head(inbox) /\ inbox' = Tail(inbox) /\ inbox # <<>>
          /\ UNCHANGED <<settings, issued>>
      BY <2>4 DEF StartCallback
    <3>2. /\ msg' = inbox[1] /\ 1 \in 1..Len(inbox)
          /\ \A i \in 1..Len(inbox') : i + 1 \in 1..Len(inbox) /\ inbox'[i] = inbox[i + 1]
      BY <2>0, <3>1, Taken
    <3>3. msg'.ver <= issued' /\ msg'.ver > settings'.ver
      BY <3>1, <3>2
    <3>4. \A i \in 1..Len(inbox') :
             /\ inbox'[i].ver > settings'.ver /\ inbox'[i].ver <= issued'
             /\ inbox'[i].ver > msg'.ver
      <4> TAKE i \in 1..Len(inbox')
      <4>1. i + 1 \in 1..Len(inbox) /\ inbox'[i] = inbox[i + 1] /\ 1 < i + 1
        BY <3>2
      <4> QED BY <3>1, <3>2, <4>1
    <3>5. \A i, j \in 1..Len(inbox') : i < j => inbox'[i].ver < inbox'[j].ver
      <4> SUFFICES ASSUME NEW i \in 1..Len(inbox'), NEW j \in 1..Len(inbox'), i < j
                   PROVE  inbox'[i].ver < inbox'[j].ver
        OBVIOUS
      <4>1. i + 1 \in 1..Len(inbox) /\ j + 1 \in 1..Len(inbox) /\ i + 1 < j + 1
        BY <3>2
      <4> QED BY <3>2, <4>1
    <3>6. settings'.ver <= issued'
      BY <3>1
    <3> QED BY <3>3, <3>4, <3>5, <3>6
  <2>5. CASE PeerDrops
    <3>1. inbox' \in Arrived(inbox) /\ UNCHANGED <<msg, settings, issued>>
      BY <2>5 DEF PeerDrops
    <3>2. \A i \in 1..Len(inbox') : i \in 1..Len(inbox) /\ inbox'[i].ver = inbox[i].ver
      BY <2>0, <3>1, ArrivedFacts
    <3> QED BY <3>1, <3>2
  <2>6. CASE Reboot
    <3>1. inbox' = <<>> /\ msg'.ver = 0 /\ msg' = NoMsg /\ settings'.ver = 0 /\ issued' = issued
      BY <2>6 DEF Reboot, Closes, NoMsg, Defaults
    <3> QED BY <2>0, <3>1
  <2>7. CASE \E c \in Commands : BotPublishes(c)
    <3>1. PICK c \in Commands : BotPublishes(c)
      BY <2>7
    <3> DEFINE m == [ver |-> issued', max |-> c.max, min |-> c.min, p |-> c.p, whole |-> TRUE]
    <3>2. issued' = issued + 1 /\ UNCHANGED <<msg, settings>>
      BY <3>1 DEF BotPublishes
    <3>3. m \in Message /\ m.ver = issued + 1
      BY <2>0, <3>2, CommandsAssumption DEF Message
    <3>4. inbox' = inbox \/ inbox' = Append(inbox, m)
      BY <3>1 DEF BotPublishes
    <3> HIDE DEF m
    <3>5. CASE inbox' = inbox
      BY <2>0, <3>2, <3>5
    <3>6. CASE inbox' = Append(inbox, m)
      <4>1. \A i \in 1..Len(inbox') : \/ i = Len(inbox) + 1 /\ inbox'[i] = m
                                      \/ i \in 1..Len(inbox) /\ inbox'[i] = inbox[i]
        BY <2>0, <3>3, <3>6, Added
      <4>2. \A i \in 1..Len(inbox') : /\ inbox'[i].ver > settings.ver
                                      /\ inbox'[i].ver > msg.ver
                                      /\ inbox'[i].ver <= issued + 1
        <5> TAKE i \in 1..Len(inbox')
        <5>1. CASE inbox'[i] = m
          BY <2>0, <3>3, <5>1
        <5>2. CASE i \in 1..Len(inbox) /\ inbox'[i] = inbox[i]
          BY <2>0, <5>2
        <5> QED BY <4>1, <5>1, <5>2
      <4>3. \A i, j \in 1..Len(inbox') : i < j => inbox'[i].ver < inbox'[j].ver
        <5> SUFFICES ASSUME NEW i \in 1..Len(inbox'), NEW j \in 1..Len(inbox'), i < j
                     PROVE  inbox'[i].ver < inbox'[j].ver
          OBVIOUS
        <5>0. Len(inbox) \in Nat /\ Len(inbox') = Len(inbox) + 1
          BY <2>0, <3>3, <3>6, Added
        <5>1. i \in 1..Len(inbox) /\ inbox'[i] = inbox[i]
          BY <4>1, <5>0
        <5>2. inbox[i].ver \in Nat /\ inbox[i].ver <= issued
          BY <2>0, <5>1
        <5>3. CASE inbox'[j] = m
          BY <2>0, <3>3, <5>1, <5>2, <5>3
        <5>4. CASE j \in 1..Len(inbox) /\ inbox'[j] = inbox[j]
          BY <5>1, <5>4
        <5> QED BY <4>1, <5>3, <5>4
      <4>4. settings.ver <= issued + 1 /\ msg.ver <= issued + 1
        BY <2>0
      <4> QED BY <3>2, <4>2, <4>3, <4>4
    <3> QED BY <3>4, <3>5, <3>6
  <2>8. CASE UNCHANGED vars
    BY <2>8 DEF vars
  <2> QED BY <2>1, <2>2, <2>3, <2>4, <2>5, <2>6, <2>7, <2>8 DEF Next, Sketch, Callback
<1>3. TypeOK /\ OrderInv => SettingsInOrder
  <2>1. TypeOK => DOMAIN inbox = 1..Len(inbox)
    BY QueueTypes
  <2> QED BY <2>1 DEF OrderInv, SettingsInOrder
<1> QED BY <1>1, <1>2, <1>3, TypeCorrect, PTL DEF Spec

\* A value of the settings that came in one command.
OneCommand(s) ==
  \E c \in Commands : s.max = c.max /\ s.min = c.min /\ s.p = c.p

\* Everything on its way to the settings is of one command.
WholeInv ==
  /\ SettingsOfOneCommand
  /\ msg = NoMsg \/ OneCommand(msg)
  /\ \A i \in 1..Len(inbox) : OneCommand(inbox[i])

\* The settings are read from one command, each of them whole, missing or the
\* beginning of its number where a payload stalled: a callback inside subscribe()
\* leaves no mixture, and a cut message none at all.
THEOREM SettingsFromOneCommand == Spec => []SettingsOfOneCommand
<1>1. Init => WholeInv
  BY DEF Init, WholeInv, SettingsOfOneCommand, ReadAs
<1>2. TypeOK /\ WholeInv /\ [Next]_vars => WholeInv'
  <2> SUFFICES ASSUME TypeOK, WholeInv, [Next]_vars PROVE WholeInv'
    OBVIOUS
  <2>0. inbox \in Seq(Message) /\ issued \in Nat
    BY QueueTypes
  <2> USE DEF sketchVars, sessionVars, pathVars, WholeInv
  <2>s. settings' = settings => SettingsOfOneCommand'
    BY DEF SettingsOfOneCommand, ReadAs
  <2>1. CASE Setup \/ Check \/ SubscribeReturns \/ SendWithMQTT
    <3>1. UNCHANGED <<msg, settings>> /\ (inbox' = inbox \/ inbox' = <<>>)
      BY <2>1 DEF Setup, Check, SubscribeReturns, SendWithMQTT, Connects, Closes
    <3> QED BY <2>s, <3>1
  <2>2. CASE \/ PollReturns \/ Delay \/ Sense \/ Build \/ SendWithHTTP \/ CallbackHangs
             \/ BrokerSubscribes \/ TelegrafConsumes \/ DeviceNotices
    <3>1. UNCHANGED <<msg, settings, inbox>>
      BY <2>2 DEF PollReturns, Delay, Sense, Build, SendWithHTTP, CallbackHangs,
         BrokerSubscribes, TelegrafConsumes, DeviceNotices
    <3> QED BY <2>s, <3>1
  <2>3. CASE ApplySettings
    <3>1. /\ msg' = NoMsg /\ msg # NoMsg /\ inbox' = inbox
          /\ settings'.max = msg.max /\ settings'.min = msg.min /\ settings'.p = msg.p
      BY <2>3 DEF ApplySettings
    <3>2. PICK c \in Commands : msg.max = c.max /\ msg.min = c.min /\ msg.p = c.p
      BY <3>1 DEF OneCommand
    <3>3. c.max \in ReadAs(c.max) /\ c.min \in ReadAs(c.min)
      BY CommandsAssumption, CutIsNumber DEF ReadAs
    <3> QED BY <3>1, <3>2, <3>3 DEF SettingsOfOneCommand
  <2>4. CASE ApplyDamaged
    <3>1. PICK max \in Cut(msg.max), min \in Cut(msg.min), p \in {FALSE, msg.p} :
            /\ max \notin {0, msg.max} => min = 0 /\ ~p
            /\ min \notin {0, msg.min} => ~p
            /\ settings' = [ver |-> msg.ver, max |-> max, min |-> min, p |-> p]
      BY <2>4 DEF ApplyDamaged
    <3>2. Stalls /\ msg' = NoMsg /\ msg # NoMsg /\ inbox' = inbox
      BY <2>4 DEF ApplyDamaged
    <3>3. settings'.max = max /\ settings'.min = min /\ settings'.p = p
      BY <3>1
    <3>4. PICK c \in Commands : msg.max = c.max /\ msg.min = c.min /\ msg.p = c.p
      BY <3>2 DEF OneCommand
    <3> QED BY <3>1, <3>2, <3>3, <3>4 DEF SettingsOfOneCommand, ReadAs
  <2>5. CASE StartCallback
    <3>1. msg' = Head(inbox) /\ inbox' = Tail(inbox) /\ inbox # <<>> /\ settings' = settings
      BY <2>5 DEF StartCallback
    <3>2. /\ msg' = inbox[1] /\ 1 \in 1..Len(inbox)
          /\ \A i \in 1..Len(inbox') : i + 1 \in 1..Len(inbox) /\ inbox'[i] = inbox[i + 1]
      BY <2>0, <3>1, Taken
    <3> QED BY <2>s, <3>1, <3>2
  <2>6. CASE PeerDrops
    <3>1. inbox' \in Arrived(inbox) /\ UNCHANGED <<msg, settings>>
      BY <2>6 DEF PeerDrops
    <3>2. \A i \in 1..Len(inbox') :
             /\ i \in 1..Len(inbox) /\ inbox'[i].max = inbox[i].max
             /\ inbox'[i].min = inbox[i].min /\ inbox'[i].p = inbox[i].p
      BY <2>0, <3>1, ArrivedFacts
    <3> QED BY <2>s, <3>1, <3>2 DEF OneCommand
  <2>7. CASE Reboot
    BY <2>7 DEF Reboot, Closes, SettingsOfOneCommand, ReadAs
  <2>8. CASE \E c \in Commands : BotPublishes(c)
    <3>1. PICK c \in Commands : BotPublishes(c)
      BY <2>8
    <3> DEFINE m == [ver |-> issued', max |-> c.max, min |-> c.min, p |-> c.p, whole |-> TRUE]
    <3>2. m \in Message
      BY <2>0, <3>1, CommandsAssumption DEF Message, BotPublishes
    <3>3. OneCommand(m)
      BY DEF OneCommand
    <3>4. inbox' = inbox \/ inbox' = Append(inbox, m)
      BY <3>1 DEF BotPublishes
    <3>5. UNCHANGED <<msg, settings>>
      BY <3>1 DEF BotPublishes
    <3> HIDE DEF m
    <3>6. \A i \in 1..Len(inbox') : OneCommand(inbox'[i])
      <4>1. CASE inbox' = inbox
        BY <4>1
      <4>2. CASE inbox' = Append(inbox, m)
        BY <2>0, <3>2, <3>3, <4>2, Added
      <4> QED BY <3>4, <4>1, <4>2
    <3> QED BY <2>s, <3>5, <3>6
  <2>9. CASE UNCHANGED vars
    BY <2>s, <2>9 DEF vars
  <2> QED BY <2>1, <2>2, <2>3, <2>4, <2>5, <2>6, <2>7, <2>8, <2>9 DEF Next, Sketch, Callback
<1>3. WholeInv => SettingsOfOneCommand
  BY DEF WholeInv
<1> QED BY <1>1, <1>2, <1>3, TypeCorrect, PTL DEF Spec

-----------------------------------------------------------------------------
(* The way of the samples.                                                 *)

\* A sample taken in an earlier life of the device, or in this one with an
\* index below n.
Earlier(s, b, n) == s.boot < b \/ (s.boot = b /\ s.n < n)

\* The first index that no sample on its way has: that of the document while it
\* is to be sent, then the next.
Unsent == IF dev = "send" THEN sample.n ELSE idx

\* What Telegraf has taken by MQTT is before what is still at the broker, in
\* the order of taking, and all of it is before what is still to be sent.
PathInv ==
  /\ \A i \in 1..Len(transit) : transit[i].mqtt /\ Earlier(transit[i], boot, Unsent)
  /\ \A i \in 1..Len(received) : Earlier(received[i], boot, Unsent)
  /\ \A i, j \in 1..Len(transit) : i < j => Before(transit[i], transit[j])
  /\ \A i, j \in 1..Len(received) :
        i < j /\ received[i].mqtt = received[j].mqtt => Before(received[i], received[j])
  /\ \A i \in 1..Len(received), j \in 1..Len(transit) :
        received[i].mqtt => Before(received[i], transit[j])

\* The first unsent index only grows, or the device starts anew.
LEMMA UnsentGrows ==
  ASSUME TypeOK, SampleInv, [Next]_vars
  PROVE  /\ boot \in Nat /\ boot' \in Nat /\ Unsent \in Nat /\ Unsent' \in Nat
         /\ boot' > boot \/ (boot' = boot /\ Unsent' >= Unsent)
<1>1. boot \in Nat /\ idx \in Nat /\ sample.n \in Nat
  BY DEF TypeOK, Sample
<1>2. dev = "send" => sample.n + 1 = idx
  BY DEF SampleInv
<1> USE DEF sketchVars, sessionVars, pathVars, Unsent
<1>3. CASE Build
  <2>1. sample' = [boot |-> boot, n |-> idx, q |-> aqi, mqtt |-> settings.p]
    BY <1>3 DEF Build
  <2>2. sample'.n = idx /\ dev' = "send" /\ dev = "build" /\ boot' = boot
    BY <1>3, <2>1 DEF Build, Running
  <2> QED BY <1>1, <2>2
<1>4. CASE Reboot
  BY <1>1, <1>4 DEF Reboot
<1>5. CASE SendWithMQTT \/ SendWithHTTP
  <2>1. dev = "send" /\ dev' = "check" /\ idx' = idx /\ boot' = boot
    BY <1>5 DEF SendWithMQTT, SendWithHTTP, Running
  <2> QED BY <1>1, <1>2, <2>1
<1>6. CASE Setup \/ Check \/ SubscribeReturns \/ PollReturns \/ Delay \/ Sense
  <2>1. dev # "send" /\ dev' # "send" /\ idx' = idx /\ boot' = boot
    BY <1>6 DEF Setup, Check, SubscribeReturns, PollReturns, Delay, Sense, Running,
       Subscribing, AfterSubscribe
  <2> QED BY <1>1, <2>1
<1>7. CASE CallbackHangs
  <2>1. dev' = "hung" /\ idx' = idx /\ boot' = boot
    BY <1>7 DEF CallbackHangs
  <2> QED BY <1>1, <1>2, <2>1
<1>8. CASE \/ ApplySettings \/ ApplyDamaged \/ StartCallback \/ BrokerSubscribes
           \/ TelegrafConsumes \/ PeerDrops \/ DeviceNotices
           \/ (\E c \in Commands : BotPublishes(c)) \/ UNCHANGED vars
  <2>1. UNCHANGED <<dev, sample, idx, boot>>
    BY <1>8 DEF ApplySettings, ApplyDamaged, StartCallback, BrokerSubscribes, vars,
       TelegrafConsumes, PeerDrops, DeviceNotices, BotPublishes
  <2> QED BY <1>1, <2>1
<1> QED BY <1>3, <1>4, <1>5, <1>6, <1>7, <1>8 DEF Next, Sketch, Callback

\* What was earlier stays earlier.
LEMMA EarlierKept ==
  ASSUME NEW s \in Sample, NEW b \in Nat, NEW c \in Nat, NEW n \in Nat, NEW m \in Nat,
         Earlier(s, b, n), c > b \/ (c = b /\ m >= n)
  PROVE  Earlier(s, c, m)
BY DEF Earlier, Sample

\* A sample is not before itself.
LEMMA BeforeItself == \A s \in Sample : ~Before(s, s)
BY DEF Before, Sample

\* A sample is on its way once, and by each way in the order of taking, however
\* often the broker, the link and the device fail.
LEMMA PathInvariant == Spec => []PathInv
<1>1. Init => PathInv
  BY DEF Init, PathInv
<1>2. TypeOK /\ SampleInv /\ PathInv /\ [Next]_vars => PathInv'
  <2> SUFFICES ASSUME TypeOK, SampleInv, PathInv, [Next]_vars PROVE PathInv'
    OBVIOUS
  <2>0. transit \in Seq(Sample) /\ received \in Seq(Sample) /\ sample \in Sample
    BY DEF TypeOK
  <2>g. /\ boot \in Nat /\ boot' \in Nat /\ Unsent \in Nat /\ Unsent' \in Nat
        /\ boot' > boot \/ (boot' = boot /\ Unsent' >= Unsent)
    BY UnsentGrows
  <2>k. \A s \in Sample : Earlier(s, boot, Unsent) => Earlier(s, boot', Unsent')
    BY <2>g, EarlierKept
  <2>t. \A i \in 1..Len(transit) : transit[i] \in Sample /\ transit[i].mqtt
                                   /\ Earlier(transit[i], boot', Unsent')
    BY <2>0, <2>k DEF PathInv
  <2>r. \A i \in 1..Len(received) : received[i] \in Sample
                                    /\ Earlier(received[i], boot', Unsent')
    BY <2>0, <2>k DEF PathInv
  <2> DEFINE Sending == dev = "send" /\ dev' = "check" /\ boot' = boot /\ idx' = idx
  <2>s. ASSUME Sending
        PROVE  /\ Earlier(sample, boot', Unsent')
               /\ \A s \in Sample : Earlier(s, boot, Unsent) => Before(s, sample)
    <3>1. /\ sample.boot = boot /\ sample.n + 1 = idx /\ Unsent = sample.n /\ Unsent' = idx
      BY <2>s DEF SampleInv, Unsent
    <3>2. sample.n \in Nat
      BY <2>0 DEF Sample
    <3> QED BY <2>s, <3>1, <3>2 DEF Earlier, Before
  <2>1. CASE UNCHANGED pathVars
    BY <2>1, <2>t, <2>r DEF PathInv, pathVars
  <2>2. CASE SendWithMQTT /\ transit' = Append(transit, sample)
    <3>1. Sending /\ received' = received /\ settings.p
      BY <2>2 DEF SendWithMQTT, Running
    <3>2. sample.mqtt /\ Earlier(sample, boot', Unsent')
      BY <2>s, <3>1 DEF SampleInv
    <3>3. /\ \A i \in 1..Len(transit) : Before(transit[i], sample)
          /\ \A i \in 1..Len(received) : Before(received[i], sample)
      BY <2>s, <2>0, <3>1 DEF PathInv
    <3>4. /\ Len(transit') = Len(transit) + 1 /\ Len(transit) \in Nat
          /\ \A i \in 1..Len(transit') : \/ i = Len(transit) + 1 /\ transit'[i] = sample
                                         \/ i \in 1..Len(transit) /\ transit'[i] = transit[i]
      BY <2>0, <2>2, Added
    <3>5. \A i \in 1..Len(transit') : transit'[i].mqtt /\ Earlier(transit'[i], boot', Unsent')
      BY <2>t, <3>2, <3>4
    <3>6. \A i, j \in 1..Len(transit') : i < j => Before(transit'[i], transit'[j])
      <4> SUFFICES ASSUME NEW i \in 1..Len(transit'), NEW j \in 1..Len(transit'), i < j
                   PROVE  Before(transit'[i], transit'[j])
        OBVIOUS
      <4>1. i \in 1..Len(transit) /\ transit'[i] = transit[i]
        BY <3>4
      <4>2. CASE transit'[j] = sample
        BY <3>3, <4>1, <4>2
      <4>3. CASE j \in 1..Len(transit) /\ transit'[j] = transit[j]
        BY <4>1, <4>3 DEF PathInv
      <4> QED BY <3>4, <4>2, <4>3
    <3>7. \A i \in 1..Len(received'), j \in 1..Len(transit') :
             received'[i].mqtt => Before(received'[i], transit'[j])
      <4> SUFFICES ASSUME NEW i \in 1..Len(received), NEW j \in 1..Len(transit'),
                          received[i].mqtt
                   PROVE  Before(received[i], transit'[j])
        BY <3>1
      <4>1. CASE transit'[j] = sample
        BY <3>3, <4>1
      <4>2. CASE j \in 1..Len(transit) /\ transit'[j] = transit[j]
        BY <4>2 DEF PathInv
      <4> QED BY <3>4, <4>1, <4>2
    <3>8. /\ \A i \in 1..Len(received') : Earlier(received'[i], boot', Unsent')
          /\ \A i, j \in 1..Len(received') :
                i < j /\ received'[i].mqtt = received'[j].mqtt
                  => Before(received'[i], received'[j])
      BY <2>r, <3>1 DEF PathInv
    <3> HIDE DEF Sending
    <3> QED BY <3>5, <3>6, <3>7, <3>8 DEF PathInv
  <2>3. CASE SendWithHTTP /\ received' = Append(received, sample)
    <3>1. Sending /\ transit' = transit /\ ~settings.p
      BY <2>3 DEF SendWithHTTP, Running
    <3>2. ~sample.mqtt /\ Earlier(sample, boot', Unsent')
      BY <2>s, <3>1 DEF SampleInv
    <3>3. \A i \in 1..Len(received) : Before(received[i], sample)
      BY <2>s, <2>0, <3>1 DEF PathInv
    <3>4. /\ Len(received') = Len(received) + 1 /\ Len(received) \in Nat
          /\ \A i \in 1..Len(received') : \/ i = Len(received) + 1 /\ received'[i] = sample
                                          \/ i \in 1..Len(received) /\ received'[i] = received[i]
      BY <2>0, <2>3, Added
    <3>5. \A i \in 1..Len(received') : Earlier(received'[i], boot', Unsent')
      BY <2>r, <3>2, <3>4
    <3>6. \A i, j \in 1..Len(received') :
             i < j /\ received'[i].mqtt = received'[j].mqtt
               => Before(received'[i], received'[j])
      <4> SUFFICES ASSUME NEW i \in 1..Len(received'), NEW j \in 1..Len(received'), i < j,
                          received'[i].mqtt = received'[j].mqtt
                   PROVE  Before(received'[i], received'[j])
        OBVIOUS
      <4>1. i \in 1..Len(received) /\ received'[i] = received[i]
        BY <3>4
      <4>2. CASE received'[j] = sample
        BY <3>3, <4>1, <4>2
      <4>3. CASE j \in 1..Len(received) /\ received'[j] = received[j]
        BY <4>1, <4>3 DEF PathInv
      <4> QED BY <3>4, <4>2, <4>3
    <3>7. \A i \in 1..Len(received'), j \in 1..Len(transit') :
             received'[i].mqtt => Before(received'[i], transit'[j])
      <4> SUFFICES ASSUME NEW i \in 1..Len(received'), NEW j \in 1..Len(transit),
                          received'[i].mqtt
                   PROVE  Before(received'[i], transit[j])
        BY <3>1
      <4>1. i \in 1..Len(received) /\ received'[i] = received[i]
        BY <3>2, <3>4
      <4> QED BY <4>1 DEF PathInv
    <3>8. /\ \A i \in 1..Len(transit') : transit'[i].mqtt
                                         /\ Earlier(transit'[i], boot', Unsent')
          /\ \A i, j \in 1..Len(transit') : i < j => Before(transit'[i], transit'[j])
      BY <2>t, <3>1 DEF PathInv
    <3> HIDE DEF Sending
    <3> QED BY <3>5, <3>6, <3>7, <3>8 DEF PathInv
  <2>4. CASE TelegrafConsumes
    <3> DEFINE h == Head(transit)
    <3>1. /\ received' = Append(received, h) /\ transit' = Tail(transit) /\ transit # <<>>
      BY <2>4 DEF TelegrafConsumes
    <3>2. /\ 1 \in 1..Len(transit) /\ h = transit[1] /\ Len(transit) \in Nat
          /\ \A i \in 1..Len(transit') : i + 1 \in 1..Len(transit) /\ transit'[i] = transit[i + 1]
      BY <2>0, <3>1
    <3>3. h \in Sample /\ h.mqtt /\ Earlier(h, boot', Unsent')
      BY <2>t, <3>2
    <3>4. \A i \in 1..Len(received) : received[i].mqtt => Before(received[i], h)
      BY <3>2 DEF PathInv
    <3>5. \A i \in 1..Len(transit') : Before(h, transit'[i])
      <4> TAKE i \in 1..Len(transit')
      <4>1. i + 1 \in 1..Len(transit) /\ transit'[i] = transit[i + 1] /\ 1 < i + 1
        BY <3>2
      <4> QED BY <3>2, <4>1 DEF PathInv
    <3> HIDE DEF h
    <3>6. /\ Len(received') = Len(received) + 1 /\ Len(received) \in Nat
          /\ \A i \in 1..Len(received') : \/ i = Len(received) + 1 /\ received'[i] = h
                                          \/ i \in 1..Len(received) /\ received'[i] = received[i]
      BY <2>0, <3>1, <3>3, Added
    <3>7. \A i \in 1..Len(received') : Earlier(received'[i], boot', Unsent')
      BY <2>r, <3>3, <3>6
    <3>8. \A i \in 1..Len(transit') : transit'[i].mqtt /\ Earlier(transit'[i], boot', Unsent')
      BY <2>t, <3>2
    <3>9. \A i, j \in 1..Len(transit') : i < j => Before(transit'[i], transit'[j])
      <4> SUFFICES ASSUME NEW i \in 1..Len(transit'), NEW j \in 1..Len(transit'), i < j
                   PROVE  Before(transit'[i], transit'[j])
        OBVIOUS
      <4>1. i + 1 \in 1..Len(transit) /\ j + 1 \in 1..Len(transit) /\ i + 1 < j + 1
        BY <3>2
      <4> QED BY <3>2, <4>1 DEF PathInv
    <3>10. \A i, j \in 1..Len(received') :
              i < j /\ received'[i].mqtt = received'[j].mqtt
                => Before(received'[i], received'[j])
      <4> SUFFICES ASSUME NEW i \in 1..Len(received'), NEW j \in 1..Len(received'), i < j,
                          received'[i].mqtt = received'[j].mqtt
                   PROVE  Before(received'[i], received'[j])
        OBVIOUS
      <4>1. i \in 1..Len(received) /\ received'[i] = received[i]
        BY <3>6
      <4>2. CASE received'[j] = h
        BY <3>3, <3>4, <4>1, <4>2
      <4>3. CASE j \in 1..Len(received) /\ received'[j] = received[j]
        BY <4>1, <4>3 DEF PathInv
      <4> QED BY <3>6, <4>2, <4>3
    <3>11. \A i \in 1..Len(received'), j \in 1..Len(transit') :
              received'[i].mqtt => Before(received'[i], transit'[j])
      <4> SUFFICES ASSUME NEW i \in 1..Len(received'), NEW j \in 1..Len(transit'),
                          received'[i].mqtt
                   PROVE  Before(received'[i], transit'[j])
        OBVIOUS
      <4>1. CASE received'[i] = h
        BY <3>5, <4>1
      <4>2. CASE i \in 1..Len(received) /\ received'[i] = received[i]
        BY <3>2, <4>2 DEF PathInv
      <4> QED BY <3>6, <4>1, <4>2
    <3> QED BY <3>7, <3>8, <3>9, <3>10, <3>11 DEF PathInv
  <2>5. CASE PeerDrops
    <3>1. received' = received /\ \E k \in 0..Len(transit) : transit' = SubSeq(transit, 1, k)
      BY <2>5 DEF PeerDrops
    <3>2. \A i \in 1..Len(transit') : i \in 1..Len(transit) /\ transit'[i] = transit[i]
      BY <2>0, <3>1, Prefix
    <3> QED BY <2>t, <2>r, <3>1, <3>2 DEF PathInv
  <2>6. \/ UNCHANGED pathVars \/ SendWithMQTT \/ SendWithHTTP
        \/ TelegrafConsumes \/ PeerDrops
    BY DEF Next, Sketch, Callback, Setup, Check, SubscribeReturns, PollReturns, ApplySettings,
       ApplyDamaged, CallbackHangs, Delay, Sense, Build, StartCallback, BrokerSubscribes,
       DeviceNotices, Reboot, BotPublishes, vars
  <2>7. SendWithMQTT => transit' = Append(transit, sample) \/ UNCHANGED pathVars
    BY DEF SendWithMQTT, pathVars
  <2>8. SendWithHTTP => received' = Append(received, sample) \/ UNCHANGED pathVars
    BY DEF SendWithHTTP, pathVars
  <2> QED BY <2>1, <2>2, <2>3, <2>4, <2>5, <2>6, <2>7, <2>8
<1> QED BY <1>1, <1>2, TypeCorrect, SampleInvariant, PTL DEF Spec

\* Telegraf never takes a sample twice, and takes those of one way in the order
\* they were taken, over reconnections and restarts.
THEOREM TakenOnceInOrder == Spec => []OncePerSample
<1>1. TypeOK /\ PathInv => OncePerSample
  <2> SUFFICES ASSUME TypeOK, PathInv, NEW i \in DOMAIN received, NEW j \in DOMAIN received,
                      i < j
               PROVE  /\ received[i] # received[j]
                      /\ received[i].mqtt = received[j].mqtt => Before(received[i], received[j])
    BY DEF OncePerSample
  <2>1. received \in Seq(Sample)
    BY DEF TypeOK
  <2>2. i \in 1..Len(received) /\ j \in 1..Len(received) /\ received[i] \in Sample
    BY <2>1
  <2>3. received[i].mqtt = received[j].mqtt => Before(received[i], received[j])
    BY <2>2 DEF PathInv
  <2>4. received[i] # received[j]
    BY <2>2, <2>3, BeforeItself
  <2> QED BY <2>3, <2>4
<1> QED BY <1>1, TypeCorrect, PathInvariant, PTL
=============================================================================
