----------------------------- MODULE Host_proof -----------------------------
(***************************************************************************)
(* Proofs about the two programs of the host.  About the processor: its    *)
(* type invariant, that forecasts are made from the line in hand, that     *)
(* lines pass once and in order, and that no loss goes unnoticed, for any  *)
(* number of lines, crashes and restarts.  About the bot: that what it     *)
(* publishes is complete and numeric for any number of chats, and what the *)
(* chat was told for one.                                                  *)
(***************************************************************************)
EXTENDS DataForecasting, ConversationBot, TLAPS

-----------------------------------------------------------------------------
(* The processor.                                                          *)

\* The loop visits the fields in the order of the list, and then ends.
LEMMA FollowingValues ==
  /\ Following("hum") = "temp"
  /\ Following("temp") = "conc"
  /\ Following("conc") = "emit"
  /\ FIELDS_TO_FORECAST[1] = "hum"
<1> DEFINE F == FIELDS_TO_FORECAST
<1>1. /\ DOMAIN F = 1..3 /\ Len(F) = 3
      /\ F[1] = "hum" /\ F[2] = "temp" /\ F[3] = "conc"
  BY DEF FIELDS_TO_FORECAST
<1> HIDE DEF F
<1>2. /\ Following("hum")  = CHOOSE y \in Fields \cup {"emit"} : y = "temp"
      /\ Following("temp") = CHOOSE y \in Fields \cup {"emit"} : y = "conc"
      /\ Following("conc") = CHOOSE y \in Fields \cup {"emit"} : y = "emit"
  BY <1>1 DEF Following, F, Fields
<1>3. FIELDS_TO_FORECAST[1] = "hum"
  BY <1>1 DEF F
<1> QED BY <1>2, <1>3 DEF Fields

\* A queue with a new element has its old ones in their places.
LEMMA AppendElements ==
  ASSUME NEW S, NEW s \in Seq(S), NEW e \in S
  PROVE  \A i \in DOMAIN Append(s, e) :
           \/ i \in DOMAIN s /\ Append(s, e)[i] = s[i]
           \/ i = Len(s) + 1 /\ Append(s, e)[i] = e
OBVIOUS

\* What is left of a queue keeps its order.
LEMMA TailElements ==
  ASSUME NEW S, NEW s \in Seq(S), s # <<>>
  PROVE  \A i \in DOMAIN Tail(s) :
           i \in Nat \ {0} /\ i + 1 \in DOMAIN s /\ Tail(s)[i] = s[i + 1]
OBVIOUS

-----------------------------------------------------------------------------
\* Every value has its type.
THEOREM TypeCorrect == Spec => []TypeOK
<1>1. Init => TypeOK
  BY DEF Init, TypeOK, Line, NoLine, NoValue, Fields
<1>2. TypeOK /\ [Next]_vars => TypeOK'
  <2> SUFFICES ASSUME TypeOK, [Next]_vars PROVE TypeOK'
    OBVIOUS
  <2> USE DEF deviceVars, storeVars, countVars, fcVars
  <2>1. CASE Sends
    <3>1. PICK lost \in 0..1, has \in {Fields, {"conc"}} :
            /\ pipe' = IF pc = "dead" THEN pipe
                       ELSE Append(pipe, [id |-> lines + 1, n |-> next + lost, has |-> has])
            /\ next' = next + lost + 1
      BY <2>1 DEF Sends
    <3>2. [id |-> lines + 1, n |-> next + lost, has |-> has] \in Line
      BY DEF TypeOK, Line
    <3>3. pipe' \in Seq(Line) /\ next' \in Nat
      BY <3>1, <3>2 DEF TypeOK
    <3> QED BY <2>1, <3>3 DEF Sends, TypeOK
  <2>2. CASE DeviceRestarts
    BY <2>2 DEF DeviceRestarts, TypeOK
  <2>3. CASE Flush
    BY <2>3 DEF Flush, TypeOK
  <2>4. CASE \E x \in Fields : Expires(x)
    BY <2>4 DEF Expires, TypeOK
  <2>5. CASE ReadLine
    BY <2>5 DEF ReadLine, TypeOK
  <2>6. CASE AskTime
    BY <2>6 DEF AskTime, TypeOK
  <2>7. CASE AddDelayAnalysis
    BY <2>7 DEF AddDelayAnalysis, Lost, TypeOK, Line
  <2>8. CASE PrintLine
    <3>1. FIELDS_TO_FORECAST[1] \in Fields
      BY DEF FIELDS_TO_FORECAST, Fields
    <3> QED BY <2>8, <3>1 DEF PrintLine, TypeOK, Line
  <2>9. CASE ForecastField
    <3>1. Following(pc) \in Fields \cup {"emit"}
      BY <2>9, FollowingValues DEF ForecastField, Fields
    <3>2. /\ [id |-> line.id, rows |-> rows[pc]] \in [id : Nat, rows : Nat]
          /\ rows[pc] \in Nat /\ pc \in Fields
      BY <2>9 DEF ForecastField, TypeOK, Line
    <3>3. /\ forecastDict' \in [Fields -> [id : Nat, rows : Nat]]
          /\ time' \in Nat /\ forecasted' \in BOOLEAN
      BY <2>9, <3>2 DEF ForecastField, TypeOK
    <3> QED BY <2>9, <3>1, <3>3 DEF ForecastField, TypeOK
  <2>10. CASE Emit
    BY <2>10 DEF Emit, TypeOK
  <2>11. CASE Crash
    BY <2>11 DEF Crash, TypeOK
  <2>12. CASE Restart
    BY <2>12 DEF Restart, TypeOK, NoValue
  <2>13. CASE UNCHANGED vars
    BY <2>13 DEF vars, TypeOK
  <2> QED
    BY <2>1, <2>2, <2>3, <2>4, <2>5, <2>6, <2>7, <2>8, <2>9, <2>10, <2>11, <2>12,
       <2>13 DEF Next, Process
<1> QED BY <1>1, <1>2, PTL DEF Spec

-----------------------------------------------------------------------------
(* The invariant of a line's way through the process.                      *)

\* The fields the loop has been over when the process is at a place.
Visited(place) ==
  IF place = "temp" THEN {"hum"}
  ELSE IF place = "conc" THEN {"hum", "temp"}
  ELSE IF place = "emit" THEN Fields ELSE {}

AtWork == {"time", "count", "print", "emit"} \cup Fields

\* What is still in the pipe is newer than the line in hand, in order.
Ahead ==
  /\ line.id <= lines
  /\ \A i \in DOMAIN pipe : line.id < pipe[i].id /\ pipe[i].id <= lines
  /\ \A i, j \in DOMAIN pipe : i < j => pipe[i].id < pipe[j].id
  /\ pc \in AtWork => line.id > 0

\* The fields visited were forecast for the line in hand or forecasted is FALSE;
\* the values of the others are older.
ForecastsHold ==
  /\ \A x \in Fields : /\ forecastDict[x].id <= line.id
                       /\ forecastDict[x].id = 0 \/ forecastDict[x].rows >= MIN_ROWS
  /\ pc \in AtWork => \A x \in Fields \ Visited(pc) : forecastDict[x].id < line.id
  /\ pc \in AtWork \ {"time"} =>
       (forecasted <=> \A x \in Visited(pc) : forecastDict[x].id = line.id)
  /\ ForecastIsFresh

\* The line in hand has been passed on, once, when it is behind PrintLine.
Passed ==
  /\ \A i, j \in DOMAIN passed : i < j => passed[i] < passed[j]
  /\ \A i \in DOMAIN passed : passed[i] <= line.id
  /\ pc \in {"time", "count", "print"} => \A i \in DOMAIN passed : passed[i] < line.id

LineInv == TypeOK /\ Ahead /\ ForecastsHold /\ Passed

\* The four parts hold together, whatever is sent, flushed, lost or restarted.
THEOREM LineInvariant == Spec => []LineInv
<1>1. Init => LineInv
  BY DEF Init, LineInv, TypeOK, Ahead, ForecastsHold, Passed, ForecastIsFresh, AtWork, Line, NoLine,
     NoValue, Fields, Visited
<1>2. LineInv /\ TypeOK' /\ [Next]_vars => Ahead'
  <2> SUFFICES ASSUME LineInv, TypeOK', [Next]_vars PROVE Ahead'
    OBVIOUS
  <2> USE DEF deviceVars, storeVars, countVars, fcVars
  <2>1. CASE Sends
    <3>1. PICK new \in Line : /\ new.id = lines + 1
                              /\ pipe' \in {pipe, Append(pipe, new)}
      <4>1. PICK lost \in 0..1, has \in {Fields, {"conc"}} :
              pipe' = IF pc = "dead" THEN pipe
                      ELSE Append(pipe, [id |-> lines + 1, n |-> next + lost, has |-> has])
        BY <2>1 DEF Sends
      <4>2. [id |-> lines + 1, n |-> next + lost, has |-> has] \in Line
        <5>1. lines + 1 \in Nat /\ next + lost \in Nat
          BY DEF LineInv, TypeOK
        <5> QED BY <5>1 DEF Line
      <4> QED BY <4>1, <4>2
    <3>2. pipe \in Seq(Line) /\ lines \in Nat /\ line \in Line
      BY DEF LineInv, TypeOK
    <3>3. lines' = lines + 1 /\ UNCHANGED <<line, pc>>
      BY <2>1 DEF Sends
    <3>4. \A i \in DOMAIN pipe' : \/ i \in DOMAIN pipe /\ pipe'[i] = pipe[i]
                                  \/ i = Len(pipe) + 1 /\ pipe'[i].id = lines + 1
      <4>1. CASE pipe' = pipe
        BY <4>1
      <4>2. CASE pipe' = Append(pipe, new)
        BY <3>1, <3>2, <4>2, AppendElements
      <4> QED BY <3>1, <4>1, <4>2
    <3>5. \A i \in DOMAIN pipe : pipe[i] \in Line /\ i \in 1..Len(pipe)
      BY <3>2
    <3>6. /\ line'.id <= lines'
          /\ \A i \in DOMAIN pipe' : line'.id < pipe'[i].id /\ pipe'[i].id <= lines'
          /\ pc' \in AtWork => line'.id > 0
      BY <3>2, <3>3, <3>4, <3>5 DEF LineInv, Ahead, Line
    <3>7. \A i, j \in DOMAIN pipe' : i < j => pipe'[i].id < pipe'[j].id
      <4> SUFFICES ASSUME NEW i \in DOMAIN pipe', NEW j \in DOMAIN pipe', i < j
                   PROVE  pipe'[i].id < pipe'[j].id
        OBVIOUS
      <4>1. i \in Nat /\ j \in Nat /\ i <= Len(pipe) + 1 /\ j <= Len(pipe) + 1
        BY <3>1, <3>2
      <4>2. i \in DOMAIN pipe /\ pipe'[i] = pipe[i]
        BY <4>1, <3>2, <3>4
      <4>3. CASE j \in DOMAIN pipe /\ pipe'[j] = pipe[j]
        BY <4>2, <4>3 DEF LineInv, Ahead
      <4>4. CASE pipe'[j].id = lines + 1
        <5>1. pipe[i].id \in Nat /\ pipe[i].id <= lines
          BY <4>2, <3>5 DEF LineInv, Ahead, Line
        <5> QED BY <5>1, <4>2, <4>4, <3>2
      <4> QED BY <3>4, <4>3, <4>4
    <3> QED BY <3>6, <3>7 DEF Ahead
  <2>2. CASE DeviceRestarts
    BY <2>2 DEF DeviceRestarts, LineInv, TypeOK, Ahead, AtWork, Line, Fields
  <2>3. CASE Flush
    BY <2>3 DEF Flush, LineInv, TypeOK, Ahead, AtWork, Line, Fields
  <2>4. CASE \E x \in Fields : Expires(x)
    BY <2>4 DEF Expires, LineInv, TypeOK, Ahead, AtWork, Line, Fields
  <2>5. CASE ReadLine
    <3>1. /\ pipe # <<>> /\ pipe \in Seq(Line) /\ line' = pipe[1]
          /\ Len(pipe) \in Nat \ {0} /\ 1 \in DOMAIN pipe /\ pipe[1] \in Line
      BY <2>5 DEF ReadLine, LineInv, TypeOK
    <3>2. \A i \in DOMAIN pipe' : i \in Nat \ {0} /\ i + 1 \in DOMAIN pipe /\ pipe'[i] = pipe[i + 1]
      BY <2>5, <3>1, TailElements DEF ReadLine
    <3>3. \A i \in DOMAIN pipe : pipe[i].id \in Nat
      <4>1. \A i \in DOMAIN pipe : pipe[i] \in Line
        BY <3>1
      <4> QED BY <4>1 DEF Line
    <3>4. UNCHANGED lines /\ lines \in Nat /\ line.id \in Nat
      BY <2>5 DEF ReadLine, LineInv, TypeOK, Line
    <3>5. line'.id <= lines' /\ line'.id > 0
      BY <3>1, <3>3, <3>4 DEF LineInv, Ahead
    <3>6. \A i \in DOMAIN pipe' : line'.id < pipe'[i].id /\ pipe'[i].id <= lines'
      BY <3>1, <3>2, <3>4 DEF LineInv, Ahead
    <3>7. \A i, j \in DOMAIN pipe' : i < j => pipe'[i].id < pipe'[j].id
      BY <3>2 DEF LineInv, Ahead
    <3> QED BY <3>5, <3>6, <3>7 DEF Ahead
  <2>6. CASE AskTime
    BY <2>6 DEF AskTime, LineInv, TypeOK, Ahead, AtWork, Line, Fields
  <2>7. CASE AddDelayAnalysis
    BY <2>7 DEF AddDelayAnalysis, LineInv, TypeOK, Ahead, AtWork, Line, Fields
  <2>8. CASE PrintLine
    BY <2>8 DEF PrintLine, LineInv, TypeOK, Ahead, AtWork, Line, Fields
  <2>9. CASE ForecastField
    BY <2>9 DEF ForecastField, LineInv, TypeOK, Ahead, AtWork, Line, Fields
  <2>10. CASE Emit
    BY <2>10 DEF Emit, LineInv, TypeOK, Ahead, AtWork, Line, Fields
  <2>11. CASE Crash
    BY <2>11 DEF Crash, LineInv, TypeOK, Ahead, AtWork, Line, Fields
  <2>12. CASE Restart
    BY <2>12 DEF Restart, LineInv, TypeOK, Ahead, AtWork, Line, Fields
  <2>13. CASE UNCHANGED vars
    BY <2>13 DEF vars, LineInv, TypeOK, Ahead, AtWork, Line, Fields
  <2> QED
    BY <2>1, <2>2, <2>3, <2>4, <2>5, <2>6, <2>7,
       <2>8, <2>9, <2>10, <2>11, <2>12, <2>13 DEF Next, Process
<1>3. LineInv /\ TypeOK' /\ [Next]_vars => ForecastsHold'
  <2> SUFFICES ASSUME LineInv, TypeOK', [Next]_vars PROVE ForecastsHold'
    OBVIOUS
  <2> USE DEF deviceVars, storeVars, countVars, fcVars
  <2>1. CASE Sends
    BY <2>1 DEF Sends, LineInv, TypeOK, Ahead, ForecastsHold, ForecastIsFresh, AtWork, Line, Fields, Visited
  <2>2. CASE DeviceRestarts
    BY <2>2 DEF DeviceRestarts, LineInv, TypeOK, Ahead, ForecastsHold, ForecastIsFresh, AtWork, Line, Fields, Visited
  <2>3. CASE Flush
    BY <2>3 DEF Flush, LineInv, TypeOK, Ahead, ForecastsHold, ForecastIsFresh, AtWork, Line, Fields, Visited
  <2>4. CASE \E x \in Fields : Expires(x)
    BY <2>4 DEF Expires, LineInv, TypeOK, Ahead, ForecastsHold, ForecastIsFresh, AtWork, Line, Fields, Visited
  <2>5. CASE ReadLine
    <3>1. line' = pipe[1] /\ 1 \in DOMAIN pipe /\ pipe[1] \in Line /\ line \in Line
      BY <2>5 DEF ReadLine, LineInv, TypeOK
    <3>2. line.id < line'.id /\ line.id \in Nat /\ line'.id \in Nat
      BY <3>1 DEF LineInv, Ahead, Line
    <3>3. \A x \in Fields : forecastDict[x].id \in Nat
      BY DEF LineInv, TypeOK
    <3> QED BY <2>5, <3>2, <3>3 DEF ReadLine, LineInv, ForecastsHold, ForecastIsFresh, AtWork, Fields
  <2>6. CASE AskTime
    BY <2>6 DEF AskTime, LineInv, TypeOK, Ahead, ForecastsHold, ForecastIsFresh, AtWork, Line, Fields, Visited
  <2>7. CASE AddDelayAnalysis
    BY <2>7 DEF AddDelayAnalysis, LineInv, TypeOK, Ahead, ForecastsHold, ForecastIsFresh, AtWork, Line, Fields, Visited
  <2>8. CASE PrintLine
    BY <2>8, FollowingValues
    DEF PrintLine, LineInv, ForecastsHold, ForecastIsFresh, AtWork, Fields, Visited
  <2>9. CASE ForecastField
    <3>1. /\ line.id \in Nat /\ line.id > 0 /\ UNCHANGED <<line, forecasts>>
          /\ forecastDict \in [Fields -> [id : Nat, rows : Nat]]
          /\ rows \in [Fields -> Nat] /\ pc \in Fields /\ pc' = Following(pc)
      BY <2>9 DEF ForecastField, LineInv, TypeOK, Line, Ahead, AtWork
    <3>2. /\ \A x \in Fields \ {pc} : forecastDict'[x] = forecastDict[x]
          /\ \/ /\ forecasted' = FALSE
                /\ forecastDict'[pc] = forecastDict[pc]
             \/ /\ forecasted' = forecasted
                /\ forecastDict'[pc] = [id |-> line.id, rows |-> rows[pc]]
                /\ rows[pc] >= MIN_ROWS
      BY <2>9, <3>1 DEF ForecastField, MIN_ROWS
    <3>3. /\ Visited(pc') = Visited(pc) \cup {pc} /\ pc \notin Visited(pc)
          /\ pc' \in AtWork \ {"time"} /\ pc \in AtWork \ {"time"}
          /\ Visited(pc) \subseteq Fields
      BY <3>1, FollowingValues DEF Visited, Fields, AtWork
    <3>4. forecastDict[pc].id < line.id
      BY <3>1, <3>3 DEF LineInv, ForecastsHold
    <3>5. \A x \in Fields : /\ forecastDict'[x].id <= line.id
                            /\ forecastDict'[x].id = 0 \/ forecastDict'[x].rows >= MIN_ROWS
      BY <3>1, <3>2, <3>4 DEF LineInv, ForecastsHold
    <3>6. \A x \in Fields \ Visited(pc') : forecastDict'[x].id < line.id
      BY <3>1, <3>2, <3>3 DEF LineInv, ForecastsHold
    <3>7. forecasted' <=> \A x \in Visited(pc') : forecastDict'[x].id = line.id
      <4>1. CASE forecasted' = FALSE /\ forecastDict'[pc] = forecastDict[pc]
        BY <3>1, <3>3, <3>4, <4>1
      <4>2. CASE forecasted' = forecasted /\ forecastDict'[pc].id = line.id
        <5>1. forecasted <=> \A x \in Visited(pc) : forecastDict[x].id = line.id
          BY <3>3 DEF LineInv, ForecastsHold
        <5> QED BY <3>2, <3>3, <4>2, <5>1
      <4>3. [id |-> line.id, rows |-> rows[pc]].id = line.id
        OBVIOUS
      <4> QED BY <3>2, <4>1, <4>2, <4>3
    <3> QED BY <3>1, <3>3, <3>5, <3>6, <3>7 DEF LineInv, ForecastsHold, ForecastIsFresh
  <2>10. CASE Emit
    <3>1. /\ pc = "emit" /\ pc' = "stdin" /\ UNCHANGED <<line, forecasted, forecastDict>>
          /\ forecasts' = IF forecasted
                          THEN {[id |-> line.id, time |-> time, value |-> forecastDict]}
                          ELSE forecasts
      BY <2>10 DEF Emit
    <3>2. ForecastsHold /\ "stdin" \notin AtWork /\ "emit" \in AtWork \ {"time"} /\ Visited("emit") = Fields
      BY DEF LineInv, AtWork, Fields, Visited
    <3>3. \A x \in Fields : /\ forecastDict[x].id <= line.id
                            /\ forecastDict[x].id = 0 \/ forecastDict[x].rows >= MIN_ROWS
      BY <3>2 DEF ForecastsHold
    <3>4. forecasted => \A x \in Fields : forecastDict[x].id = line.id
      BY <3>1, <3>2 DEF ForecastsHold
    <3>5. line.id > 0
      BY <3>1, <3>2 DEF LineInv, Ahead
    <3>6. ForecastIsFresh'
      <4>1. CASE forecasted
        <5>1. \A x \in Fields : forecastDict[x].id = line.id /\ forecastDict[x].rows >= MIN_ROWS
          BY <3>3, <3>4, <3>5, <4>1
        <5> QED BY <3>1, <4>1, <5>1 DEF ForecastIsFresh
      <4>2. CASE ~ forecasted
        BY <3>1, <3>2, <4>2 DEF ForecastsHold, ForecastIsFresh
      <4> QED BY <4>1, <4>2
    <3> QED BY <3>1, <3>2, <3>3, <3>6 DEF ForecastsHold
  <2>11. CASE Crash
    BY <2>11 DEF Crash, LineInv, TypeOK, Ahead, ForecastsHold, ForecastIsFresh, AtWork, Line, Fields, Visited
  <2>12. CASE Restart
    BY <2>12 DEF Restart, LineInv, TypeOK, Line, ForecastsHold, ForecastIsFresh, NoValue, AtWork, Fields
  <2>13. CASE UNCHANGED vars
    BY <2>13 DEF vars, LineInv, TypeOK, Ahead, ForecastsHold, ForecastIsFresh, AtWork, Line, Fields, Visited
  <2> QED
    BY <2>1, <2>2, <2>3, <2>4, <2>5, <2>6, <2>7,
       <2>8, <2>9, <2>10, <2>11, <2>12, <2>13 DEF Next, Process
<1>4. LineInv /\ TypeOK' /\ [Next]_vars => Passed'
  <2> SUFFICES ASSUME LineInv, TypeOK', [Next]_vars PROVE Passed'
    OBVIOUS
  <2> USE DEF deviceVars, storeVars, countVars, fcVars
  <2>1. CASE Sends
    BY <2>1 DEF Sends, LineInv, TypeOK, Ahead, Passed, AtWork, Line, Fields
  <2>2. CASE DeviceRestarts
    BY <2>2 DEF DeviceRestarts, LineInv, TypeOK, Ahead, Passed, AtWork, Line, Fields
  <2>3. CASE Flush
    BY <2>3 DEF Flush, LineInv, TypeOK, Ahead, Passed, AtWork, Line, Fields
  <2>4. CASE \E x \in Fields : Expires(x)
    BY <2>4 DEF Expires, LineInv, TypeOK, Ahead, Passed, AtWork, Line, Fields
  <2>5. CASE ReadLine
    <3>1. line' = pipe[1] /\ 1 \in DOMAIN pipe /\ pipe[1] \in Line /\ line \in Line
      BY <2>5 DEF ReadLine, LineInv, TypeOK
    <3>2. line.id < line'.id /\ line.id \in Nat /\ line'.id \in Nat
      BY <3>1 DEF LineInv, Ahead, Line
    <3>3. UNCHANGED passed /\ \A i \in DOMAIN passed : passed[i] \in Nat
      BY <2>5 DEF ReadLine, LineInv, TypeOK
    <3> QED BY <3>2, <3>3 DEF LineInv, Passed
  <2>6. CASE AskTime
    BY <2>6 DEF AskTime, LineInv, TypeOK, Ahead, Passed, AtWork, Line, Fields
  <2>7. CASE AddDelayAnalysis
    BY <2>7 DEF AddDelayAnalysis, LineInv, TypeOK, Ahead, Passed, AtWork, Line, Fields
  <2>8. CASE PrintLine
    <3>1. /\ passed \in Seq(Nat) /\ line.id \in Nat
          /\ passed' = Append(passed, line.id) /\ line' = line /\ pc' = "hum"
      BY <2>8, FollowingValues DEF PrintLine, LineInv, TypeOK, Line
    <3>2. \A i \in DOMAIN passed : passed[i] < line.id
      BY <2>8 DEF PrintLine, LineInv, Passed
    <3>3. \A i \in DOMAIN passed' : /\ i \in 1..Len(passed) + 1
                                    /\ IF i = Len(passed) + 1 THEN passed'[i] = line.id
                                       ELSE i \in DOMAIN passed /\ passed'[i] = passed[i]
      BY <3>1
    <3>4. \A i \in DOMAIN passed : passed[i] \in Nat
      BY <3>1
    <3> QED BY <3>1, <3>2, <3>3, <3>4 DEF LineInv, Passed
  <2>9. CASE ForecastField
    BY <2>9, FollowingValues DEF ForecastField, LineInv, Passed, Fields
  <2>10. CASE Emit
    BY <2>10 DEF Emit, LineInv, TypeOK, Ahead, Passed, AtWork, Line, Fields
  <2>11. CASE Crash
    BY <2>11 DEF Crash, LineInv, TypeOK, Ahead, Passed, AtWork, Line, Fields
  <2>12. CASE Restart
    BY <2>12 DEF Restart, LineInv, TypeOK, Ahead, Passed, AtWork, Line, Fields
  <2>13. CASE UNCHANGED vars
    BY <2>13 DEF vars, LineInv, TypeOK, Ahead, Passed, AtWork, Line, Fields
  <2> QED
    BY <2>1, <2>2, <2>3, <2>4, <2>5, <2>6, <2>7,
       <2>8, <2>9, <2>10, <2>11, <2>12, <2>13 DEF Next, Process
<1> QED BY <1>1, <1>2, <1>3, <1>4, TypeCorrect, PTL DEF Spec, LineInv

\* No value of an earlier line is printed again as a forecast.
THEOREM Freshness == Spec => []ForecastIsFresh
<1>1. LineInv => ForecastIsFresh
  BY DEF LineInv, ForecastsHold
<1> QED BY <1>1, LineInvariant, PTL

\* Behind the loop, forecasted says whether all fields were forecast for the line.
THEOREM AllFieldsOrNone == Spec => []ForecastWhenAllFields
<1>1. LineInv => ForecastWhenAllFields
  <2>1. "emit" \in AtWork \ {"time"} /\ Visited("emit") = Fields
    BY DEF AtWork, Visited
  <2> QED BY <2>1 DEF LineInv, ForecastsHold, ForecastWhenAllFields
<1> QED BY <1>1, LineInvariant, PTL

\* Lines reach InfluxDB in order and once, whatever is lost in a crash.
THEOREM OnceInOrder == Spec => []PassedInOrder
<1>1. LineInv => PassedInOrder
  <2>1. ASSUME LineInv, NEW i \in DOMAIN pipe, NEW j \in DOMAIN passed
        PROVE  passed[j] < pipe[i].id
    <3>1. passed[j] \in Nat /\ pipe[i] \in Line /\ line \in Line
      BY <2>1 DEF LineInv, TypeOK
    <3>2. passed[j] <= line.id /\ line.id < pipe[i].id
      BY <2>1 DEF LineInv, Ahead, Passed
    <3> QED BY <3>1, <3>2 DEF Line
  <2> QED BY <2>1 DEF LineInv, Passed, PassedInOrder
<1> QED BY <1>1, LineInvariant, PTL

-----------------------------------------------------------------------------
(* The invariant of the packet numbers, until the device restarts.          *)

\* Numbers only grow along counted, line in hand, pipe and next.
Growing ==
  /\ old_packet_number < next
  /\ \A i \in DOMAIN pipe : old_packet_number < pipe[i].n /\ pipe[i].n < next
  /\ \A i, j \in DOMAIN pipe : i < j => pipe[i].n < pipe[j].n
  /\ pc \in {"time", "count"} =>
       /\ old_packet_number < line.n /\ line.n < next
       /\ \A i \in DOMAIN pipe : line.n < pipe[i].n

\* The last number counted is remembered, and a loss shows in the count.
Counting ==
  /\ old_packet_number = IF counted = <<>> THEN -1 ELSE counted[Len(counted)]
  /\ packet_lost >= 0
  /\ packet_lost = 0 <=> \A i \in DOMAIN counted : counted[i] = i - 1

CountsHold == TypeOK /\ (boots = 0 => Growing /\ Counting)

\* A packet counted adds nothing exactly when it follows the last one.
LEMMA LostFacts ==
  ASSUME NEW old \in Int, NEW n \in Int, old < n
  PROVE  Lost(old, n) >= 0 /\ Lost(old, n) \in Int /\ (Lost(old, n) = 0 <=> n = old + 1)
BY DEF Lost

\* Packet numbers stay in this order and counted agrees with the count.
LEMMA NumbersInvariant == Spec => []CountsHold
<1>1. Init => CountsHold
  BY DEF Init, CountsHold, Growing, Counting, TypeOK, Line, NoLine, NoValue, Fields
<1>2. CountsHold /\ TypeOK' /\ [Next]_vars => CountsHold'
  <2> SUFFICES ASSUME CountsHold, TypeOK', [Next]_vars, boots' = 0
               PROVE  Growing' /\ Counting'
    BY DEF CountsHold
  <2> USE DEF deviceVars, storeVars, countVars, fcVars
  <2>0. /\ next \in Nat /\ boots \in Nat /\ pipe \in Seq(Line) /\ line \in Line /\ line.n \in Nat
        /\ old_packet_number \in Int /\ packet_lost \in Int /\ counted \in Seq(Nat)
        /\ \A i \in DOMAIN pipe : pipe[i].n \in Nat
    <3>1. \A i \in DOMAIN pipe : pipe[i] \in Line
      BY DEF CountsHold, TypeOK
    <3> QED BY <3>1 DEF CountsHold, TypeOK, Line
  <2>1. CASE Sends
    <3>1. PICK new \in Line : /\ new.n >= next /\ new.n < next'
                              /\ pipe' \in {pipe, Append(pipe, new)}
      <4>1. PICK lost \in 0..1, has \in {Fields, {"conc"}} :
              /\ pipe' = IF pc = "dead" THEN pipe
                         ELSE Append(pipe, [id |-> lines + 1, n |-> next + lost, has |-> has])
              /\ next' = next + lost + 1
        BY <2>1 DEF Sends
      <4>2. /\ [id |-> lines + 1, n |-> next + lost, has |-> has] \in Line
            /\ next + lost >= next /\ next + lost < next'
        BY <2>0, <4>1 DEF CountsHold, TypeOK, Line
      <4>3. PICK new : new = [id |-> lines + 1, n |-> next + lost, has |-> has]
        OBVIOUS
      <4>4. new.n = next + lost
        BY <4>3
      <4>5. pipe' \in {pipe, Append(pipe, new)}
        BY <4>1, <4>3, Zenon
      <4> QED BY <4>2, <4>3, <4>4, <4>5, Zenon
    <3>2. UNCHANGED <<pc, line, countVars, boots>> /\ next < next' /\ next' \in Nat
      BY <2>1, <2>0, <3>1 DEF Sends, TypeOK, Line
    <3>3. Growing /\ Counting
      BY <3>2 DEF CountsHold
    <3>4. \A i \in DOMAIN pipe' : \/ i \in DOMAIN pipe /\ pipe'[i] = pipe[i]
                                  \/ i = Len(pipe) + 1 /\ pipe'[i] = new
      <4>1. CASE pipe' = pipe
        BY <4>1
      <4>2. CASE pipe' = Append(pipe, new)
        BY <2>0, <4>2, AppendElements
      <4> QED BY <3>1, <4>1, <4>2
    <3>5. new.n \in Nat
      BY DEF Line
    <3>6. /\ old_packet_number' < next'
          /\ \A i \in DOMAIN pipe' :
               old_packet_number' < pipe'[i].n /\ pipe'[i].n < next'
      BY <2>0, <3>1, <3>2, <3>3, <3>4, <3>5 DEF Growing
    <3>7. ASSUME NEW i \in DOMAIN pipe', NEW j \in DOMAIN pipe', i < j
          PROVE  pipe'[i].n < pipe'[j].n
      <4>1. i \in DOMAIN pipe /\ pipe'[i] = pipe[i]
        <5>1. j \in Nat /\ i \in Nat /\ j <= Len(pipe) + 1
          BY <2>0, <3>4
        <5> QED BY <2>0, <3>4, <3>7, <5>1
      <4>2. CASE j \in DOMAIN pipe /\ pipe'[j] = pipe[j]
        BY <3>3, <3>7, <4>1, <4>2 DEF Growing
      <4>3. CASE pipe'[j] = new
        BY <2>0, <3>1, <3>3, <3>5, <4>1, <4>3 DEF Growing
      <4> QED BY <3>4, <4>2, <4>3
    <3>8. ASSUME pc' \in {"time", "count"}
          PROVE  /\ old_packet_number' < line'.n /\ line'.n < next'
                 /\ \A i \in DOMAIN pipe' : line'.n < pipe'[i].n
      <4>1. /\ old_packet_number < line.n /\ line.n < next
            /\ \A i \in DOMAIN pipe : line.n < pipe[i].n
        BY <3>2, <3>3, <3>8 DEF Growing
      <4>2. line.n < next' /\ line.n < new.n
        BY <2>0, <3>1, <3>2, <3>5, <4>1
      <4> QED BY <3>2, <3>4, <4>1, <4>2
    <3>9. Counting'
      BY <3>2, <3>3 DEF Counting
    <3> QED BY <3>6, <3>7, <3>8, <3>9 DEF Growing
  <2>2. CASE DeviceRestarts
    BY <2>0, <2>2 DEF DeviceRestarts
  <2>3. CASE Flush
    BY <2>3 DEF Flush, CountsHold, Growing, Counting
  <2>4. CASE \E x \in Fields : Expires(x)
    BY <2>4 DEF Expires, CountsHold, Growing, Counting
  <2>5. CASE ReadLine
    <3>1. /\ pipe # <<>> /\ line' = pipe[1] /\ 1 \in DOMAIN pipe
          /\ UNCHANGED <<next, boots, countVars>>
      BY <2>5, <2>0 DEF ReadLine
    <3>2. \A i \in DOMAIN pipe' : i \in Nat \ {0} /\ i + 1 \in DOMAIN pipe /\ pipe'[i] = pipe[i + 1]
      BY <2>5, <2>0, TailElements DEF ReadLine
    <3>3. Growing /\ Counting
      BY <3>1 DEF CountsHold
    <3>4. Counting'
      BY <3>1, <3>3 DEF Counting
    <3>5. /\ old_packet_number' < line'.n /\ line'.n < next'
          /\ old_packet_number' < next'
      BY <3>1, <3>3 DEF Growing
    <3>6. \A i \in DOMAIN pipe' : /\ old_packet_number' < pipe'[i].n /\ pipe'[i].n < next'
                                  /\ line'.n < pipe'[i].n
      BY <3>1, <3>2, <3>3 DEF Growing
    <3>7. \A i, j \in DOMAIN pipe' : i < j => pipe'[i].n < pipe'[j].n
      BY <3>2, <3>3 DEF Growing
    <3> QED BY <3>4, <3>5, <3>6, <3>7 DEF Growing
  <2>6. CASE AskTime
    BY <2>6 DEF AskTime, CountsHold, Growing, Counting
  <2>7. CASE AddDelayAnalysis
    <3>1. /\ Growing /\ Counting /\ pc = "count" /\ UNCHANGED <<next, pipe, line>>
          /\ pc' = "print" /\ old_packet_number' = line.n
          /\ packet_lost' = packet_lost + Lost(old_packet_number, line.n)
          /\ counted' = Append(counted, line.n)
      BY <2>7 DEF AddDelayAnalysis, CountsHold
    <3>2. old_packet_number < line.n
      BY <3>1 DEF Growing
    <3>3. Growing'
      BY <2>0, <3>1, <3>2 DEF Growing
    <3>4. /\ packet_lost' >= 0
          /\ packet_lost' = 0 <=> packet_lost = 0 /\ line.n = old_packet_number + 1
      <4>1. /\ Lost(old_packet_number, line.n) \in Int
            /\ Lost(old_packet_number, line.n) >= 0
            /\ Lost(old_packet_number, line.n) = 0 <=> line.n = old_packet_number + 1
        BY <2>0, <3>2, LostFacts
      <4>2. packet_lost >= 0
        BY <3>1 DEF Counting
      <4> QED BY <2>0, <3>1, <4>1, <4>2
    <3>5. /\ counted' # <<>> /\ Len(counted') = Len(counted) + 1
          /\ counted'[Len(counted')] = line.n
      BY <2>0, <3>1
    <3>6. /\ \A i \in DOMAIN counted : i \in DOMAIN counted' /\ counted'[i] = counted[i]
          /\ \A i \in DOMAIN counted' : i \in DOMAIN counted \/ i = Len(counted) + 1
          /\ Len(counted) + 1 \in DOMAIN counted' /\ counted'[Len(counted) + 1] = line.n
          /\ Len(counted) \in Nat
      BY <2>0, <3>1
    <3>7. (\A i \in DOMAIN counted' : counted'[i] = i - 1)
            <=> (\A i \in DOMAIN counted : counted[i] = i - 1) /\ line.n = Len(counted)
      BY <3>6
    <3>8. (\A i \in DOMAIN counted : counted[i] = i - 1) => old_packet_number = Len(counted) - 1
      <4>1. CASE counted = <<>>
        BY <3>1, <4>1 DEF Counting
      <4>2. CASE counted # <<>>
        BY <2>0, <3>1, <4>2 DEF Counting
      <4> QED BY <4>1, <4>2
    <3>9. packet_lost' = 0 <=> \A i \in DOMAIN counted' : counted'[i] = i - 1
      <4>1. packet_lost = 0 <=> \A i \in DOMAIN counted : counted[i] = i - 1
        BY <3>1 DEF Counting
      <4>2. line.n = Len(counted) <=> line.n = (Len(counted) - 1) + 1
        BY <2>0, <3>6
      <4> QED BY <3>4, <3>7, <3>8, <4>1, <4>2
    <3> QED BY <3>1, <3>3, <3>4, <3>5, <3>9 DEF Counting
  <2>8. CASE PrintLine
    BY <2>8, FollowingValues DEF PrintLine, CountsHold, Growing, Counting
  <2>9. CASE ForecastField
    BY <2>9, FollowingValues DEF ForecastField, CountsHold, Growing, Counting, Fields
  <2>10. CASE Emit
    BY <2>10 DEF Emit, CountsHold, Growing, Counting
  <2>11. CASE Crash
    BY <2>11 DEF Crash, CountsHold, Growing, Counting
  <2>12. CASE Restart
    BY <2>0, <2>12 DEF Restart, CountsHold, Growing, Counting
  <2>13. CASE UNCHANGED vars
    BY <2>13 DEF vars, CountsHold, Growing, Counting
  <2> QED
    BY <2>1, <2>2, <2>3, <2>4, <2>5, <2>6, <2>7, <2>8, <2>9, <2>10, <2>11, <2>12,
       <2>13 DEF Next, Process
<1> QED BY <1>1, <1>2, TypeCorrect, PTL DEF Spec, CountsHold

\* No loss is counted exactly when every packet from 0 on has come: the guard of
\* addDelayAnalysis misses none while the device does not restart.
THEOREM NoLossUnnoticed == Spec => []LossIsNoticed
<1>1. CountsHold => LossIsNoticed
  BY DEF CountsHold, Counting, LossIsNoticed
<1> QED BY <1>1, NumbersInvariant, PTL

-----------------------------------------------------------------------------
(* The bot.                                                                *)

\* The questions a chat has behind it at each place of the conversation.
AskedBefore(c) ==
  /\ At(c, "SAMPLEFREQ") => told[c]["mode"] # "?"
  /\ At(c, "MINGASVALUE") => told[c]["mode"] # "?" /\ told[c]["f"] # "?"
  /\ At(c, "MAXGASVALUE") =>
       told[c]["mode"] # "?" /\ told[c]["f"] # "?" /\ told[c]["min"] # "?"

\* The globals are always numbers, which a text must not become; and a conversation comes
\* to its last question only by the others.
CompleteInv ==
  /\ BotTypeOK
  /\ \A c \in Chats : AskedBefore(c)
  /\ PublishedAreComplete

\* What an answer may be.
LEMMA AnswersAreTold ==
  ASSUME NEW text \in Texts
  PROVE  /\ text # "?" /\ text # "default"
         /\ text \in Modes \cup Values \cup {"?", "default", Junk}
         /\ text # Junk => text \in Numbers
BY NumbersAssumption DEF Texts, Values, Junk

LEMMA AnswersAreValues == \A text \in Texts : text \in Modes \cup Values \cup {Junk}
BY DEF Texts, Values

\* An answer that is stored is a number.
LEMMA StoredIsValue ==
  ASSUME NEW old \in Values, NEW text \in Texts
  PROVE  Stored(old, text) \in Values
BY AnswersAreTold DEF Stored, Values, Texts

LEMMA CompleteInit == BotInit => CompleteInv
BY JobsAssumption
DEF BotInit, CompleteInv, BotTypeOK, AskedBefore, At, PublishedAreComplete, Initial, Nothing,
    States, Modes, Values, Questions

\* Where the conversation of c is and what c was told, after c was told v about x.
LEMMA Telling ==
  ASSUME BotTypeOK, NEW c \in Chats, NEW place \in States, NEW x \in Questions,
         NEW v \in Modes \cup Values \cup {"?", "default", Junk},
         Replies(c, place, x, v)
  PROVE  /\ state' \in [Chats -> States]
         /\ told' \in [Chats -> [Questions -> Modes \cup Values \cup {"?", "default", Junk}]]
         /\ \A d \in Chats \ {c} : state'[d] = state[d] /\ told'[d] = told[d]
         /\ state'[c] = place /\ told'[c][x] = v
         /\ \A y \in Questions \ {x} : told'[c][y] = told[c][y]
BY DEF BotTypeOK, Replies, Goes, Tells

LEMMA Ending ==
  ASSUME BotTypeOK, NEW c \in Chats, Ends(c)
  PROVE  /\ state' \in [Chats -> States]
         /\ told' \in [Chats -> [Questions -> Modes \cup Values \cup {"?", "default", Junk}]]
         /\ \A d \in Chats \ {c} : state'[d] = state[d] /\ told'[d] = told[d]
         /\ state'[c] = "END" /\ told'[c] = Nothing
<1>1. Nothing \in [Questions -> Modes \cup Values \cup {"?", "default", Junk}]
  BY DEF Nothing
<1> QED BY <1>1 DEF BotTypeOK, Ends, Goes, States

\* The numbers of c after an answer: a text that is none leaves them.
LEMMA Choosing ==
  ASSUME BotTypeOK, NEW c \in Chats, NEW x \in Questions,
         NEW v \in Modes \cup Values \cup {Junk}, Chooses(c, x, v)
  PROVE  /\ chosen' \in [Chats -> [Questions -> Modes \cup Values]]
         /\ \A d \in Chats \ {c} : chosen'[d] = chosen[d]
         /\ chosen'[c][x] = IF v = Junk THEN chosen[c][x] ELSE v
         /\ \A y \in Questions \ {x} : chosen'[c][y] = chosen[c][y]
<1>1. chosen \in [Chats -> [Questions -> Modes \cup Values]]
  BY DEF BotTypeOK
<1>2. CASE v = Junk
  BY <1>1, <1>2 DEF Chooses
<1>3. CASE v # Junk
  <2>1. v \in Modes \cup Values
    BY <1>3
  <2>2. chosen' = [chosen EXCEPT ![c][x] = v]
    BY <1>3 DEF Chooses
  <2> QED BY <1>1, <1>3, <2>1, <2>2
<1> QED BY <1>2, <1>3

\* What is published at the last question of c is typed, numeric and complete.
LEMMA Publishing ==
  ASSUME CompleteInv, NEW c \in Chats, At(c, "MAXGASVALUE"), maxValue' \in Values,
         chosen' \in [Chats -> [Questions -> Modes \cup Values]],
         NEW v \in Modes \cup Values \cup {"default", Junk}, v # "?", Publishes(c, "max", v)
  PROVE  /\ \A p \in published' :
               /\ p.told \in [Questions -> Modes \cup Values \cup {"default", Junk}]
               /\ p.chosen \in [Questions -> Modes \cup Values]
         /\ PublishedAreComplete'
<1> DEFINE data == [mode |-> mode, f |-> f, min |-> minValue, max |-> maxValue']
           tells == [told[c] EXCEPT !["max"] = v]
<1>1. published' = {[told |-> tells, chosen |-> chosen'[c], data |-> data]}
  BY DEF Publishes
<1>2. data \in Settings
  BY DEF Settings, CompleteInv, BotTypeOK
<1>3. AskedBefore(c)
  BY DEF CompleteInv
<1>4. \A x \in Questions : tells[x] # "?" /\ tells[x] \in Modes \cup Values \cup {"default", Junk}
  BY <1>3 DEF AskedBefore, Questions, CompleteInv, BotTypeOK
<1>5. tells \in [Questions -> Modes \cup Values \cup {"default", Junk}]
  BY <1>4 DEF CompleteInv, BotTypeOK
<1> HIDE DEF data, tells
<1> QED BY <1>1, <1>2, <1>4, <1>5 DEF PublishedAreComplete

\* An answer or a skipped question leads from one place to the next; a failing reply, or
\* one of another chat, changes nothing in what was asked.
LEMMA TellingAsks ==
  ASSUME CompleteInv, NEW c \in Chats, NEW place \in States, NEW x \in Questions,
         NEW v \in Modes \cup Values \cup {"default", Junk}, v # "?",
         Replies(c, place, x, v) \/ ReplyFails,
         \/ At(c, "METHOD") /\ place = "SAMPLEFREQ" /\ x = "mode"
         \/ At(c, "SAMPLEFREQ") /\ place = "MINGASVALUE" /\ x = "f"
         \/ At(c, "MINGASVALUE") /\ place = "MAXGASVALUE" /\ x = "min"
  PROVE  /\ state' \in [Chats -> States]
         /\ told' \in [Chats -> [Questions -> Modes \cup Values \cup {"?", "default", Junk}]]
         /\ \A d \in Chats : AskedBefore(d)'
<1>1. CASE ReplyFails
  BY <1>1 DEF ReplyFails, CompleteInv, BotTypeOK, AskedBefore, At
<1>2. CASE Replies(c, place, x, v)
  <2>1. /\ state' \in [Chats -> States]
        /\ told' \in [Chats -> [Questions -> Modes \cup Values \cup {"?", "default", Junk}]]
        /\ \A d \in Chats \ {c} : state'[d] = state[d] /\ told'[d] = told[d]
        /\ state'[c] = place /\ told'[c][x] = v
        /\ \A y \in Questions \ {x} : told'[c][y] = told[c][y]
    BY <1>2, Telling DEF CompleteInv
  <2>2. \A d \in Chats \ {c} : AskedBefore(d)'
    BY <2>1 DEF CompleteInv, AskedBefore, At
  <2>3. AskedBefore(c)'
    BY <2>1 DEF CompleteInv, AskedBefore, At, Questions
  <2> QED BY <2>1, <2>2, <2>3
<1> QED BY <1>1, <1>2

LEMMA EndingAsks ==
  ASSUME CompleteInv, NEW c \in Chats, Ends(c) \/ ReplyFails
  PROVE  /\ state' \in [Chats -> States]
         /\ told' \in [Chats -> [Questions -> Modes \cup Values \cup {"?", "default", Junk}]]
         /\ \A d \in Chats : AskedBefore(d)'
<1>1. CASE ReplyFails
  BY <1>1 DEF ReplyFails, CompleteInv, BotTypeOK, AskedBefore, At
<1>2. CASE Ends(c)
  BY <1>2, Ending DEF CompleteInv, AskedBefore, At
<1> QED BY <1>1, <1>2

LEMMA CompleteStep == CompleteInv /\ [BotNext]_botVars => CompleteInv'
<1> SUFFICES ASSUME CompleteInv, [BotNext]_botVars PROVE CompleteInv'
  OBVIOUS
<1> USE DEF settingVars, history
<1>t. BotTypeOK
  BY DEF CompleteInv
<1>1. CASE UNCHANGED botVars
  BY <1>1 DEF botVars, CompleteInv, BotTypeOK, AskedBefore, At, PublishedAreComplete
<1>2. ASSUME NEW c \in Chats, Start(c) PROVE CompleteInv'
  BY <1>2, <1>t DEF Start, Goes, CompleteInv, BotTypeOK, AskedBefore, At, PublishedAreComplete, States
<1>3. ASSUME NEW c \in Chats, NEW m \in Modes, Method(c, m) PROVE CompleteInv'
  <2>1. m # "?" /\ "SAMPLEFREQ" \in States /\ "mode" \in Questions
    BY DEF Modes, States, Questions
  <2>2. /\ state' \in [Chats -> States]
        /\ told' \in [Chats -> [Questions -> Modes \cup Values \cup {"?", "default", Junk}]]
        /\ \A d \in Chats : AskedBefore(d)'
    BY <1>3, <2>1, TellingAsks DEF Method
  <2>3. chosen' \in [Chats -> [Questions -> Modes \cup Values]]
    BY <1>3, <1>t, <2>1, Choosing DEF Method
  <2> QED BY <1>3, <1>t, <2>2, <2>3 DEF Method, CompleteInv, BotTypeOK, PublishedAreComplete
<1>4. ASSUME NEW c \in Chats, NEW text \in Texts, SampleFreq(c, text) PROVE CompleteInv'
  <2>1. text # "?" /\ text \in Modes \cup Values \cup {"default", Junk} /\ f' \in Values
    BY <1>4, <1>t, AnswersAreTold, StoredIsValue DEF SampleFreq, BotTypeOK
  <2>2. "MINGASVALUE" \in States /\ "f" \in Questions
    BY DEF States, Questions
  <2>3. /\ state' \in [Chats -> States]
        /\ told' \in [Chats -> [Questions -> Modes \cup Values \cup {"?", "default", Junk}]]
        /\ \A d \in Chats : AskedBefore(d)'
    BY <1>4, <2>1, <2>2, TellingAsks DEF SampleFreq
  <2>4. chosen' \in [Chats -> [Questions -> Modes \cup Values]]
    BY <1>4, <1>t, <2>2, AnswersAreTold, AnswersAreValues, Choosing DEF SampleFreq
  <2> QED BY <1>4, <1>t, <2>1, <2>3, <2>4
          DEF SampleFreq, CompleteInv, BotTypeOK, PublishedAreComplete
<1>5. ASSUME NEW c \in Chats, NEW text \in Texts, MinGasValue(c, text) PROVE CompleteInv'
  <2>1. text # "?" /\ text \in Modes \cup Values \cup {"default", Junk} /\ minValue' \in Values
    BY <1>5, <1>t, AnswersAreTold, StoredIsValue DEF MinGasValue, BotTypeOK
  <2>2. "MAXGASVALUE" \in States /\ "min" \in Questions
    BY DEF States, Questions
  <2>3. /\ state' \in [Chats -> States]
        /\ told' \in [Chats -> [Questions -> Modes \cup Values \cup {"?", "default", Junk}]]
        /\ \A d \in Chats : AskedBefore(d)'
    BY <1>5, <2>1, <2>2, TellingAsks DEF MinGasValue
  <2>4. chosen' \in [Chats -> [Questions -> Modes \cup Values]]
    BY <1>5, <1>t, <2>2, AnswersAreTold, AnswersAreValues, Choosing DEF MinGasValue
  <2> QED BY <1>5, <1>t, <2>1, <2>3, <2>4
          DEF MinGasValue, CompleteInv, BotTypeOK, PublishedAreComplete
<1>6. ASSUME NEW c \in Chats, SkipSampleFreq(c) PROVE CompleteInv'
  <2>1. "MINGASVALUE" \in States /\ "f" \in Questions /\ "default" # "?"
    BY DEF States, Questions
  <2>2. /\ state' \in [Chats -> States]
        /\ told' \in [Chats -> [Questions -> Modes \cup Values \cup {"?", "default", Junk}]]
        /\ \A d \in Chats : AskedBefore(d)'
    BY <1>6, <2>1, TellingAsks DEF SkipSampleFreq
  <2> QED BY <1>6, <1>t, <2>2 DEF SkipSampleFreq, CompleteInv, BotTypeOK, PublishedAreComplete
<1>7. ASSUME NEW c \in Chats, SkipMinValue(c) PROVE CompleteInv'
  <2>1. "MAXGASVALUE" \in States /\ "min" \in Questions /\ "default" # "?"
    BY DEF States, Questions
  <2>2. /\ state' \in [Chats -> States]
        /\ told' \in [Chats -> [Questions -> Modes \cup Values \cup {"?", "default", Junk}]]
        /\ \A d \in Chats : AskedBefore(d)'
    BY <1>7, <2>1, TellingAsks DEF SkipMinValue
  <2> QED BY <1>7, <1>t, <2>2 DEF SkipMinValue, CompleteInv, BotTypeOK, PublishedAreComplete
<1>8. ASSUME NEW c \in Chats, NEW text \in Texts, MaxGasValue(c, text) PROVE CompleteInv'
  <2>1. text # "?" /\ text \in Modes \cup Values \cup {"default", Junk} /\ maxValue' \in Values
    BY <1>8, <1>t, AnswersAreTold, StoredIsValue DEF MaxGasValue, BotTypeOK
  <2>2. Ends(c) \/ ReplyFails
    BY <1>8 DEF MaxGasValue, Publishes, BrokerUnreachable, ReplyFails
  <2>3. /\ state' \in [Chats -> States]
        /\ told' \in [Chats -> [Questions -> Modes \cup Values \cup {"?", "default", Junk}]]
        /\ \A d \in Chats : AskedBefore(d)'
    BY <2>2, EndingAsks
  <2>4. chosen' \in [Chats -> [Questions -> Modes \cup Values]]
    <3>1. "max" \in Questions
      BY DEF Questions
    <3> QED BY <1>8, <1>t, <3>1, AnswersAreValues, Choosing DEF MaxGasValue
  <2>5. /\ \A p \in published' :
              /\ p.told \in [Questions -> Modes \cup Values \cup {"default", Junk}]
              /\ p.chosen \in [Questions -> Modes \cup Values]
        /\ PublishedAreComplete'
    <3>1. CASE Publishes(c, "max", text)
      BY <1>8, <2>1, <2>4, <3>1, Publishing DEF MaxGasValue
    <3>2. CASE BrokerUnreachable
      BY <1>t, <3>2 DEF BrokerUnreachable, CompleteInv, BotTypeOK, PublishedAreComplete
    <3> QED BY <1>8, <3>1, <3>2 DEF MaxGasValue
  <2> QED BY <1>8, <1>t, <2>1, <2>3, <2>4, <2>5 DEF MaxGasValue, CompleteInv, BotTypeOK
<1>9. ASSUME NEW c \in Chats, SkipMaxValue(c) PROVE CompleteInv'
  <2>1. Ends(c) \/ ReplyFails
    BY <1>9 DEF SkipMaxValue, Publishes, ReplyFails
  <2>2. /\ state' \in [Chats -> States]
        /\ told' \in [Chats -> [Questions -> Modes \cup Values \cup {"?", "default", Junk}]]
        /\ \A d \in Chats : AskedBefore(d)'
    BY <2>1, EndingAsks
  <2>3. maxValue' \in Values
    BY <1>9, <1>t DEF SkipMaxValue, BotTypeOK
  <2>4. chosen' = chosen /\ chosen' \in [Chats -> [Questions -> Modes \cup Values]]
    BY <1>9, <1>t DEF SkipMaxValue, BotTypeOK
  <2>5. /\ \A p \in published' :
              /\ p.told \in [Questions -> Modes \cup Values \cup {"default", Junk}]
              /\ p.chosen \in [Questions -> Modes \cup Values]
        /\ PublishedAreComplete'
    BY <1>9, <2>3, <2>4, Publishing DEF SkipMaxValue
  <2> QED BY <1>9, <1>t, <2>2, <2>3, <2>4, <2>5 DEF SkipMaxValue, CompleteInv, BotTypeOK
<1>10. ASSUME NEW c \in Chats, Cancel(c) PROVE CompleteInv'
  <2>1. /\ state' \in [Chats -> States]
        /\ told' \in [Chats -> [Questions -> Modes \cup Values \cup {"?", "default", Junk}]]
        /\ \A d \in Chats : AskedBefore(d)'
    BY <1>10, EndingAsks DEF Cancel
  <2> QED BY <1>10, <1>t, <2>1 DEF Cancel, CompleteInv, BotTypeOK, PublishedAreComplete
<1>11. ASSUME NEW c \in Chats, Get(c) \/ Stop(c) PROVE CompleteInv'
  <2>1. jobs' \in [Chats -> 0..MaxJobs]
    BY <1>11, <1>t, JobsAssumption DEF Get, Stop, BotTypeOK
  <2> QED BY <1>11, <1>t, <2>1
          DEF Get, Stop, CompleteInv, BotTypeOK, AskedBefore, At, PublishedAreComplete
<1> QED BY <1>1, <1>2, <1>3, <1>4, <1>5, <1>6, <1>7, <1>8, <1>9, <1>10, <1>11 DEF BotNext, Answer

\* Every value has its type: no text becomes a setting.
THEOREM BotTypes == BotSpec => []BotTypeOK
<1>1. CompleteInv => BotTypeOK
  BY DEF CompleteInv
<1> QED BY <1>1, CompleteInit, CompleteStep, PTL DEF BotSpec

\* For any number of chats whose conversations alternate, settings go out only at the end
\* of a conversation that has asked everything, and hold numbers only.
THEOREM CompleteWhenSent == BotSpec => []PublishedAreComplete
<1>1. CompleteInv => PublishedAreComplete
  BY DEF CompleteInv
<1> QED BY <1>1, CompleteInit, CompleteStep, PTL DEF BotSpec

-----------------------------------------------------------------------------
(***************************************************************************)
(* One chat.  The globals hold the last numbers it has given, and what it  *)
(* was told is one of them, as long as the conversation has not come to    *)
(* the question again.                                                     *)
(***************************************************************************)
Selections == Modes \cup Numbers

\* The questions still to be asked at each place.
NotAsked(c) ==
  /\ state[c] \in {"END", "METHOD"} => told[c]["mode"] = "?"
  /\ state[c] \in {"END", "METHOD", "SAMPLEFREQ"} => told[c]["f"] = "?"
  /\ state[c] \in {"END", "METHOD", "SAMPLEFREQ", "MINGASVALUE"} => told[c]["min"] = "?"
  /\ told[c]["max"] = "?"

Agrees(c) ==
  /\ chosen[c]["mode"] = mode /\ chosen[c]["f"] = f
  /\ chosen[c]["min"] = minValue /\ chosen[c]["max"] = maxValue
  /\ told[c]["mode"] \in Selections => mode = told[c]["mode"]
  /\ told[c]["f"] \in Selections => f = told[c]["f"]
  /\ told[c]["min"] \in Selections => minValue = told[c]["min"]

SelectedInv ==
  /\ \A c \in Chats : NotAsked(c) /\ Agrees(c)
  /\ LastNumberIsSent

LEMMA SelectionsAre ==
  /\ "?" \notin Selections /\ "default" \notin Selections
  /\ \A text \in Texts : text \in Selections => \A old : Stored(old, text) = text
<1>1. Junk \notin Selections
  BY NumbersAssumption DEF Selections, Modes, Junk
<1> QED BY <1>1, NumbersAssumption DEF Selections, Modes, Stored

LEMMA SelectedInit == BotInit => SelectedInv
BY SelectionsAre
DEF BotInit, SelectedInv, NotAsked, Agrees, LastNumberIsSent, Nothing, Questions, Initial

\* What goes out at the last question is what the globals are, the last of them just stored.
LEMMA SelectedPublishing ==
  ASSUME CompleteInv, SelectedInv, NEW c \in Chats, NEW v, Publishes(c, "max", v),
         v \in Selections => maxValue' = v,
         chosen'[c]["max"] = maxValue',
         \A x \in {"mode", "f", "min"} : chosen'[c][x] = chosen[c][x]
  PROVE  LastNumberIsSent'
<1> DEFINE data == [mode |-> mode, f |-> f, min |-> minValue, max |-> maxValue']
           tells == [told[c] EXCEPT !["max"] = v]
<1>1. published' = {[told |-> tells, chosen |-> chosen'[c], data |-> data]}
  BY DEF Publishes
<1>2. told[c] \in [Questions -> Modes \cup Values \cup {"?", "default", Junk}]
  BY DEF CompleteInv, BotTypeOK
<1>3. /\ tells["mode"] = told[c]["mode"] /\ tells["f"] = told[c]["f"]
      /\ tells["min"] = told[c]["min"] /\ tells["max"] = v
  BY <1>2 DEF Questions
<1>4. /\ data["mode"] = mode /\ data["f"] = f /\ data["min"] = minValue /\ data["max"] = maxValue'
  OBVIOUS
<1>5. Agrees(c)
  BY DEF SelectedInv
<1> HIDE DEF data, tells
<1>6. \A x \in Questions : tells[x] \in Selections => tells[x] = data[x]
  BY <1>3, <1>4, <1>5 DEF Agrees, Questions
<1>7. \A x \in Questions : data[x] = chosen'[c][x]
  BY <1>4, <1>5 DEF Agrees, Questions
<1> QED BY <1>1, <1>6, <1>7 DEF LastNumberIsSent, Selections

LEMMA SelectedStep ==
  ASSUME NEW c, Chats = {c}, CompleteInv, SelectedInv, [BotNext]_botVars
  PROVE  SelectedInv'
<1> USE DEF settingVars, history
<1>t. /\ BotTypeOK /\ c \in Chats /\ NotAsked(c) /\ Agrees(c) /\ LastNumberIsSent
  BY DEF CompleteInv, SelectedInv
<1>s. ASSUME NotAsked(c)', Agrees(c)', LastNumberIsSent' PROVE SelectedInv'
  BY <1>s DEF SelectedInv
<1>u. ASSUME UNCHANGED published PROVE LastNumberIsSent'
  BY <1>t, <1>u DEF LastNumberIsSent
<1>q. "mode" \in Questions /\ "f" \in Questions /\ "min" \in Questions /\ "max" \in Questions
  BY DEF Questions
<1>c. ASSUME NEW x \in Questions, NEW v \in Modes \cup Values \cup {Junk}, Chooses(c, x, v)
      PROVE  /\ chosen'[c][x] = IF v = Junk THEN chosen[c][x] ELSE v
             /\ \A y \in Questions \ {x} : chosen'[c][y] = chosen[c][y]
  BY <1>c, <1>t, Choosing
<1>p. /\ "SAMPLEFREQ" \in States /\ "MINGASVALUE" \in States /\ "MAXGASVALUE" \in States
      /\ "default" \in Modes \cup Values \cup {"?", "default", Junk}
  BY DEF States
<1>1. CASE UNCHANGED botVars
  BY <1>1, <1>t, <1>s, <1>u DEF botVars, NotAsked, Agrees
<1>2. CASE Start(c)
  <2>1. state' \in [Chats -> States] /\ state'[c] = "METHOD" /\ state[c] = "END"
    BY <1>2, <1>t DEF Start, Goes, At, BotTypeOK, States
  <2> QED BY <1>2, <1>t, <1>s, <1>u, <2>1 DEF Start, NotAsked, Agrees
<1>3. ASSUME NEW m \in Modes, Method(c, m) PROVE SelectedInv'
  <2>0. /\ mode' = m /\ chosen'[c]["mode"] = m /\ chosen'[c]["f"] = chosen[c]["f"]
        /\ chosen'[c]["min"] = chosen[c]["min"] /\ chosen'[c]["max"] = chosen[c]["max"]
    <3>1. m # Junk
      BY DEF Modes, Junk
    <3>2. Chooses(c, "mode", m) /\ mode' = m
      BY <1>3 DEF Method
    <3> QED BY <1>q, <1>c, <3>1, <3>2 DEF Questions
  <2>1. CASE ReplyFails
    BY <1>3, <1>t, <1>s, <1>u, <2>0, <2>1, SelectionsAre
    DEF Method, ReplyFails, At, NotAsked, Agrees
  <2>2. CASE Replies(c, "SAMPLEFREQ", "mode", m)
    BY <1>3, <1>t, <1>s, <1>u, <1>q, <1>p, <2>0, <2>2, Telling
    DEF Method, At, NotAsked, Agrees
  <2> QED BY <1>3, <2>1, <2>2 DEF Method
<1>4. ASSUME NEW text \in Texts, SampleFreq(c, text) PROVE SelectedInv'
  <2>0. /\ chosen'[c]["f"] = f'
        /\ chosen'[c]["mode"] = chosen[c]["mode"]
        /\ chosen'[c]["min"] = chosen[c]["min"]
        /\ chosen'[c]["max"] = chosen[c]["max"]
    <3>1. Chooses(c, "f", text) /\ f' = Stored(f, text)
      BY <1>4 DEF SampleFreq
    <3>2. chosen[c]["f"] = f
      BY <1>t DEF Agrees
    <3>3. Stored(f, text) = IF text = Junk THEN f ELSE text
      BY DEF Stored
    <3> QED BY <1>q, <1>c, <3>1, <3>2, <3>3, AnswersAreValues DEF Questions
  <2>1. CASE ReplyFails
    BY <1>4, <1>t, <1>s, <1>u, <2>0, <2>1, SelectionsAre
    DEF SampleFreq, ReplyFails, At, NotAsked, Agrees
  <2>2. CASE Replies(c, "MINGASVALUE", "f", text)
    BY <1>4, <1>t, <1>s, <1>u, <1>q, <1>p, <2>0, <2>2, Telling, AnswersAreTold, SelectionsAre
    DEF SampleFreq, At, NotAsked, Agrees
  <2> QED BY <1>4, <2>1, <2>2 DEF SampleFreq
<1>5. ASSUME NEW text \in Texts, MinGasValue(c, text) PROVE SelectedInv'
  <2>0. /\ chosen'[c]["min"] = minValue'
        /\ chosen'[c]["mode"] = chosen[c]["mode"]
        /\ chosen'[c]["f"] = chosen[c]["f"]
        /\ chosen'[c]["max"] = chosen[c]["max"]
    <3>1. Chooses(c, "min", text) /\ minValue' = Stored(minValue, text)
      BY <1>5 DEF MinGasValue
    <3>2. chosen[c]["min"] = minValue
      BY <1>t DEF Agrees
    <3>3. Stored(minValue, text) = IF text = Junk THEN minValue ELSE text
      BY DEF Stored
    <3> QED BY <1>q, <1>c, <3>1, <3>2, <3>3, AnswersAreValues DEF Questions
  <2>1. CASE ReplyFails
    BY <1>5, <1>t, <1>s, <1>u, <2>0, <2>1, SelectionsAre
    DEF MinGasValue, ReplyFails, At, NotAsked, Agrees
  <2>2. CASE Replies(c, "MAXGASVALUE", "min", text)
    BY <1>5, <1>t, <1>s, <1>u, <1>q, <1>p, <2>0, <2>2, Telling, AnswersAreTold, SelectionsAre
    DEF MinGasValue, At, NotAsked, Agrees
  <2> QED BY <1>5, <2>1, <2>2 DEF MinGasValue
<1>6. CASE SkipSampleFreq(c)
  BY <1>6, <1>t, <1>s, <1>u, <1>q, <1>p, Telling, SelectionsAre
  DEF SkipSampleFreq, At, NotAsked, Agrees
<1>7. CASE SkipMinValue(c)
  BY <1>7, <1>t, <1>s, <1>u, <1>q, <1>p, Telling, SelectionsAre
  DEF SkipMinValue, At, NotAsked, Agrees
<1>8. ASSUME NotAsked(c), Agrees(c), Ends(c) \/ UNCHANGED <<state, told>>,
             UNCHANGED <<mode, f, minValue>>, chosen'[c]["max"] = maxValue',
             \A x \in {"mode", "f", "min"} : chosen'[c][x] = chosen[c][x]
      PROVE  NotAsked(c)' /\ Agrees(c)'
  <2>1. CASE Ends(c)
    BY <1>8, <1>t, <2>1, Ending, SelectionsAre DEF NotAsked, Agrees, Nothing, Questions
  <2>2. CASE UNCHANGED <<state, told>>
    BY <1>8, <2>2 DEF NotAsked, Agrees
  <2> QED BY <1>8, <2>1, <2>2
<1>9. ASSUME NEW text \in Texts, MaxGasValue(c, text) PROVE SelectedInv'
  <2>0. /\ chosen'[c]["max"] = maxValue'
        /\ chosen'[c]["mode"] = chosen[c]["mode"]
        /\ chosen'[c]["f"] = chosen[c]["f"]
        /\ chosen'[c]["min"] = chosen[c]["min"]
    <3>1. Chooses(c, "max", text) /\ maxValue' = Stored(maxValue, text)
      BY <1>9 DEF MaxGasValue
    <3>2. chosen[c]["max"] = maxValue
      BY <1>t DEF Agrees
    <3>3. Stored(maxValue, text) = IF text = Junk THEN maxValue ELSE text
      BY DEF Stored
    <3> QED BY <1>q, <1>c, <3>1, <3>2, <3>3, AnswersAreValues DEF Questions
  <2>1. NotAsked(c)' /\ Agrees(c)'
    BY <1>8, <1>9, <1>t, <2>0 DEF MaxGasValue, Publishes, BrokerUnreachable
  <2>2. LastNumberIsSent'
    BY <1>9, <1>t, <1>u, <2>0, SelectionsAre, SelectedPublishing
    DEF MaxGasValue, BrokerUnreachable
  <2> QED BY <1>s, <2>1, <2>2
<1>10. CASE SkipMaxValue(c)
  <2>1. NotAsked(c)' /\ Agrees(c)'
    BY <1>8, <1>10, <1>t DEF SkipMaxValue, Publishes, Agrees
  <2>2. LastNumberIsSent'
    BY <1>10, <1>t, SelectionsAre, SelectedPublishing DEF SkipMaxValue, Agrees
  <2> QED BY <1>s, <2>1, <2>2
<1>11. CASE Cancel(c)
  BY <1>8, <1>11, <1>t, <1>s, <1>u DEF Cancel, Agrees
<1>12. CASE Get(c) \/ Stop(c)
  BY <1>12, <1>t, <1>s, <1>u DEF Get, Stop, NotAsked, Agrees
<1> QED BY <1>1, <1>2, <1>3, <1>4, <1>5, <1>6, <1>7, <1>9, <1>10, <1>11, <1>12 DEF BotNext, Answer

\* With one chat, what is sent is the last number it has given for each question, and so
\* what the bot has confirmed where that was a number; a text that is none, or a skipped
\* question, lets the number before it go out.
THEOREM LastNumberGoesOut ==
  ASSUME NEW c, Chats = {c} PROVE BotSpec => []LastNumberIsSent
<1>1. BotInit => CompleteInv /\ SelectedInv
  BY CompleteInit, SelectedInit
<1>2. CompleteInv /\ SelectedInv /\ [BotNext]_botVars => (CompleteInv /\ SelectedInv)'
  BY CompleteStep, SelectedStep
<1>3. SelectedInv => LastNumberIsSent
  BY DEF SelectedInv
<1> QED BY <1>1, <1>2, <1>3, PTL DEF BotSpec
=============================================================================
