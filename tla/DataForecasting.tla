--------------------------- MODULE DataForecasting ---------------------------
(***************************************************************************)
(* The processor of Telegraf: for every line of the device it asks a time  *)
(* server, counts lost packets, passes the line on, then forecasts each    *)
(* field from what InfluxDB holds by then and prints one forecast line.    *)
(*                                                                         *)
(* Telegraf writes what the processor printed to InfluxDB in its own time, *)
(* so rows may appear between the queries of one line.  An exception ends  *)
(* the process; Telegraf starts it again and its variables start anew.     *)
(***************************************************************************)
EXTENDS Integers, Sequences

CONSTANTS
  Failures,     \* a time or database request may raise
  MaxLines,     \* bound: lines the device sends
  MaxBoots      \* bound: restarts of the device

ASSUME FailuresAssumption == Failures \in BOOLEAN
ASSUME BoundsAssumption   == MaxLines \in Nat /\ MaxBoots \in Nat

VARIABLES
  \* outside
  next,        \* packet number of the device's next sample
  lines,       \* lines sent so far, for the bound and as their identity
  boots,       \* how often the device has restarted
  pipe,        \* standard input of the processor
  printed,     \* lines printed and not yet written to InfluxDB
  rows,        \* rows InfluxDB holds of each field, of the last day
  \* the process
  pc,          \* "stdin", "time", "count", "print", a field, "emit" or "dead"
  line,        \* the line being worked on
  old_packet_number, packet_lost,
  forecasted,
  forecastDict,\* for each field the line and the rows its value is from
  time,        \* forecastDict[TIME], as the rows the forecast follows
  \* history
  counted,     \* packet numbers counted since the process started
  passed,      \* identities of the lines passed on
  forecasts    \* the last forecast line printed: at most one element

deviceVars  == <<next, lines, boots>>
storeVars   == <<printed, rows>>
countVars   == <<old_packet_number, packet_lost, counted>>
fcVars      == <<forecasted, forecastDict, time, forecasts>>
vars == <<deviceVars, pipe, storeVars, pc, line, countVars, fcVars, passed>>

FIELDS_TO_FORECAST == <<"hum", "temp", "conc">>
Fields   == {"hum", "temp", "conc"}
MIN_ROWS == 2

\* A sample whose DHT read failed has no hum and temp.
Line == [id : Nat, n : Nat, has : {Fields, {"conc"}}]

NoLine  == [id |-> 0, n |-> 0, has |-> Fields]
NoValue == [id |-> 0, rows |-> 0]

TypeOK ==
  /\ next \in Nat /\ lines \in Nat /\ boots \in Nat
  /\ pipe \in Seq(Line) /\ printed \in Seq(Line)
  /\ rows \in [Fields -> Nat]
  /\ pc \in {"stdin", "time", "count", "print", "emit", "dead"} \cup Fields
  /\ line \in Line
  /\ old_packet_number \in Int /\ packet_lost \in Int
  /\ forecasted \in BOOLEAN
  /\ forecastDict \in [Fields -> [id : Nat, rows : Nat]]
  /\ time \in Nat
  /\ counted \in Seq(Nat) /\ passed \in Seq(Nat)
-----------------------------------------------------------------------------
\* Telegraf hands the device's lines to the processor; some samples never come.
Sends ==
  /\ lines < MaxLines
  /\ \E lost \in 0..1, has \in {Fields, {"conc"}} :
       /\ pipe' = IF pc = "dead" THEN pipe
                  ELSE Append(pipe, [id |-> lines + 1, n |-> next + lost, has |-> has])
       /\ next' = next + lost + 1
  /\ lines' = lines + 1
  /\ UNCHANGED <<boots, storeVars, pc, line, countVars, fcVars, passed>>

\* A device that restarts numbers its samples from 0 again.
DeviceRestarts ==
  /\ boots < MaxBoots
  /\ boots' = boots + 1
  /\ next' = 0
  /\ UNCHANGED <<lines, pipe, storeVars, pc, line, countVars, fcVars, passed>>

\* Telegraf flushes to InfluxDB.
Flush ==
  /\ printed # <<>>
  /\ printed' = Tail(printed)
  /\ rows' = [x \in Fields |-> IF x \in Head(printed).has THEN rows[x] + 1 ELSE rows[x]]
  /\ UNCHANGED <<deviceVars, pipe, pc, line, countVars, fcVars, passed>>

\* The queries ask for the last day only.
Expires(x) ==
  /\ rows[x] > 0
  /\ rows' = [rows EXCEPT ![x] = @ - 1]
  /\ UNCHANGED <<deviceVars, pipe, printed, pc, line, countVars, fcVars, passed>>
-----------------------------------------------------------------------------
ReadLine ==
  /\ pc = "stdin"
  /\ pipe # <<>>
  /\ line' = Head(pipe)
  /\ pipe' = Tail(pipe)
  /\ pc' = "time"
  /\ UNCHANGED <<deviceVars, storeVars, countVars, fcVars, passed>>

\* (Bug: what one line could not be forecast silences the next.)
AskTimeOnly ==
  /\ pc = "time"
  /\ pc' = "count"
  /\ UNCHANGED <<deviceVars, pipe, storeVars, line, countVars, fcVars, passed>>

\* The answer is needed for the delay statistics only.  A weather request that
\* fails is caught, and only adds or leaves out a field of the line.
AskTime ==
  /\ pc = "time"
  /\ forecasted' = TRUE
  /\ pc' = "count"
  /\ UNCHANGED <<deviceVars, pipe, storeVars, line, countVars, forecastDict, time,
                 forecasts, passed>>

\* What is added for a packet n after packet old.  (Bug: one gap is tolerated.)
LostTolerant(old, n) == IF n > old + 2 THEN n - old ELSE 0
Lost(old, n)         == IF old + 1 # n THEN n - old ELSE 0

AddDelayAnalysis ==
  /\ pc = "count"
  /\ packet_lost' = packet_lost + Lost(old_packet_number, line.n)
  /\ old_packet_number' = line.n
  /\ counted' = Append(counted, line.n)
  /\ pc' = "print"
  /\ UNCHANGED <<deviceVars, pipe, storeVars, line, fcVars, passed>>

PrintLine ==
  /\ pc = "print"
  /\ printed' = Append(printed, line)
  /\ passed' = Append(passed, line.id)
  /\ pc' = FIELDS_TO_FORECAST[1]
  /\ UNCHANGED <<deviceVars, pipe, rows, line, countVars, fcVars>>

Following(x) ==
  CHOOSE y \in Fields \cup {"emit"} :
     \E i \in DOMAIN FIELDS_TO_FORECAST :
        /\ FIELDS_TO_FORECAST[i] = x
        /\ y = IF i = Len(FIELDS_TO_FORECAST) THEN "emit" ELSE FIELDS_TO_FORECAST[i + 1]

\* (Bug: a field with too few rows is skipped and nothing else.)
ForecastOrSkip ==
  /\ pc \in Fields
  /\ IF rows[pc] < MIN_ROWS
     THEN UNCHANGED <<forecastDict, time>>
     ELSE /\ forecastDict' = [forecastDict EXCEPT ![pc] = [id |-> line.id, rows |-> rows[pc]]]
          /\ time' = rows[pc]
  /\ pc' = Following(pc)
  /\ UNCHANGED <<deviceVars, pipe, storeVars, line, countVars, forecasted, forecasts,
                 passed>>

\* The body of the loop over the fields.  The time is set by every field: the
\* test that guards it looks for another key.
ForecastField ==
  /\ pc \in Fields
  /\ IF rows[pc] < MIN_ROWS
     THEN forecasted' = FALSE /\ UNCHANGED <<forecastDict, time>>
     ELSE /\ forecastDict' = [forecastDict EXCEPT ![pc] = [id |-> line.id, rows |-> rows[pc]]]
          /\ time' = rows[pc]
          /\ UNCHANGED forecasted
  /\ pc' = Following(pc)
  /\ UNCHANGED <<deviceVars, pipe, storeVars, line, countVars, forecasts, passed>>

Emit ==
  /\ pc = "emit"
  /\ forecasts' = IF forecasted
                  THEN {[id |-> line.id, time |-> time, value |-> forecastDict]}
                  ELSE forecasts
  /\ pc' = "stdin"
  /\ UNCHANGED <<deviceVars, pipe, storeVars, line, countVars, forecasted,
                 forecastDict, time, passed>>

\* No answer from the time server, or an exception of a query: the process ends,
\* and what is in its pipe is lost with it.
Crash ==
  /\ Failures
  /\ pc \in Fields \cup {"time"}
  /\ pc' = "dead"
  /\ pipe' = <<>>
  /\ UNCHANGED <<deviceVars, storeVars, line, countVars, fcVars, passed>>

\* (Bug: the line in hand is taken up again.)
RestartOnLine ==
  /\ pc = "dead"
  /\ pc' = "time"
  /\ old_packet_number' = -1 /\ packet_lost' = 0
  /\ counted' = <<>>
  /\ forecasted' = TRUE
  /\ forecastDict' = [x \in Fields |-> NoValue]
  /\ time' = 0
  /\ UNCHANGED <<deviceVars, pipe, storeVars, line, forecasts, passed>>

\* Telegraf's restart of the command.
Restart ==
  /\ pc = "dead"
  /\ pc' = "stdin"
  /\ old_packet_number' = -1 /\ packet_lost' = 0
  /\ counted' = <<>>
  /\ forecasted' = TRUE
  /\ forecastDict' = [x \in Fields |-> NoValue]
  /\ time' = 0
  /\ UNCHANGED <<deviceVars, pipe, storeVars, line, forecasts, passed>>
-----------------------------------------------------------------------------
Init ==
  /\ next = 0 /\ lines = 0 /\ boots = 0
  /\ pipe = <<>> /\ printed = <<>>
  /\ rows = [x \in Fields |-> 0]
  /\ pc = "stdin" /\ line = NoLine
  /\ old_packet_number = -1 /\ packet_lost = 0
  /\ forecasted = TRUE
  /\ forecastDict = [x \in Fields |-> NoValue]
  /\ time = 0
  /\ counted = <<>> /\ passed = <<>>
  /\ forecasts = {}

Process == ReadLine \/ AskTime \/ AddDelayAnalysis \/ PrintLine \/ ForecastField \/ Emit
Next == \/ Process \/ Crash \/ Restart
        \/ Sends \/ DeviceRestarts \/ Flush \/ \E x \in Fields : Expires(x)

Spec == Init /\ [][Next]_vars
-----------------------------------------------------------------------------
\* Every value of a forecast line was computed for that line: forecastDict keeps
\* the values of earlier lines, and a field with too few rows is skipped, yet no
\* old value is ever printed again.
ForecastIsFresh ==
  \A e \in forecasts : \A x \in Fields :
     e.value[x].id = e.id /\ e.value[x].rows >= MIN_ROWS

\* A forecast line is printed for a line exactly when all three fields were
\* forecast for it: a field skipped for one line does not silence the next, and
\* one with rows enough does not speak for another without.
ForecastWhenAllFields ==
  pc = "emit" => (forecasted <=> \A x \in Fields : forecastDict[x].id = line.id)

\* The lines passed on to InfluxDB are those the device sent, in order and each
\* at most once, over restarts of the processor.
PassedInOrder ==
  /\ \A i, j \in DOMAIN passed : i < j => passed[i] < passed[j]
  /\ \A i \in DOMAIN pipe : \A j \in DOMAIN passed : passed[j] < pipe[i].id

\* As long as the device has not restarted, no loss is counted exactly when every
\* packet from number 0 on has come.
LossIsNoticed ==
  boots = 0 => (packet_lost = 0 <=> \A i \in DOMAIN counted : counted[i] = i - 1)

\* "PACKET_LOST : " + str(packet_lost) (data_forecasting.py:488): the number is
\* that of the packets that did not come.
LostIsExact ==
  counted # <<>> => packet_lost = counted[Len(counted)] + 1 - Len(counted)
=============================================================================
