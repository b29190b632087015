------------------------------- MODULE Sensors -------------------------------
(***************************************************************************)
(* The drivers of the two sensors, with what they remember between calls:  *)
(* the 40 bits of the last measurement of humidity and temperature         *)
(* (DHT_sensor_library/DHT.cpp) and the three gas values of the MQ-2       *)
(* (MQ2.cpp).  Both compare times of millis(), which starts over.  The     *)
(* times of the pulses of a bit and the curves of the gases are left out.  *)
(***************************************************************************)
EXTENDS Integers, Sequences, FiniteSets

CONSTANTS
  SensorWord,     \* milliseconds after which millis() starts over (2^32)
  MIN_INTERVAL,   \* between two measurements (2000)
  GasInterval,    \* how long a gas value is returned again (10000)
  DhtType,        \* DHTTYPE: 11, 12, 21 or 22
  Measurements,   \* what the sensor may measure: [humidity, temperature] in tenths
  BadBits,        \* bits of it that may be misread: <<byte, bit>>
  Gases,          \* the gas values that are asked for
  Levels,         \* what a gas value may be
  MaxTime         \* bound: milliseconds

ASSUME SensorAssumption ==
  /\ SensorWord \in Nat \ {0} /\ MIN_INTERVAL \in Nat \ {0} /\ GasInterval \in Nat \ {0}
  /\ DhtType \in {11, 12, 21, 22}
  /\ \A m \in Measurements : m.humidity \in 0..1000 /\ m.temperature \in -400..800
  /\ BadBits \subseteq (1..5) \X (0..7) /\ Gases \subseteq {"lpg", "co", "smoke"}
  /\ Levels \subseteq Nat /\ MaxTime \in Nat

VARIABLES
  clock,    \* milliseconds since the start
  dht,      \* [data, lastreadtime, lastresult]
  taken,    \* history: the measurement: its time, what was sent, how it came
  value,    \* what readHumidity() or readTemperature() returned, with what the other
            \* would: [ok, humidity, temperature], where ok is FALSE for NAN
  mq2,      \* the values, lastReadTime, and the static array of read() with the mark
            \* that it has been initialised: [gas, lastReadTime, values, given]
  gas,      \* what the last call of MQ2 returned: [of, level], or the array ("read")
  levels,   \* history: the time of each gas value, and that of the last read()
  first     \* history: what the first read() measured

sensorVars == <<clock, dht, taken, value, mq2, gas, levels, first>>

sensorMillis == clock % SensorWord
NoValue == [ok |-> FALSE, humidity |-> 0, temperature |-> 0]
NoGas == [of |-> "none", level |-> 0]
NoGases == [g \in Gases |-> 0]

(***************************************************************************)
(* DHT.                                                                    *)
(***************************************************************************)
\* What a sensor makes of its measurement: whole degrees and tenths, or the number
\* of tenths; below zero a DHT11 rounds down, the others set a sign bit.
Size(t) == IF t < 0 THEN -t ELSE t
SignBit(t) == IF t < 0 THEN 128 ELSE 0
Encoded(m) ==
  LET h == m.humidity
      t == m.temperature
  IN CASE DhtType = 11 ->
            <<h \div 10, h % 10, IF t < 0 THEN -1 - (t \div 10) ELSE t \div 10,
              SignBit(t) + (t % 10)>>
       [] DhtType = 12 ->
            <<h \div 10, h % 10, SignBit(t) + (Size(t) \div 10), Size(t) % 10>>
       [] OTHER ->
            <<h \div 256, h % 256, SignBit(t) + (Size(t) \div 256), Size(t) % 256>>
CheckSum(b) == (b[1] + b[2] + b[3] + b[4]) % 256
Whole(m) == Append(Encoded(m), CheckSum(Encoded(m)))

\* readHumidity() and readTemperature(), in tenths of a percent and of a degree Celsius.
Humidity(b) == IF DhtType \in {11, 12} THEN 10 * b[1] + b[2] ELSE 256 * b[1] + b[2]
Temperature(b) ==
  CASE DhtType = 11 -> 10 * (IF b[4] >= 128 THEN -1 - b[3] ELSE b[3]) + (b[4] % 16)
    [] DhtType = 12 -> (10 * b[3] + (b[4] % 16)) * (IF b[3] >= 128 THEN -1 ELSE 1)
    [] OTHER -> (256 * (b[3] % 128) + b[4]) * (IF b[3] >= 128 THEN -1 ELSE 1)
Reading(ok, b) ==
  [ok |-> ok, humidity |-> IF ok THEN Humidity(b) ELSE 0,
   temperature |-> IF ok THEN Temperature(b) ELSE 0]

\* A bit whose pulses are misread is the other one.
Bit(n, k) == (n \div 2^k) % 2
Flipped(b, i, k) == [b EXCEPT ![i] = IF Bit(@, k) = 1 THEN @ - 2^k ELSE @ + 2^k]

SumMatches(b) == b[5] = CheckSum(b)

NoBits == [i \in 1..5 |-> 0]
\* (Bug: the difference of the times has a sign.)
RecentlyNoWrap == sensorMillis - dht.lastreadtime < MIN_INTERVAL
Recently == (sensorMillis - dht.lastreadtime) % SensorWord < MIN_INTERVAL

\* read(force): within two seconds the last result again; otherwise 40 bits, or a
\* time-out before or within them.
Measures(data, result, how, m) ==
  /\ dht' = [data |-> data, lastreadtime |-> sensorMillis, lastresult |-> result]
  /\ taken' = [at |-> clock, sent |-> m, how |-> how]
  /\ value' = Reading(result, data)
Returns == value' = Reading(dht.lastresult, dht.data) /\ UNCHANGED <<dht, taken>>

TimesOut(m) == Measures(NoBits, FALSE, "timeout", m)

Read(force) ==
  /\ IF ~ force /\ Recently THEN Returns
     ELSE \E m \in Measurements :
            \/ TimesOut(m)
            \/ Measures(Whole(m), SumMatches(Whole(m)), "whole", m)
            \/ \E bad \in BadBits :
                 LET b == Flipped(Whole(m), bad[1], bad[2])
                 IN Measures(b, SumMatches(b), "flipped", m)
  /\ gas' = NoGas
  /\ UNCHANGED <<clock, mq2, levels, first>>

(***************************************************************************)
(* MQ2.                                                                    *)
(***************************************************************************)
\* read(): three values, one after the other.  It returns a static array, which is
\* initialised the first time and never assigned again.
ReadGases == \E l \in [Gases -> Levels] :
  /\ mq2' = [gas |-> l, lastReadTime |-> sensorMillis,
             values |-> IF mq2.given THEN mq2.values ELSE l, given |-> TRUE]
  /\ levels' = [g \in Gases \cup {"read"} |-> clock]
  /\ first' = IF mq2.given THEN first ELSE l
  /\ gas' = [of |-> "read", level |-> 0] /\ value' = NoValue
  /\ UNCHANGED <<clock, dht, taken>>

\* readLPG(), readCO(), readSmoke(): the last value unless it is 0 or too old.
StillValid == sensorMillis < (mq2.lastReadTime + GasInterval) % SensorWord
ReadGas(g) ==
  /\ IF StillValid /\ mq2.gas[g] # 0
     THEN gas' = [of |-> g, level |-> mq2.gas[g]] /\ UNCHANGED <<mq2, levels>>
     ELSE \E l \in Levels : /\ mq2' = [mq2 EXCEPT !.gas[g] = l]
                            /\ levels' = [levels EXCEPT ![g] = clock]
                            /\ gas' = [of |-> g, level |-> l]
  /\ value' = NoValue
  /\ UNCHANGED <<clock, dht, taken, first>>

SensorTick ==
  /\ clock < MaxTime
  /\ clock' = clock + 1
  /\ value' = NoValue /\ gas' = NoGas
  /\ UNCHANGED <<dht, taken, mq2, levels, first>>

\* begin(): a first measurement is due at once.
SensorInit ==
  /\ clock = 0
  /\ dht = [data |-> NoBits, lastreadtime |-> (-MIN_INTERVAL) % SensorWord,
            lastresult |-> FALSE]
  /\ taken = [at |-> -MIN_INTERVAL, sent |-> [humidity |-> 0, temperature |-> 0], how |-> "none"]
  /\ value = NoValue
  /\ mq2 = [gas |-> NoGases, lastReadTime |-> 0, values |-> NoGases, given |-> FALSE]
  /\ first = NoGases
  /\ gas = NoGas
  /\ levels = [g \in Gases \cup {"read"} |-> 0]

DhtNext == (\E force \in BOOLEAN : Read(force)) \/ SensorTick
Mq2Next == ReadGases \/ (\E g \in Gases : ReadGas(g)) \/ SensorTick
SensorNext == DhtNext \/ Mq2Next

SensorSpec == SensorInit /\ [][SensorNext]_sensorVars

(***************************************************************************)
(* Properties.                                                             *)
(***************************************************************************)
\* Humidity and temperature are those of a measurement, below zero too: no time-out and
\* no misread bit passes for one, however soon the next call comes.  (A DHT12 below zero
\* is read with its sign bit, 128 degrees too low.)  They are at most two seconds old,
\* across the end of the word of millis(), as long as somebody reads within each of its
\* turns.
ValueIsReal ==
  value.ok => /\ taken.how = "whole" /\ value.humidity = taken.sent.humidity
              /\ DhtType # 12 \/ taken.sent.temperature >= 0
                   => value.temperature = taken.sent.temperature
              /\ clock - taken.at < SensorWord => clock - taken.at < MIN_INTERVAL

\* What readLPG(), readCO() and readSmoke() return is at most ten seconds old, unless
\* millis() has started over since the last read() (then it may be returned for
\* another turn of millis()).
GasIsFresh ==
  gas.of \in Gases /\ clock \div SensorWord = levels["read"] \div SensorWord
    => clock - levels[gas.of] < GasInterval

\* The array read() returns holds the first measurement since the start, however many
\* read() has made since: it is not fresh, and the sketch does not look at it.
ReadIsTheFirst == gas.of = "read" => mq2.values = first

ReadingsAreReal == ValueIsReal /\ GasIsFresh /\ ReadIsTheFirst
=============================================================================
