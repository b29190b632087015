---------------------------- MODULE Clocks_proof ----------------------------
(***************************************************************************)
(* Proofs about the two libraries that compare times of millis(), which    *)
(* starts over: what the sensors return is a measurement, and a fresh one, *)
(* and the clock set by an answer is near the true time, for any size of   *)
(* the words, any interval and any number of calls.                        *)
(***************************************************************************)
EXTENDS NtpClock, Sensors, SequenceTheorems, TLAPS

-----------------------------------------------------------------------------
(* Numbers that start over.                                                *)

\* The quotient and the rest.
LEMMA DivisionParts ==
  ASSUME NEW a \in Int, NEW n \in Nat \ {0}
  PROVE  a % n \in 0..(n - 1) /\ a \div n \in Int /\ a = (n * (a \div n)) + (a % n)
OBVIOUS

\* They are what they are by their sizes.
LEMMA DivisionIs ==
  ASSUME NEW n \in Nat \ {0}, NEW q \in Int, NEW r \in 0..(n - 1)
  PROVE  ((n * q) + r) % n = r /\ ((n * q) + r) \div n = q
OBVIOUS

\* Whole turns do not matter, nor does it when a number starts over before others are
\* added to it or taken from it.
LEMMA TurnsGo ==
  ASSUME NEW n \in Nat \ {0}, NEW a \in Int, NEW q \in Int
  PROVE  (a + (n * q)) % n = a % n /\ (a + (n * q)) \div n = (a \div n) + q
<1>1. a % n \in 0..(n - 1) /\ a \div n \in Int /\ a = (n * (a \div n)) + (a % n)
  BY DivisionParts
<1>2. (a \div n) + q \in Int /\ a + (n * q) = (n * ((a \div n) + q)) + (a % n)
  BY <1>1
<1> QED BY <1>1, <1>2, DivisionIs

LEMMA SameRest ==
  ASSUME NEW n \in Nat \ {0}, NEW a \in Int, NEW b \in Int, NEW q \in Int, a = b + (n * q)
  PROVE  a % n = b % n
BY TurnsGo

LEMMA RestOfSum ==
  ASSUME NEW n \in Nat \ {0}, NEW a \in Int, NEW b \in Int
  PROVE  /\ ((a % n) + b) % n = (a + b) % n
         /\ ((a % n) - b) % n = (a - b) % n
         /\ (a - (b % n)) % n = (a - b) % n
         /\ ((a % n) - (b % n)) % n = (a - b) % n
<1>1. PICK q \in Int, r \in 0..(n - 1) : a % n = r /\ a = (n * q) + r
  BY DivisionParts
<1>2. PICK p \in Int, s \in 0..(n - 1) : b % n = s /\ b = (n * p) + s
  BY DivisionParts
<1>3. n * (-q) = -(n * q) /\ -q \in Int /\ n * q \in Int /\ n * p \in Int
  OBVIOUS
<1>4. (r + b) % n = (a + b) % n
  <2>1. r + b = (a + b) + (n * (-q)) /\ a + b \in Int /\ r + b \in Int
    BY <1>1, <1>3
  <2> QED BY <1>3, <2>1, SameRest, Zenon
<1>5. \A c \in Int : (c - s) % n = (c - b) % n
  <2> TAKE c \in Int
  <2>1. c - s = (c - b) + (n * p) /\ c - b \in Int /\ c - s \in Int
    BY <1>2, <1>3
  <2> QED BY <2>1, SameRest, Zenon
<1>6. (r - s) % n = (a - b) % n /\ (r - b) % n = (a - b) % n
  <2>1. r - b = (a - b) + (n * (-q)) /\ a - b \in Int /\ r - b \in Int /\ r \in Int
    BY <1>1, <1>3
  <2>2. (r - b) % n = (a - b) % n
    BY <1>3, <2>1, SameRest, Zenon
  <2> QED BY <1>5, <2>1, <2>2
<1> QED BY <1>1, <1>2, <1>4, <1>5, <1>6

\* A difference of less than a turn is its own rest.
LEMMA LessThanATurn ==
  ASSUME NEW n \in Nat \ {0}, NEW a \in 0..(n - 1)
  PROVE  a % n = a
OBVIOUS

-----------------------------------------------------------------------------
(* The sensors.                                                            *)

\* What a bit weighs.
LEMMA Weights ==
  ASSUME NEW k \in 0..7
  PROVE  2^k \in 1..128
<1>1. 2^0 = 1 /\ 2^1 = 2 /\ 2^2 = 4 /\ 2^3 = 8 /\ 2^4 = 16 /\ 2^5 = 32 /\ 2^6 = 64 /\ 2^7 = 128
  OBVIOUS
<1>2. \A i \in 0..7 : k = i => 2^k = 2^i
  BY Zenon
<1>3. k = 0 \/ k = 1 \/ k = 2 \/ k = 3 \/ k = 4 \/ k = 5 \/ k = 6 \/ k = 7
  OBVIOUS
<1>4. \E i \in 0..7 : k = i /\ 2^i \in 1..128
  BY <1>1, <1>3
<1> QED BY <1>2, <1>4

\* What is sent of a measurement: four numbers and their sum.
LEMMA WholeBytes ==
  ASSUME NEW m \in Measurements
  PROVE  /\ Whole(m) \in [1..5 -> Int]
         /\ Whole(m)[5] = CheckSum(Whole(m))
         /\ \A i \in 1..4 : Whole(m)[i] = Encoded(m)[i]
<1>1. m.humidity \in 0..1000 /\ m.temperature \in -400..800
  BY SensorAssumption
<1>2. PICK e1 \in Int, e2 \in Int, e3 \in Int, e4 \in Int : Encoded(m) = <<e1, e2, e3, e4>>
  <2> DEFINE h == m.humidity
             t == m.temperature
  <2>0. h \in 0..1000 /\ t \in -400..800
    BY <1>1, Zenon
  <2> HIDE DEF h, t
  <2>1. h \in Int /\ t \in Int
    BY <2>0
  <2>2. /\ h \div 10 \in Int /\ h % 10 \in Int /\ t \div 10 \in Int /\ t % 10 \in Int
        /\ h \div 256 \in Int /\ h % 256 \in Int /\ Size(t) \in Int /\ SignBit(t) \in Int
    BY <2>1 DEF Size, SignBit
  <2>3. /\ Size(t) \div 10 \in Int /\ Size(t) % 10 \in Int
        /\ Size(t) \div 256 \in Int /\ Size(t) % 256 \in Int
    BY <2>2
  <2>4. CASE DhtType = 11
    <3>1. Encoded(m) = <<h \div 10, h % 10, IF t < 0 THEN -1 - (t \div 10) ELSE t \div 10,
                         SignBit(t) + (t % 10)>>
      BY <2>4 DEF Encoded, h, t
    <3>2. (IF t < 0 THEN -1 - (t \div 10) ELSE t \div 10) \in Int /\ SignBit(t) + (t % 10) \in Int
      BY <2>1, <2>2
    <3> QED BY <2>2, <3>1, <3>2
  <2>5. CASE DhtType = 12
    <3>1. Encoded(m) = <<h \div 10, h % 10, SignBit(t) + (Size(t) \div 10), Size(t) % 10>>
      BY <2>5 DEF Encoded, h, t
    <3> QED BY <2>2, <2>3, <3>1
  <2>6. CASE DhtType # 11 /\ DhtType # 12
    <3>1. Encoded(m) = <<h \div 256, h % 256, SignBit(t) + (Size(t) \div 256), Size(t) % 256>>
      BY <2>6 DEF Encoded, h, t
    <3> QED BY <2>2, <2>3, <3>1
  <2> QED BY <2>4, <2>5, <2>6
<1>3. PICK s \in Int : CheckSum(Encoded(m)) = s
  BY <1>2 DEF CheckSum
<1>4. PICK w : w = Append(<<e1, e2, e3, e4>>, s)
  OBVIOUS
<1>5. /\ w \in Seq(Int) /\ Len(w) = 5
      /\ w[1] = e1 /\ w[2] = e2 /\ w[3] = e3 /\ w[4] = e4 /\ w[5] = s
  BY <1>4
<1>6. w \in [1..5 -> Int]
  BY <1>5, LenProperties
<1>7. Whole(m) = w
  BY <1>2, <1>3, <1>4, Zenon DEF Whole
<1>8. CheckSum(w) = s
  BY <1>2, <1>3, <1>5 DEF CheckSum
<1>9. \A i \in 1..4 : w[i] = <<e1, e2, e3, e4>>[i]
  BY <1>5
<1> QED BY <1>2, <1>3, <1>5, <1>6, <1>7, <1>8, <1>9, Zenon

\* One misread bit shows in the sum.
LEMMA MisreadShows ==
  ASSUME NEW m \in Measurements, NEW bad \in BadBits
  PROVE  ~ SumMatches(Flipped(Whole(m), bad[1], bad[2]))
<1> DEFINE b == Whole(m)
           i == bad[1]
           p == 2^(bad[2])
           c == Flipped(b, i, bad[2])
<1>1. i \in 1..5 /\ bad[2] \in 0..7
  BY SensorAssumption
<1>2. p \in 1..128
  BY <1>1, Weights
<1>3. b \in [1..5 -> Int] /\ b[5] = CheckSum(b)
  BY WholeBytes
<1>4. PICK d \in Int : /\ d # 0 /\ -128 <= d /\ d <= 128
                       /\ c = [b EXCEPT ![i] = @ + d]
  <2>1. c = [b EXCEPT ![i] = b[i] - p] \/ c = [b EXCEPT ![i] = b[i] + p]
    BY Zenon DEF Flipped
  <2>2. b[i] - p = b[i] + (-p) /\ -p \in Int /\ p \in Int
    BY <1>1, <1>2, <1>3
  <2>3. CASE c = [b EXCEPT ![i] = b[i] - p]
    <3>1. c = [b EXCEPT ![i] = @ + (-p)]
      BY <2>2, <2>3, Zenon
    <3>2. -p # 0 /\ -128 <= -p /\ -p <= 128
      BY <1>2
    <3> QED BY <2>2, <3>1, <3>2, Zenon
  <2>4. CASE c = [b EXCEPT ![i] = b[i] + p]
    <3>1. c = [b EXCEPT ![i] = @ + p]
      BY <2>4, Zenon
    <3>2. p # 0 /\ -128 <= p /\ p <= 128
      BY <1>2
    <3> QED BY <2>2, <3>1, <3>2, Zenon
  <2> QED BY <2>1, <2>3, <2>4
<1> HIDE DEF b, c
<1>5. c \in [1..5 -> Int] /\ c[i] = b[i] + d /\ \A j \in 1..5 : j # i => c[j] = b[j]
  BY <1>1, <1>3, <1>4
<1>6. CASE i = 5
  <2>1. CheckSum(c) = CheckSum(b)
    BY <1>5, <1>6 DEF CheckSum
  <2> QED BY <1>3, <1>4, <1>5, <1>6, <2>1 DEF SumMatches, c, b
<1>7. CASE i # 5
  <2> DEFINE x == b[1] + b[2] + b[3] + b[4]
  <2>1. x \in Int /\ c[1] + c[2] + c[3] + c[4] = x + d
    BY <1>1, <1>3, <1>5, <1>7
  <2>2. CheckSum(b) = x % 256 /\ CheckSum(c) = (x + d) % 256
    BY <2>1 DEF CheckSum
  <2>3. c[5] = x % 256
    BY <1>3, <1>5, <1>7, <2>2
  <2> HIDE DEF x
  <2>4. (x + d) % 256 # x % 256
    BY <1>4, <2>1
  <2> QED BY <2>2, <2>3, <2>4 DEF SumMatches, c, b
<1> QED BY <1>6, <1>7

\* The readers undo what the sensor did.
LEMMA ReadersUndo ==
  ASSUME NEW m \in Measurements
  PROVE  /\ Humidity(Whole(m)) = m.humidity
         /\ DhtType # 12 \/ m.temperature >= 0 => Temperature(Whole(m)) = m.temperature
<1> DEFINE h == m.humidity
           t == m.temperature
           b == Whole(m)
<1>1. h \in 0..1000 /\ t \in -400..800
  BY SensorAssumption
<1>2. \A i \in 1..4 : b[i] = Encoded(m)[i]
  BY WholeBytes
<1> HIDE DEF b, h, t
<1>3. CASE DhtType = 11
  <2>1. Encoded(m) = <<h \div 10, h % 10, IF t < 0 THEN -1 - (t \div 10) ELSE t \div 10,
                       SignBit(t) + (t % 10)>>
    BY <1>3 DEF Encoded, h, t
  <2>2. /\ b[1] = h \div 10 /\ b[2] = h % 10 /\ b[4] = SignBit(t) + (t % 10)
        /\ b[3] = IF t < 0 THEN -1 - (t \div 10) ELSE t \div 10
    BY <1>2, <2>1
  <2>3. Humidity(b) = (10 * (h \div 10)) + (h % 10)
    BY <1>3, <2>2 DEF Humidity
  <2>4. Temperature(b) = (10 * (IF b[4] >= 128 THEN -1 - b[3] ELSE b[3])) + (b[4] % 16)
    BY <1>3 DEF Temperature
  <2>5. CASE t < 0
    <3>1. b[4] = 128 + (t % 10) /\ b[3] = -1 - (t \div 10)
      BY <1>1, <2>2, <2>5 DEF SignBit
    <3>2. b[4] >= 128 /\ b[4] % 16 = t % 10 /\ -1 - b[3] = t \div 10
      BY <1>1, <3>1
    <3>3. Humidity(b) = h /\ Temperature(b) = t
      BY <1>1, <2>3, <2>4, <3>2
    <3> QED BY <3>3, Zenon DEF b, h, t
  <2>6. CASE t >= 0
    <3>1. b[4] = t % 10 /\ b[3] = t \div 10
      BY <1>1, <2>2, <2>6 DEF SignBit
    <3>2. ~ b[4] >= 128 /\ b[4] % 16 = t % 10
      BY <1>1, <3>1
    <3>3. Humidity(b) = h /\ Temperature(b) = t
      BY <1>1, <2>3, <2>4, <3>1, <3>2
    <3> QED BY <3>3, Zenon DEF b, h, t
  <2> QED BY <1>1, <2>5, <2>6
<1>4. CASE DhtType = 12
  <2>1. Encoded(m) = <<h \div 10, h % 10, SignBit(t) + (Size(t) \div 10), Size(t) % 10>>
    BY <1>4 DEF Encoded, h, t
  <2>2. /\ b[1] = h \div 10 /\ b[2] = h % 10 /\ b[4] = Size(t) % 10
        /\ b[3] = SignBit(t) + (Size(t) \div 10)
    BY <1>2, <2>1
  <2>3. Humidity(b) = (10 * (h \div 10)) + (h % 10)
    BY <1>4, <2>2 DEF Humidity
  <2>4. ASSUME t >= 0 PROVE Temperature(b) = t
    <3>1. b[4] = t % 10 /\ b[3] = t \div 10
      BY <1>1, <2>2, <2>4 DEF SignBit, Size
    <3>2. ~ b[3] >= 128 /\ b[4] % 16 = t % 10 /\ (10 * b[3]) + (b[4] % 16) = t
      BY <1>1, <3>1
    <3>3. Temperature(b) = ((10 * b[3]) + (b[4] % 16)) * (IF b[3] >= 128 THEN -1 ELSE 1)
      BY <1>4 DEF Temperature
    <3> QED BY <1>1, <3>2, <3>3
  <2>5. Humidity(b) = h
    BY <1>1, <2>3
  <2>6. DhtType # 12 \/ t >= 0 => Temperature(b) = t
    BY <1>4, <2>4, Zenon
  <2> QED BY <2>5, <2>6, Zenon DEF b, h, t
<1>5. CASE DhtType \notin {11, 12}
  <2>1. Encoded(m) = <<h \div 256, h % 256, SignBit(t) + (Size(t) \div 256), Size(t) % 256>>
    BY <1>5 DEF Encoded, h, t
  <2>2. /\ b[1] = h \div 256 /\ b[2] = h % 256 /\ b[4] = Size(t) % 256
        /\ b[3] = SignBit(t) + (Size(t) \div 256)
    BY <1>2, <2>1
  <2>3. Humidity(b) = (256 * (h \div 256)) + (h % 256)
    BY <1>5, <2>2 DEF Humidity
  <2>4. Temperature(b) = ((256 * (b[3] % 128)) + b[4]) * (IF b[3] >= 128 THEN -1 ELSE 1)
    BY <1>5 DEF Temperature
  <2>5. PICK z \in 0..800 : Size(t) = z /\ (t < 0 => t = -z) /\ (t >= 0 => t = z)
    BY <1>1 DEF Size
  <2>6. z \div 256 \in 0..3 /\ z = (256 * (z \div 256)) + (z % 256)
    BY <2>5
  <2>7. b[3] % 128 = z \div 256 /\ (b[3] >= 128 <=> t < 0) /\ b[4] = z % 256
    <3>1. PICK k \in 0..3 : k = z \div 256
      BY <2>6
    <3>2. t \in Int /\ b[4] = z % 256 /\ b[3] = SignBit(t) + k
      BY <1>1, <2>2, <2>5, <3>1
    <3>3. CASE t < 0
      <4>1. b[3] = 128 + k
        BY <3>2, <3>3 DEF SignBit
      <4> QED BY <3>1, <3>2, <3>3, <4>1
    <3>4. CASE ~ t < 0
      <4>1. b[3] = k
        BY <3>2, <3>4 DEF SignBit
      <4> QED BY <3>1, <3>2, <3>4, <4>1
    <3> QED BY <3>3, <3>4
  <2>8. Temperature(b) = z * (IF t < 0 THEN -1 ELSE 1)
    BY <2>4, <2>6, <2>7
  <2>9. Temperature(b) = t
    BY <1>1, <2>5, <2>8
  <2>10. Humidity(b) = h
    BY <1>1, <2>3
  <2> QED BY <2>9, <2>10, Zenon DEF b, h, t
<1> QED BY <1>3, <1>4, <1>5

\* The last result is kept with its measurement and the time of it.
DhtInv ==
  /\ clock \in Nat
  /\ taken.at \in Int /\ taken.at <= clock
  /\ dht.lastreadtime = taken.at % SensorWord
  /\ dht.lastresult \in BOOLEAN
  /\ dht.lastresult => /\ taken.how = "whole" /\ taken.sent \in Measurements
                       /\ dht.data = Whole(taken.sent)
  /\ value.ok \in BOOLEAN
  /\ ValueIsReal

\* What the driver of the MQ-2 keeps, the array of read() among it.
GasFields == [gas : [Gases -> Nat], lastReadTime : Int, values : [Gases -> Nat],
              given : BOOLEAN]

\* No gas value is older than the last read(), and the array is that of the first.
GasInv ==
  /\ mq2 \in GasFields
  /\ levels \in [Gases \cup {"read"} -> Int]
  /\ \A g \in Gases \cup {"read"} : levels["read"] <= levels[g] /\ levels[g] <= clock
  /\ mq2.lastReadTime = levels["read"] % SensorWord
  /\ gas.of \in Gases \cup {"none", "read"}
  /\ gas.of = "read" => mq2.given
  /\ mq2.given => mq2.values = first
  /\ GasIsFresh

SensorInv == DhtInv /\ GasInv

LEMMA SensorInitial == SensorInit => SensorInv
<1> SUFFICES ASSUME SensorInit PROVE SensorInv
  OBVIOUS
<1>1. clock = 0 /\ taken.at = -MIN_INTERVAL /\ dht.lastreadtime = (-MIN_INTERVAL) % SensorWord
  BY DEF SensorInit
<1>2. dht.lastresult = FALSE /\ value.ok = FALSE /\ gas.of = "none"
  BY DEF SensorInit, NoValue, NoGas
<1>3. -MIN_INTERVAL \in Int /\ -MIN_INTERVAL <= 0
  BY SensorAssumption
<1>4. mq2 \in GasFields /\ mq2.lastReadTime = 0 /\ ~ mq2.given
  BY DEF SensorInit, GasFields, NoGases
<1>5. /\ levels \in [Gases \cup {"read"} -> Int]
      /\ \A g \in Gases \cup {"read"} : levels[g] = 0
  BY DEF SensorInit
<1>6. 0 % SensorWord = 0
  BY SensorAssumption, LessThanATurn
<1>7. DhtInv
  BY <1>1, <1>2, <1>3 DEF DhtInv, ValueIsReal
<1>8. GasInv
  BY <1>1, <1>2, <1>4, <1>5, <1>6, SensorAssumption DEF GasInv, GasIsFresh
<1> QED BY <1>7, <1>8 DEF SensorInv

\* A result that is returned again is of less than two seconds ago.
LEMMA RecentIsRecent ==
  ASSUME DhtInv, Recently, clock - taken.at < SensorWord
  PROVE  clock - taken.at < MIN_INTERVAL
<1>1. SensorWord \in Nat \ {0} /\ MIN_INTERVAL \in Nat /\ clock \in Int /\ taken.at \in Int
  BY SensorAssumption DEF DhtInv
<1>2. clock - taken.at \in 0..(SensorWord - 1)
  BY <1>1 DEF DhtInv
<1>3. ((clock % SensorWord) - (taken.at % SensorWord)) % SensorWord = (clock - taken.at) % SensorWord
  BY <1>1, RestOfSum, Zenon
<1>4. (clock - taken.at) % SensorWord = clock - taken.at
  BY <1>1, <1>2, LessThanATurn
<1> QED BY <1>3, <1>4 DEF Recently, sensorMillis, DhtInv

\* A gas value that is returned again was read less than ten seconds ago.
LEMMA ValidIsRecent ==
  ASSUME DhtInv, GasInv, StillValid,
         clock \div SensorWord = levels["read"] \div SensorWord
  PROVE  clock - levels["read"] < GasInterval
<1> DEFINE W == SensorWord
           l == levels["read"]
<1>1. W \in Nat \ {0} /\ clock \in Int /\ l \in Int /\ GasInterval \in Nat
  BY SensorAssumption DEF DhtInv, GasInv
<1>2. clock % W < ((l % W) + GasInterval) % W
  BY DEF StillValid, GasInv, sensorMillis
<1> HIDE DEF W, l
<1>3. PICK q \in Int, r \in 0..(W - 1) : r = clock % W /\ q = clock \div W /\ clock = (W * q) + r
  <2>1. clock % W \in 0..(W - 1) /\ clock \div W \in Int
        /\ clock = (W * (clock \div W)) + (clock % W)
    BY <1>1, DivisionParts, Zenon
  <2> QED BY <2>1, Zenon
<1>4. PICK p \in Int, s \in 0..(W - 1) : s = l % W /\ p = l \div W /\ l = (W * p) + s
  <2>1. l % W \in 0..(W - 1) /\ l \div W \in Int /\ l = (W * (l \div W)) + (l % W)
    BY <1>1, DivisionParts, Zenon
  <2> QED BY <2>1, Zenon
<1>5. q = p
  BY <1>3, <1>4 DEF W, l
<1>6. clock - l = r - s
  BY <1>1, <1>3, <1>4, <1>5
<1>7. PICK x \in Nat : x = s + GasInterval
  BY <1>1, <1>4
<1>8. x % W <= x
  BY <1>1, <1>7
<1>9. r < x
  BY <1>1, <1>2, <1>3, <1>4, <1>7, <1>8
<1> QED BY <1>1, <1>6, <1>7, <1>9 DEF l

LEMMA Reading1 ==
  ASSUME NEW ok \in BOOLEAN, NEW b
  PROVE  /\ Reading(ok, b).ok = ok
         /\ ok => /\ Reading(ok, b).humidity = Humidity(b)
                  /\ Reading(ok, b).temperature = Temperature(b)
BY DEF Reading

\* A new measurement.
LEMMA MeasuringKeepsInv ==
  ASSUME DhtInv, UNCHANGED clock, NEW m \in Measurements, NEW data, NEW how, NEW result \in BOOLEAN,
         Measures(data, result, how, m),
         result => how = "whole" /\ data = Whole(m)
  PROVE  DhtInv'
<1>1. /\ dht'.data = data /\ dht'.lastreadtime = clock % SensorWord /\ dht'.lastresult = result
      /\ taken'.at = clock /\ taken'.sent = m /\ taken'.how = how
      /\ value' = Reading(result, data)
  BY DEF Measures, sensorMillis
<1>2. value'.ok = result
  BY <1>1, Reading1
<1>3. ASSUME result
      PROVE  /\ value'.humidity = m.humidity
             /\ DhtType # 12 \/ m.temperature >= 0 => value'.temperature = m.temperature
  <2>1. Humidity(data) = m.humidity
        /\ (DhtType # 12 \/ m.temperature >= 0 => Temperature(data) = m.temperature)
    BY <1>3, ReadersUndo, Zenon
  <2> QED BY <1>1, <1>3, <2>1, Reading1, Zenon
<1>4. clock \in Nat /\ clock' = clock /\ clock - clock = 0 /\ 0 < MIN_INTERVAL
  BY SensorAssumption DEF DhtInv
<1>5. ValueIsReal'
  BY <1>1, <1>2, <1>3, <1>4 DEF ValueIsReal
<1> QED BY <1>1, <1>2, <1>4, <1>5 DEF DhtInv

LEMMA ReadKeepsInv ==
  ASSUME SensorInv, NEW force \in BOOLEAN, Read(force)
  PROVE  SensorInv'
<1>1. DhtInv /\ GasInv
  BY DEF SensorInv
<1>2. gas'.of = "none" /\ UNCHANGED <<clock, mq2, levels, first>>
  BY DEF Read, NoGas
<1>3. GasInv'
  BY <1>1, <1>2, SensorAssumption DEF GasInv, GasIsFresh
<1>4. CASE ~ force /\ Recently
  <2>1. value' = Reading(dht.lastresult, dht.data) /\ UNCHANGED <<dht, taken>>
    BY <1>4 DEF Read, Returns
  <2>2. dht.lastresult \in BOOLEAN
    BY <1>1 DEF DhtInv
  <2>3. value'.ok = dht.lastresult
    BY <2>1, <2>2, Reading1
  <2>4. ASSUME dht.lastresult
        PROVE  /\ value'.humidity = taken.sent.humidity
               /\ DhtType # 12 \/ taken.sent.temperature >= 0
                    => value'.temperature = taken.sent.temperature
    <3>1. taken.sent \in Measurements /\ dht.data = Whole(taken.sent)
      BY <1>1, <2>4 DEF DhtInv
    <3>2. Humidity(dht.data) = taken.sent.humidity
          /\ (DhtType # 12 \/ taken.sent.temperature >= 0
                 => Temperature(dht.data) = taken.sent.temperature)
      BY <3>1, ReadersUndo, Zenon
    <3> QED BY <2>1, <2>2, <2>4, <3>2, Reading1, Zenon
  <2>5. clock - taken.at < SensorWord => clock - taken.at < MIN_INTERVAL
    BY <1>1, <1>4, RecentIsRecent
  <2>6. ValueIsReal'
    BY <1>1, <1>2, <2>1, <2>3, <2>4, <2>5 DEF ValueIsReal, DhtInv
  <2>7. DhtInv'
    BY <1>1, <1>2, <2>1, <2>2, <2>3, <2>6 DEF DhtInv
  <2> QED BY <1>3, <2>7 DEF SensorInv
<1>5. CASE force \/ ~ Recently
  <2>1. PICK m \in Measurements :
          \/ TimesOut(m)
          \/ Measures(Whole(m), SumMatches(Whole(m)), "whole", m)
          \/ \E bad \in BadBits :
               Measures(Flipped(Whole(m), bad[1], bad[2]),
                        SumMatches(Flipped(Whole(m), bad[1], bad[2])), "flipped", m)
    BY <1>5, Zenon DEF Read
  <2>2. CASE TimesOut(m)
    <3>1. Measures(NoBits, FALSE, "timeout", m)
      BY <2>2 DEF TimesOut
    <3> QED BY <1>1, <1>2, <1>3, <3>1, MeasuringKeepsInv DEF SensorInv
  <2>3. CASE Measures(Whole(m), SumMatches(Whole(m)), "whole", m)
    <3>1. SumMatches(Whole(m)) \in BOOLEAN
      BY DEF SumMatches
    <3> QED BY <1>1, <1>2, <1>3, <2>3, <3>1, MeasuringKeepsInv DEF SensorInv
  <2>4. ASSUME NEW bad \in BadBits,
               Measures(Flipped(Whole(m), bad[1], bad[2]),
                        SumMatches(Flipped(Whole(m), bad[1], bad[2])), "flipped", m)
        PROVE  SensorInv'
    <3>1. SumMatches(Flipped(Whole(m), bad[1], bad[2])) = FALSE
      BY MisreadShows DEF SumMatches
    <3>2. Measures(Flipped(Whole(m), bad[1], bad[2]), FALSE, "flipped", m)
      BY <2>4, <3>1
    <3> QED BY <1>1, <1>2, <1>3, <3>2, MeasuringKeepsInv DEF SensorInv
  <2> QED BY <2>1, <2>2, <2>3, <2>4
<1> QED BY <1>4, <1>5

\* What the other calls leave of the last measurement.
LEMMA NoReadKeepsDht ==
  ASSUME DhtInv, UNCHANGED <<dht, taken>>, clock' \in Nat, clock <= clock', value' = NoValue
  PROVE  DhtInv'
BY DEF DhtInv, ValueIsReal, NoValue

LEMMA SensorStep == SensorInv /\ [SensorNext]_sensorVars => SensorInv'
<1> SUFFICES ASSUME SensorInv, [SensorNext]_sensorVars PROVE SensorInv'
  OBVIOUS
<1>0. DhtInv /\ GasInv /\ clock \in Nat
  BY DEF SensorInv, DhtInv
<1>1. ASSUME NEW force \in BOOLEAN, Read(force) PROVE SensorInv'
  BY <1>1, ReadKeepsInv
<1>2. CASE ReadGases
  <2>1. PICK l \in [Gases -> Levels] :
          /\ mq2' = [gas |-> l, lastReadTime |-> clock % SensorWord,
                     values |-> IF mq2.given THEN mq2.values ELSE l, given |-> TRUE]
          /\ levels' = [g \in Gases \cup {"read"} |-> clock]
          /\ first' = IF mq2.given THEN first ELSE l
          /\ gas'.of = "read" /\ value' = NoValue /\ UNCHANGED <<clock, dht, taken>>
    <3>1. PICK l \in [Gases -> Levels] :
            /\ mq2' = [gas |-> l, lastReadTime |-> clock % SensorWord,
                       values |-> IF mq2.given THEN mq2.values ELSE l, given |-> TRUE]
            /\ levels' = [g \in Gases \cup {"read"} |-> clock]
            /\ first' = IF mq2.given THEN first ELSE l
            /\ gas' = [of |-> "read", level |-> 0] /\ value' = NoValue
            /\ UNCHANGED <<clock, dht, taken>>
      BY <1>2, Zenon DEF ReadGases, sensorMillis
    <3>2. gas'.of = "read"
      BY <3>1
    <3> QED BY <3>1, <3>2, Zenon
  <2>0. Levels \subseteq Nat /\ SensorWord \in Nat \ {0}
    BY SensorAssumption
  <2>2. clock % SensorWord \in Int /\ l \in [Gases -> Nat]
    <3>1. clock % SensorWord \in Int
      BY <1>0, <2>0
    <3> QED BY <2>0, <3>1
  <2>3. mq2' \in GasFields /\ (mq2'.given => mq2'.values = first')
    BY <1>0, <2>1, <2>2 DEF GasInv, GasFields
  <2>4. GasInv'
    BY <1>0, <2>1, <2>2, <2>3, SensorAssumption DEF GasInv, GasIsFresh
  <2>5. DhtInv'
    BY <1>0, <2>1, NoReadKeepsDht
  <2> QED BY <2>4, <2>5 DEF SensorInv
<1>3. ASSUME NEW g \in Gases, ReadGas(g) PROVE SensorInv'
  <2>1. value' = NoValue /\ UNCHANGED <<clock, dht, taken, first>>
    BY <1>3 DEF ReadGas
  <2>2. DhtInv'
    BY <1>0, <2>1, NoReadKeepsDht
  <2>3. g # "none" /\ g # "read"
    BY SensorAssumption
  <2>4. CASE StillValid /\ mq2.gas[g] # 0
    <3>1. gas'.of = g /\ UNCHANGED <<mq2, levels>>
      BY <1>3, <2>4 DEF ReadGas
    <3>2. clock \div SensorWord = levels["read"] \div SensorWord
            => clock - levels["read"] < GasInterval
      BY <1>0, <2>4, ValidIsRecent
    <3>3. levels[g] \in Int /\ levels["read"] \in Int /\ levels["read"] <= levels[g]
      BY <1>0 DEF GasInv
    <3>4. GasIsFresh'
      BY <1>0, <2>1, <3>1, <3>2, <3>3, SensorAssumption DEF GasIsFresh
    <3> QED BY <1>0, <2>1, <2>2, <2>3, <3>1, <3>4 DEF GasInv, SensorInv
  <2>5. CASE ~ (StillValid /\ mq2.gas[g] # 0)
    <3>1. PICK l \in Levels : /\ mq2' = [mq2 EXCEPT !.gas[g] = l]
                             /\ levels' = [levels EXCEPT ![g] = clock]
                             /\ gas' = [of |-> g, level |-> l]
      BY <1>3, <2>5 DEF ReadGas
    <3>2. /\ mq2' \in GasFields /\ mq2'.lastReadTime = mq2.lastReadTime
          /\ mq2'.values = mq2.values /\ mq2'.given = mq2.given
      <4>1. l \in Nat
        BY SensorAssumption
      <4>2. mq2 \in GasFields
        BY <1>0 DEF GasInv
      <4>3. PICK f \in [Gases -> Nat] : f = [mq2.gas EXCEPT ![g] = l]
        BY <4>1, <4>2 DEF GasFields
      <4>4. mq2' = [mq2 EXCEPT !.gas = f]
        BY <3>1, <4>3, Zenon
      <4> QED BY <4>2, <4>4 DEF GasFields
    <3>3. /\ levels' \in [Gases \cup {"read"} -> Int] /\ levels'[g] = clock
          /\ \A h \in Gases \cup {"read"} : h # g => levels'[h] = levels[h]
      BY <1>0, <3>1 DEF GasInv
    <3>4. \A h \in Gases \cup {"read"} : levels'["read"] <= levels'[h] /\ levels'[h] <= clock'
      BY <1>0, <2>1, <2>3, <3>3 DEF GasInv
    <3>5. GasIsFresh'
      BY <1>0, <2>1, <3>1, <3>3, SensorAssumption DEF GasIsFresh
    <3>6. mq2'.lastReadTime = levels'["read"] % SensorWord
      BY <1>0, <2>3, <3>2, <3>3 DEF GasInv
    <3> QED BY <1>0, <2>1, <2>2, <2>3, <3>1, <3>2, <3>3, <3>4, <3>5, <3>6 DEF GasInv, SensorInv
  <2> QED BY <2>4, <2>5
<1>4. CASE SensorTick
  <2>1. /\ clock' = clock + 1 /\ value' = NoValue /\ gas'.of = "none"
        /\ UNCHANGED <<dht, taken, mq2, levels, first>>
    BY <1>4 DEF SensorTick, NoGas
  <2>2. DhtInv'
    BY <1>0, <2>1, NoReadKeepsDht
  <2>3. GasInv'
    BY <1>0, <2>1, SensorAssumption DEF GasInv, GasIsFresh
  <2> QED BY <2>2, <2>3 DEF SensorInv
<1>5. CASE UNCHANGED sensorVars
  BY <1>0, <1>5 DEF sensorVars, SensorInv, DhtInv, GasInv, ValueIsReal, GasIsFresh
<1> QED BY <1>1, <1>2, <1>3, <1>4, <1>5 DEF SensorNext, DhtNext, Mq2Next

\* What the sensors return is a measurement, undone as it was sent, and at most two
\* seconds old; a gas value is at most ten, except those in the array of read(), which
\* are the first ones measured.
THEOREM SensorsTellTheTruth == SensorSpec => []ReadingsAreReal
<1>1. SensorInv => ReadingsAreReal
  BY DEF SensorInv, DhtInv, GasInv, ReadingsAreReal, ReadIsTheFirst
<1> QED BY <1>1, SensorInitial, SensorStep, PTL DEF SensorSpec

-----------------------------------------------------------------------------
(* The clock.                                                              *)

\* Quotients of sums.
LEMMA QuotientsOfSums ==
  ASSUME NEW n \in Nat \ {0}, NEW x \in Nat, NEW y \in Nat
  PROVE  /\ x \div n \in Nat /\ y \div n \in Nat
         /\ (x \div n) + (y \div n) <= (x + y) \div n
         /\ (x + y) \div n <= (x \div n) + (y \div n) + 1
         /\ x <= y => x \div n <= y \div n
<1>1. PICK q \in Int, r \in 0..(n - 1) : x \div n = q /\ x = (n * q) + r
  BY DivisionParts
<1>2. PICK p \in Int, s \in 0..(n - 1) : y \div n = p /\ y = (n * p) + s
  BY DivisionParts
<1>3. PICK o \in Int, u \in 0..(n - 1) : (x + y) \div n = o /\ x + y = (n * o) + u
  <2>1. x + y \in Int
    OBVIOUS
  <2> QED BY <2>1, DivisionParts
<1>4. \A d \in Int : /\ n * d > -n => d >= 0
                     /\ n * d > -(n + n) => d >= -1
                     /\ n * d < n + n => d <= 1
  OBVIOUS
<1>5. q >= 0 /\ p >= 0
  BY <1>1, <1>2, <1>4
<1>6. o - (q + p) >= 0 /\ o - (q + p) <= 1
  <2>1. n * (o - (q + p)) = r + s - u /\ o - (q + p) \in Int
    BY <1>1, <1>2, <1>3
  <2>2. r + s - u > -n /\ r + s - u < n + n
    BY <1>1, <1>2, <1>3
  <2> QED BY <1>4, <2>1, <2>2
<1>7. x <= y => p - q >= 0
  <2>1. n * (p - q) = (y - x) + (r - s) /\ p - q \in Int
    BY <1>1, <1>2
  <2>2. x <= y => (y - x) + (r - s) > -n
    BY <1>1, <1>2
  <2> QED BY <1>4, <2>1, <2>2
<1> QED BY <1>1, <1>2, <1>3, <1>5, <1>6, <1>7

\* The seconds of an answer stamped at tick s, and those that have passed by the clock
\* since tick h - 1, against those that have passed in truth at h + delta.
LEMMA NearTheTruth ==
  ASSUME NEW n \in Nat \ {0}, NEW h \in Nat, NEW delta \in Nat, NEW s \in Nat, s <= h + n
  PROVE  LET d == (s \div n) + ((delta + 1) \div n) - ((h + delta) \div n)
         IN d \in Int /\ d <= 2 /\ -((h + delta) \div n) <= d /\ (h <= s => -1 <= d)
<1>1. s \div n <= (h + n) \div n /\ s \div n \in Nat /\ (h <= s => h \div n <= s \div n)
  BY QuotientsOfSums
<1>2. (h + (n * 1)) \div n = (h \div n) + 1
  BY TurnsGo
<1>3. (h \div n) + ((delta + 1) \div n) <= (h + (delta + 1)) \div n /\ (delta + 1) \div n \in Nat
  BY QuotientsOfSums
<1>4. (h + (delta + 1)) \div n <= ((h + delta) + n) \div n
  <2>1. h + (delta + 1) \in Nat /\ (h + delta) + n \in Nat /\ h + (delta + 1) <= (h + delta) + n
    OBVIOUS
  <2> QED BY <2>1, QuotientsOfSums
<1>5. ((h + delta) + (n * 1)) \div n = ((h + delta) \div n) + 1
  <2>1. h + delta \in Int
    OBVIOUS
  <2> QED BY <2>1, TurnsGo
<1>6. /\ (h + delta) \div n <= (h \div n) + (delta \div n) + 1
      /\ delta \div n <= (delta + 1) \div n
      /\ h \div n \in Nat /\ delta \div n \in Nat
  <2>1. delta + 1 \in Nat /\ delta <= delta + 1
    OBVIOUS
  <2> QED BY <2>1, QuotientsOfSums
<1>7. (h + delta) \div n \in Nat /\ n * 1 = n
  <2>1. h + delta \in Nat
    OBVIOUS
  <2> QED BY <2>1, QuotientsOfSums
<1> DEFINE A == s \div n
           B == (delta + 1) \div n
           C == (h + delta) \div n
           D == h \div n
           E == delta \div n
<1>8. A <= D + 1 /\ D + B <= C + 1 /\ C <= D + E + 1 /\ E <= B /\ (h <= s => D <= A)
  BY <1>1, <1>2, <1>3, <1>4, <1>5, <1>6, <1>7
<1>9. A \in Nat /\ B \in Nat /\ C \in Nat /\ D \in Nat /\ E \in Nat
  BY <1>1, <1>3, <1>6, <1>7
<1> HIDE DEF A, B, C, D, E
<1>10. A + B - C \in Int /\ A + B - C <= 2 /\ -C <= A + B - C /\ (h <= s => -1 <= A + B - C)
  BY <1>8, <1>9
<1> QED BY <1>10 DEF A, B, C

\* Answers that were stamped, by tick t and after they were asked for; what is on its
\* way; and what a buffer may hold bytes of.
Stamped(t) == {g \in [asked : Nat, sec : Int] : \E s \in Nat : /\ g.asked <= s /\ s <= t
                                                            /\ g.sec = TrueTime(s)}
Requests(t) == {g \in [asked : Nat, sec : Int] : g.sec = -1 /\ g.asked <= t}
Contents(t) == Stamped(t) \cup {OfNoAnswer(sec) : sec \in Nat}
Buffers(t) == [of : Contents(t), left : Nat]

\* A buffer has bytes of no answer only after a lost reply.
Explained(b, lost) == b.left # 0 /\ ~ FromServer(b.of) => lost
UdpOK(u, t) ==
  /\ u \in [sock : BOOLEAN, parsed : 0..2, buffer : Buffers(t), aimed : BOOLEAN, lost : BOOLEAN]
  /\ Explained(u.buffer, u.lost)
SocketOK(s, t) ==
  /\ s \in [buffer : Buffers(t), inbox : Seq(Stamped(t)), lost : BOOLEAN]
  /\ Explained(s.buffer, s.lost)

\* The clock has the seconds of an answer that came within a second of its request, and
\* the tick before the request.
SetBy(s) ==
  /\ s <= heard.at + Second /\ (heard.own => heard.at <= s)
  /\ ntp.epoch = TrueTime(s) % SecondsWord

PlaceOK ==
  /\ now \in Nat /\ asked \in Nat /\ asked <= now
  /\ ntp \in [epoch : Int, last : Int, setup : BOOLEAN, standard : BOOLEAN]
  /\ waits \in [at : {"loop", "flush", "send", "wait"}, timeout : Nat]
  /\ waits.at \in {"flush", "send"} => waits.timeout = 0
  /\ waits.at = "wait" => now = asked + waits.timeout

NetworkOK ==
  /\ UdpOK(udp, now) /\ inbox \in Seq(Stamped(now))
  /\ flying \in Seq(Stamped(now) \cup Requests(now))

HeardOK ==
  /\ heard.whole => /\ heard.at \in Nat /\ heard.at <= now
                    /\ ntp.last = (heard.at - 1) % MillisWord
                    /\ \E s \in Nat : SetBy(s)
  /\ ~ heard.strange

ClockInv == PlaceOK /\ NetworkOK /\ HeardOK

LEMMA TrueTimes ==
  ASSUME NEW t \in Nat
  PROVE  TrueTime(t) \in Nat
<1>1. Second \in Nat \ {0} /\ Boot \in Nat
  BY ClockAssumption
<1>2. t \div Second \in Nat
  BY <1>1, QuotientsOfSums
<1> QED BY <1>1, <1>2 DEF TrueTime

LEMMA LaterIsMore ==
  ASSUME NEW t \in Nat, NEW z \in Nat, t <= z
  PROVE  /\ Stamped(t) \subseteq Stamped(z) /\ Requests(t) \subseteq Requests(z)
         /\ \A u : UdpOK(u, t) => UdpOK(u, z)
         /\ \A s \in Seq(Stamped(t)) : s \in Seq(Stamped(z))
         /\ \A s \in Seq(Stamped(t) \cup Requests(t)) : s \in Seq(Stamped(z) \cup Requests(z))
<1>1. Stamped(t) \subseteq Stamped(z)
  BY DEF Stamped
<1>2. Requests(t) \subseteq Requests(z)
  BY DEF Requests
<1>3. Buffers(t) \subseteq Buffers(z)
  <2>1. Contents(t) \subseteq Contents(z)
    BY <1>1 DEF Contents
  <2> QED BY <2>1 DEF Buffers
<1>4. ASSUME NEW u, UdpOK(u, t) PROVE UdpOK(u, z)
  BY <1>3, <1>4 DEF UdpOK
<1>5. Stamped(t) \cup Requests(t) \subseteq Stamped(z) \cup Requests(z)
  BY <1>1, <1>2
<1> QED BY <1>1, <1>2, <1>4, <1>5, SeqMonotonic, Zenon

\* Bytes that are the server's are those of an answer.
LEMMA FromServerIsAnswer ==
  ASSUME NEW t \in Nat
  PROVE  /\ \A g \in Contents(t) : FromServer(g) => g \in Stamped(t)
         /\ \A g \in Stamped(t) : FromServer(g) /\ g \in Contents(t)
         /\ NoBytes \in Buffers(t) /\ NoBytes.left = 0
<1>1. \A sec \in Nat : ~ FromServer(OfNoAnswer(sec))
  BY DEF FromServer, OfNoAnswer
<1>2. \A g \in Stamped(t) : FromServer(g)
  BY DEF Stamped, FromServer
<1>3. OfNoAnswer(0) \in Contents(t)
  BY DEF Contents
<1>4. NoBytes \in Buffers(t) /\ NoBytes.left = 0
  BY <1>3 DEF NoBytes, Buffers
<1> QED BY <1>1, <1>2, <1>4 DEF Contents

\* What fills an empty buffer, and what a byte less leaves.
LEMMA FillingIsOK ==
  ASSUME NEW t \in Nat, NEW s, SocketOK(s, t), NEW f \in Fillings(s)
  PROVE  SocketOK(f, t)
<1> DEFINE R == [buffer : Buffers(t), inbox : Seq(Stamped(t)), lost : BOOLEAN]
<1>1. s \in R /\ Explained(s.buffer, s.lost)
  BY DEF SocketOK
<1>2. \/ f = s
      \/ s.inbox # <<>> /\ f = [buffer |-> [of |-> Head(s.inbox), left |-> 2],
                                inbox |-> Tail(s.inbox), lost |-> s.lost]
      \/ \E sec \in Stale, box \in LetGo(s.inbox) :
            f = [buffer |-> [of |-> OfNoAnswer(sec), left |-> BufferSize],
                 inbox |-> box, lost |-> TRUE]
  BY DEF Fillings
<1>3. CASE f = s
  BY <1>3
<1>4. CASE s.inbox # <<>> /\ f = [buffer |-> [of |-> Head(s.inbox), left |-> 2],
                                 inbox |-> Tail(s.inbox), lost |-> s.lost]
  <2>1. Head(s.inbox) \in Stamped(t) /\ Tail(s.inbox) \in Seq(Stamped(t))
    BY <1>1, <1>4, HeadTailProperties
  <2>2. PICK g \in Stamped(t), rest \in Seq(Stamped(t)) :
          f = [buffer |-> [of |-> g, left |-> 2], inbox |-> rest, lost |-> s.lost]
    BY <1>4, <2>1
  <2>3. [of |-> g, left |-> 2] \in Buffers(t) /\ FromServer(g)
    BY FromServerIsAnswer DEF Buffers
  <2>4. f \in R /\ f.buffer = [of |-> g, left |-> 2]
    BY <1>1, <2>2, <2>3
  <2> QED BY <2>3, <2>4 DEF SocketOK, Explained
<1>5. ASSUME NEW sec \in Stale, NEW box \in LetGo(s.inbox),
             f = [buffer |-> [of |-> OfNoAnswer(sec), left |-> BufferSize],
                  inbox |-> box, lost |-> TRUE]
      PROVE  SocketOK(f, t)
  <2>1. box \in Seq(Stamped(t))
    <3>1. s.inbox \in Seq(Stamped(t))
      BY <1>1
    <3>2. s.inbox # <<>> => Tail(s.inbox) \in Seq(Stamped(t))
      BY <3>1, HeadTailProperties
    <3> QED BY <3>1, <3>2, Zenon DEF LetGo
  <2>2. [of |-> OfNoAnswer(sec), left |-> BufferSize] \in Buffers(t)
    BY ClockAssumption DEF Buffers, Contents
  <2>3. f \in R /\ f.lost
    BY <1>5, <2>1, <2>2
  <2> QED BY <2>3 DEF SocketOK, Explained
<1> QED BY <1>2, <1>3, <1>4, <1>5

LEMMA LessIsOK ==
  ASSUME NEW t \in Nat, NEW b \in Buffers(t), NEW lost, Explained(b, lost)
  PROVE  Without1(b) \in Buffers(t) /\ Explained(Without1(b), lost)
<1>1. CASE b.left <= 1
  <2>1. Without1(b) = NoBytes
    BY <1>1 DEF Without1
  <2> QED BY <2>1, FromServerIsAnswer DEF Explained
<1>2. CASE ~ (b.left <= 1)
  <2>1. b \in [of : Contents(t), left : Nat]
    BY DEF Buffers
  <2>2. PICK m \in Nat : m = b.left - 1
    BY <1>2, <2>1
  <2>3. Without1(b) = [b EXCEPT !.left = m]
    BY <1>2, <2>2, Zenon DEF Without1
  <2>4. Without1(b) \in [of : Contents(t), left : Nat] /\ Without1(b).of = b.of
    BY <2>1, <2>3
  <2>5. b.left # 0
    BY <1>2
  <2> QED BY <2>4, <2>5 DEF Buffers, Explained
<1> QED BY <1>1, <1>2

LEMMA TakenIsOK ==
  ASSUME NEW t \in Nat, NEW s, SocketOK(s, t), NEW n \in Nat, NEW x \in Taken(s, n)
  PROVE  SocketOK(x, t)
<1>1. ASSUME NEW y, SocketOK(y, t), NEW d \in Drop(y)
      PROVE  SocketOK(d, t)
  <2>1. PICK f \in Fillings(y) : d = [f EXCEPT !.buffer = Without1(@)]
    BY <1>1, Zenon DEF Drop
  <2>2. SocketOK(f, t)
    BY <1>1, FillingIsOK
  <2>3. f \in [buffer : Buffers(t), inbox : Seq(Stamped(t)), lost : BOOLEAN]
        /\ Explained(f.buffer, f.lost)
    BY <2>2 DEF SocketOK
  <2>4. PICK b : b = Without1(f.buffer)
    OBVIOUS
  <2>5. b \in Buffers(t) /\ Explained(b, f.lost)
    BY <2>3, <2>4, LessIsOK
  <2>6. d = [f EXCEPT !.buffer = b]
    BY <2>1, <2>4, Zenon
  <2>7. d \in [buffer : Buffers(t), inbox : Seq(Stamped(t)), lost : BOOLEAN]
        /\ d.buffer = b /\ d.lost = f.lost
    BY <2>3, <2>5, <2>6
  <2> QED BY <2>5, <2>7 DEF SocketOK
<1>2. \/ x = s
      \/ x \in Drop(s)
      \/ \E d \in Drop(s) : x \in Drop(d)
  BY Zenon DEF Taken
<1> QED BY <1>1, <1>2

\* The fields of the client's socket, with a buffer that is filled or read.
LEMMA SocketOfUdp ==
  ASSUME NEW t \in Nat, NEW u, UdpOK(u, t), NEW box \in Seq(Stamped(t))
  PROVE  /\ SocketOK(Socket(u, box), t)
         /\ \A s : \A m \in 0..2 : SocketOK(s, t) =>
              UdpOK(With(u, s, m), t) /\ With(u, s, m).parsed = m
<1>1. /\ u \in [sock : BOOLEAN, parsed : 0..2, buffer : Buffers(t), aimed : BOOLEAN,
                lost : BOOLEAN]
      /\ Explained(u.buffer, u.lost)
  BY DEF UdpOK
<1>2. SocketOK(Socket(u, box), t)
  BY <1>1 DEF SocketOK, Socket
<1>3. ASSUME NEW s, NEW m \in 0..2, SocketOK(s, t)
      PROVE  UdpOK(With(u, s, m), t) /\ With(u, s, m).parsed = m
  <2>1. PICK b \in Buffers(t), l \in BOOLEAN : b = s.buffer /\ l = s.lost /\ Explained(b, l)
    BY <1>3 DEF SocketOK
  <2>2. With(u, s, m) = [u EXCEPT !.buffer = b, !.lost = l, !.parsed = m]
    BY <2>1, Zenon DEF With
  <2>3. /\ With(u, s, m) \in [sock : BOOLEAN, parsed : 0..2, buffer : Buffers(t),
                             aimed : BOOLEAN, lost : BOOLEAN]
        /\ With(u, s, m).buffer = b /\ With(u, s, m).lost = l /\ With(u, s, m).parsed = m
    BY <1>1, <2>2
  <2> QED BY <2>1, <2>3 DEF UdpOK
<1> QED BY <1>2, <1>3

LEMMA ParsedIsOK ==
  ASSUME NEW tick \in Nat, NEW u, UdpOK(u, tick), NEW box \in Seq(Stamped(tick)),
         NEW p \in ParsePacket(u, box)
  PROVE  /\ UdpOK(p.udp, tick) /\ p.inbox \in Seq(Stamped(tick))
         /\ p.udp.parsed \in {0, 2}
<1> DEFINE F(s, failed) == [udp |-> With(u, s, IF s.inbox = <<>> \/ failed THEN 0 ELSE 2),
                            inbox |-> s.inbox]
<1>1. u.parsed \in Nat
  BY DEF UdpOK
<1>2. PICK x \in Taken(Socket(u, box), u.parsed), failed \in Fails : p = F(x, failed)
  <2>1. p \in UNION {{F(s, failed) : failed \in Fails} : s \in Taken(Socket(u, box), u.parsed)}
    BY Zenon DEF ParsePacket
  <2> HIDE DEF F
  <2> QED BY <2>1, Zenon
<1>3. SocketOK(x, tick)
  <2>1. SocketOK(Socket(u, box), tick)
    BY SocketOfUdp
  <2> QED BY <1>1, <2>1, TakenIsOK
<1>4. PICK m : m = IF x.inbox = <<>> \/ failed THEN 0 ELSE 2
  OBVIOUS
<1>5. m \in {0, 2} /\ m \in 0..2
  BY <1>4
<1>6. p.udp = With(u, x, m) /\ p.inbox = x.inbox
  BY <1>2, <1>4, Zenon
<1>7. UdpOK(With(u, x, m), tick) /\ With(u, x, m).parsed = m
  BY <1>3, <1>5, SocketOfUdp
<1>8. x.inbox \in Seq(Stamped(tick))
  BY <1>3 DEF SocketOK
<1> QED BY <1>5, <1>6, <1>7, <1>8

\* What is read of an answer: all of it, or less; or bytes of none.
LEMMA ReadIsAnswer ==
  ASSUME NEW t \in Nat, NEW u, UdpOK(u, t), u.parsed = 2, NEW box \in Seq(Stamped(t)),
         NEW r \in Reads(u, box)
  PROVE  /\ UdpOK(r.udp, t) /\ r.inbox \in Seq(Stamped(t))
         /\ r.of \in Contents(t) /\ r.bytes \in 0..2
         /\ r.bytes # 0 /\ ~ FromServer(r.of) => r.udp.lost
<1> DEFINE F(s) == [udp |-> With(u, [s EXCEPT !.buffer = Without1(Without1(@))],
                                 u.parsed - Fewer(s.buffer.left)),
                    inbox |-> s.inbox, of |-> s.buffer.of, bytes |-> Fewer(s.buffer.left)]
<1>1. PICK s \in Fillings(Socket(u, box)) : r = F(s)
  <2>1. r \in {F(s) : s \in Fillings(Socket(u, box))}
    BY Zenon DEF Reads
  <2> HIDE DEF F
  <2> QED BY <2>1, Zenon
<1>2. SocketOK(s, t)
  BY SocketOfUdp, FillingIsOK
<1>3. s \in [buffer : Buffers(t), inbox : Seq(Stamped(t)), lost : BOOLEAN]
      /\ Explained(s.buffer, s.lost)
  BY <1>2 DEF SocketOK
<1>4. s.buffer.of \in Contents(t) /\ s.buffer.left \in Nat
  BY <1>3 DEF Buffers
<1>5. PICK b : b = Without1(Without1(s.buffer))
  OBVIOUS
<1>6. b \in Buffers(t) /\ Explained(b, s.lost)
  BY <1>3, <1>5, LessIsOK
<1>7. PICK k : k = [s EXCEPT !.buffer = b]
  OBVIOUS
<1>8. SocketOK(k, t) /\ k.lost = s.lost
  BY <1>3, <1>6, <1>7 DEF SocketOK
<1>9. PICK n \in 0..2 : n = Fewer(s.buffer.left) /\ (n # 0 => s.buffer.left # 0)
  BY <1>4 DEF Fewer
<1>10. PICK m \in 0..2 : m = u.parsed - n
  BY <1>9
<1>11. r.udp = With(u, k, m) /\ r.inbox = s.inbox /\ r.of = s.buffer.of /\ r.bytes = n
  BY <1>1, <1>5, <1>7, <1>9, <1>10, Zenon
<1>12. UdpOK(r.udp, t)
  <2>1. \A x : \A i \in 0..2 : SocketOK(x, t) => UdpOK(With(u, x, i), t)
    BY SocketOfUdp
  <2> QED BY <1>8, <1>11, <2>1, Zenon
<1>13. r.udp.lost = s.lost
  <2>1. With(u, k, m) = [u EXCEPT !.buffer = k.buffer, !.lost = k.lost, !.parsed = m]
    BY Zenon DEF With
  <2>2. u \in [sock : BOOLEAN, parsed : 0..2, buffer : Buffers(t), aimed : BOOLEAN,
               lost : BOOLEAN]
    BY DEF UdpOK
  <2> QED BY <1>8, <1>11, <2>1, <2>2
<1>14. r.bytes # 0 /\ ~ FromServer(r.of) => r.udp.lost
  BY <1>3, <1>9, <1>11, <1>13 DEF Explained
<1> QED BY <1>3, <1>4, <1>9, <1>11, <1>12, <1>14

LEMMA ClockInitial == NtpInit => ClockInv
<1> SUFFICES ASSUME NtpInit PROVE ClockInv
  OBVIOUS
<1>1. PlaceOK
  BY DEF NtpInit, PlaceOK
<1>2. NetworkOK
  BY EmptySeq, FromServerIsAnswer DEF NtpInit, NetworkOK, UdpOK, Explained
<1>3. HeardOK
  BY DEF NtpInit, HeardOK
<1> QED BY <1>1, <1>2, <1>3 DEF ClockInv

\* The socket opened, closed, and aimed.
LEMMA SocketsStayOK ==
  ASSUME NEW t \in Nat, NEW u, UdpOK(u, t)
  PROVE  /\ \A got \in BOOLEAN : UdpOK(Opened(u, got), t)
         /\ UdpOK(Closed(u), t)
         /\ \A unknown, none \in BOOLEAN : UdpOK(BeginPacket(u, unknown, none), t)
<1> DEFINE U == [sock : BOOLEAN, parsed : 0..2, buffer : Buffers(t), aimed : BOOLEAN,
                 lost : BOOLEAN]
<1>1. u \in U /\ Explained(u.buffer, u.lost)
  BY DEF UdpOK
<1>2. NoBytes \in Buffers(t) /\ \A lost : Explained(NoBytes, lost)
  BY FromServerIsAnswer DEF Explained
<1>3. ASSUME NEW got \in BOOLEAN PROVE UdpOK(Opened(u, got), t)
  <2>1. PICK n \in 0..2 : n = IF got THEN 0 ELSE u.parsed
    BY <1>1
  <2>2. Opened(u, got) = [u EXCEPT !.sock = got, !.parsed = n, !.buffer = NoBytes,
                                   !.aimed = FALSE, !.lost = FALSE]
    BY <2>1, Zenon DEF Opened
  <2>3. Opened(u, got) \in U /\ Opened(u, got).buffer = NoBytes
    BY <1>1, <1>2, <2>2
  <2> QED BY <1>2, <2>3 DEF UdpOK
<1>4. UdpOK(Closed(u), t)
  <2>1. PICK b \in Buffers(t) : b = (IF u.sock THEN NoBytes ELSE u.buffer) /\ Explained(b, u.lost)
    BY <1>1, <1>2, Zenon
  <2>2. Closed(u) = [u EXCEPT !.sock = FALSE, !.buffer = b]
    BY <2>1, Zenon DEF Closed
  <2>3. Closed(u) \in U /\ Closed(u).buffer = b /\ Closed(u).lost = u.lost
    BY <1>1, <2>1, <2>2
  <2> QED BY <2>1, <2>3 DEF UdpOK
<1>5. ASSUME NEW unknown \in BOOLEAN, NEW none \in BOOLEAN
      PROVE  UdpOK(BeginPacket(u, unknown, none), t)
  <2>1. PICK s \in BOOLEAN : s = (u.sock \/ (~ unknown /\ ~ none))
    BY <1>1
  <2>2. PICK a \in BOOLEAN : a = (s /\ (u.aimed \/ ~ unknown))
    BY <1>1, <2>1
  <2>3. BeginPacket(u, unknown, none) = [u EXCEPT !.sock = s, !.aimed = a]
    BY <2>1, <2>2, Zenon DEF BeginPacket
  <2>4. /\ BeginPacket(u, unknown, none) \in U
        /\ BeginPacket(u, unknown, none).buffer = u.buffer
        /\ BeginPacket(u, unknown, none).lost = u.lost
    BY <1>1, <2>3
  <2> QED BY <1>1, <2>4 DEF UdpOK
<1> QED BY <1>3, <1>4, <1>5

\* What is left when one is taken out.
LEMMA WithoutIsOK ==
  ASSUME NEW S, flying \in Seq(S), NEW i \in DOMAIN flying
  PROVE  flying[i] \in S /\ Without(i) \in Seq(S)
<1>1. Len(flying) \in Nat /\ i \in 1..Len(flying) /\ \A j \in 1..Len(flying) : flying[j] \in S
  BY LenProperties, ElementOfSeq
<1>2. SubSeq(flying, 1, i - 1) \in Seq(S)
  <2>1. 1 \in Int /\ i - 1 \in Int /\ \A j \in 1..(i - 1) : flying[j] \in S
    BY <1>1
  <2> QED BY <2>1, SubSeqProperties
<1>3. SubSeq(flying, i + 1, Len(flying)) \in Seq(S)
  <2>1. i + 1 \in Int /\ Len(flying) \in Int /\ \A j \in (i + 1)..Len(flying) : flying[j] \in S
    BY <1>1
  <2> QED BY <2>1, SubSeqProperties
<1> QED BY <1>1, <1>2, <1>3, ConcatProperties DEF Without

LEMMA TimePasses ==
  ASSUME ClockInv, now' = now + 1
  PROVE  /\ \A u : UdpOK(u, now) => UdpOK(u, now')
         /\ \A s \in Seq(Stamped(now)) : s \in Seq(Stamped(now'))
         /\ \A s \in Seq(Stamped(now) \cup Requests(now)) : s \in Seq(Stamped(now') \cup Requests(now'))
<1>1. PICK z \in Nat : z = now' /\ now \in Nat /\ now <= z
  BY DEF ClockInv, PlaceOK
<1> QED BY <1>1, LaterIsMore

\* The answer was stamped within a second of its request, and sets the clock.
LEMMA AnswerSets ==
  ASSUME ClockInv, waits.at = "wait", waits.timeout <= Tries,
         NEW g \in Stamped(now), NEW r, r.of = g, r.bytes = 2,
         now' = now + 1,
         ntp'.last = AtTheRequest(now', waits.timeout),
         ntp'.epoch = Epoch(SecsSince1900(r)),
         heard' = [whole |-> TRUE, strange |-> FALSE, own |-> g.asked = asked, at |-> asked]
  PROVE  HeardOK'
<1>3. PICK s \in Nat : g.asked <= s /\ s <= now /\ g.sec = TrueTime(s) /\ g.asked \in Nat
  BY DEF Stamped
<1>4. now = asked + waits.timeout /\ asked \in Nat /\ waits.timeout \in Nat /\ now \in Nat
  BY DEF ClockInv, PlaceOK
<1>5. heard'.at = asked /\ (heard'.own => g.asked = asked) /\ ~ heard'.strange
  OBVIOUS
<1>6. s <= heard'.at + Second /\ (heard'.own => heard'.at <= s)
  BY <1>3, <1>4, <1>5, ClockAssumption DEF Tries
<1>7. ntp'.epoch = TrueTime(s) % SecondsWord
  <2>1. PICK x \in Nat : x = TrueTime(s)
    BY TrueTimes
  <2>2. SEVENZYYEARS \in Nat /\ SecondsWord \in Nat \ {0}
    BY ClockAssumption
  <2>3. ntp'.epoch = (((x + SEVENZYYEARS) % SecondsWord) - SEVENZYYEARS) % SecondsWord
    BY <1>3, <2>1 DEF Epoch, SecsSince1900
  <2>4. PICK y \in Int : y = x + SEVENZYYEARS /\ y - SEVENZYYEARS = x
    <3>1. x \in Nat /\ SEVENZYYEARS \in Nat
      BY <2>1, <2>2
    <3> QED BY <3>1
  <2>5. ((y % SecondsWord) - SEVENZYYEARS) % SecondsWord = (y - SEVENZYYEARS) % SecondsWord
    <3>1. y \in Int /\ SEVENZYYEARS \in Int
      BY <2>2
    <3> QED BY <2>2, <3>1, RestOfSum, Zenon
  <2> QED BY <2>1, <2>3, <2>4, <2>5
<1>8. ntp'.last = (heard'.at - 1) % MillisWord
  <2>1. now' - (waits.timeout + 2) = asked - 1
    BY <1>4
  <2> QED BY <1>5, <2>1, Zenon DEF AtTheRequest
<1>9. heard'.at \in Nat /\ heard'.at <= now'
  BY <1>4, <1>5
<1>10. SetBy(s)'
  BY <1>6, <1>7 DEF SetBy
<1> QED BY <1>5, <1>8, <1>9, <1>10 DEF HeardOK

LEMMA WaitKeepsInv ==
  ASSUME ClockInv, Wait
  PROVE  ClockInv'
<1>0. PlaceOK /\ NetworkOK /\ HeardOK /\ now \in Nat /\ asked \in Nat /\ waits.timeout \in Nat
  BY DEF ClockInv, PlaceOK
<1>1. waits.at = "wait" /\ now' = now + 1 /\ UNCHANGED <<flying, asked>>
  BY DEF Wait
<1>2. PICK p \in ParsePacket(udp, inbox) :
       \/ /\ waits.timeout > Tries
          /\ udp' = p.udp /\ inbox' = p.inbox
          /\ waits' = [waits EXCEPT !.at = "loop"]
          /\ UNCHANGED <<ntp, heard>>
       \/ /\ waits.timeout <= Tries /\ p.udp.parsed = 0
          /\ udp' = p.udp /\ inbox' = p.inbox
          /\ waits' = [waits EXCEPT !.timeout = @ + 1]
          /\ UNCHANGED <<ntp, heard>>
       \/ /\ waits.timeout <= Tries /\ p.udp.parsed # 0
          /\ \E r \in Reads(p.udp, p.inbox) :
               /\ udp' = r.udp /\ inbox' = r.inbox
               /\ ntp' = [ntp EXCEPT
                    !.last = AtTheRequest(now', waits.timeout),
                    !.epoch = Epoch(SecsSince1900(r))]
               /\ heard' = Heard(r)
          /\ waits' = [waits EXCEPT !.at = "loop"]
  BY Zenon DEF Wait
<1>3. UdpOK(p.udp, now) /\ p.inbox \in Seq(Stamped(now)) /\ p.udp.parsed \in {0, 2}
  BY <1>0, ParsedIsOK DEF NetworkOK
<1>4. flying' \in Seq(Stamped(now') \cup Requests(now'))
  BY <1>0, <1>1, TimePasses DEF NetworkOK
<1>5. waits \in [at : {"loop", "flush", "send", "wait"}, timeout : Nat]
  BY <1>0 DEF PlaceOK
<1>6. CASE udp' = p.udp /\ inbox' = p.inbox /\ UNCHANGED <<ntp, heard>>
           /\ (waits' = [waits EXCEPT !.at = "loop"] \/ waits' = [waits EXCEPT !.timeout = @ + 1])
  <2>1. NetworkOK'
    BY <1>1, <1>3, <1>4, <1>6, TimePasses DEF NetworkOK
  <2>2. HeardOK'
    BY <1>0, <1>1, <1>6 DEF HeardOK, SetBy
  <2>3. PlaceOK'
    <3>1. CASE waits' = [waits EXCEPT !.at = "loop"]
      BY <1>0, <1>1, <1>5, <1>6, <3>1 DEF PlaceOK
    <3>2. CASE waits' = [waits EXCEPT !.timeout = @ + 1]
      BY <1>0, <1>1, <1>5, <1>6, <3>2 DEF PlaceOK
    <3> QED BY <1>6, <3>1, <3>2
  <2> QED BY <2>1, <2>2, <2>3 DEF ClockInv
<1>7. ASSUME waits.timeout <= Tries, p.udp.parsed # 0, NEW r \in Reads(p.udp, p.inbox),
             udp' = r.udp, inbox' = r.inbox,
             ntp' = [ntp EXCEPT !.last = AtTheRequest(now', waits.timeout),
                                !.epoch = Epoch(SecsSince1900(r))],
             heard' = Heard(r),
             waits' = [waits EXCEPT !.at = "loop"]
      PROVE  ClockInv'
  <2>1. /\ UdpOK(r.udp, now) /\ r.inbox \in Seq(Stamped(now))
        /\ r.of \in Contents(now) /\ r.bytes \in 0..2
        /\ r.bytes # 0 /\ ~ FromServer(r.of) => r.udp.lost
    BY <1>0, <1>3, <1>7, ReadIsAnswer
  <2>2. NetworkOK'
    BY <1>1, <1>4, <1>7, <2>1, TimePasses DEF NetworkOK
  <2>3. PICK l \in Int : l = AtTheRequest(now', waits.timeout)
    <3>1. MillisWord \in Nat \ {0} /\ now' - (waits.timeout + 2) \in Int
      BY <1>0, <1>1, ClockAssumption
    <3>2. (now' - (waits.timeout + 2)) % MillisWord \in Int
      BY <3>1
    <3> QED BY <3>2 DEF AtTheRequest
  <2>4. PICK e \in Int : e = Epoch(SecsSince1900(r))
    <3>1. SecondsWord \in Nat \ {0} /\ SEVENZYYEARS \in Nat
      BY ClockAssumption
    <3>2. SecsSince1900(r) \in Int
      <4>1. r.of.sec \in Int
        BY <2>1 DEF Contents, Stamped, OfNoAnswer
      <4>2. (r.of.sec + SEVENZYYEARS) % SecondsWord \in Int
        BY <3>1, <4>1
      <4> QED BY <4>2 DEF SecsSince1900
    <3>3. SecsSince1900(r) - SEVENZYYEARS \in Int
      BY <3>1, <3>2
    <3> QED BY <3>1, <3>3, DivisionParts DEF Epoch
  <2>5. ntp' = [ntp EXCEPT !.last = l, !.epoch = e]
    BY <1>7, <2>3, <2>4, Zenon
  <2>6. ntp \in [epoch : Int, last : Int, setup : BOOLEAN, standard : BOOLEAN]
    BY <1>0 DEF PlaceOK
  <2>7. /\ ntp' \in [epoch : Int, last : Int, setup : BOOLEAN, standard : BOOLEAN]
        /\ ntp'.last = l /\ ntp'.epoch = e
    BY <2>5, <2>6
  <2>8. PlaceOK'
    BY <1>0, <1>1, <1>5, <1>7, <2>7 DEF PlaceOK
  <2>9. HeardOK'
    <3>1. CASE r.bytes = 2 /\ FromServer(r.of)
      <4>1. PICK g \in Stamped(now) : r.of = g
        BY <1>0, <2>1, <3>1, FromServerIsAnswer
      <4>2. heard' = [whole |-> TRUE, strange |-> FALSE, own |-> g.asked = asked, at |-> asked]
        BY <1>7, <3>1, <4>1, Zenon DEF Heard
      <4> QED BY <1>1, <1>7, <2>3, <2>4, <2>7, <3>1, <4>1, <4>2, AnswerSets
    <3>2. CASE ~ (r.bytes = 2 /\ FromServer(r.of))
      <4>1. PICK strange : strange = (r.bytes # 0 /\ ~ FromServer(r.of) /\ ~ r.udp.lost)
        OBVIOUS
      <4>2. heard' = [whole |-> FALSE, strange |-> strange, own |-> FALSE, at |-> 0]
        BY <1>7, <3>2, <4>1, Zenon DEF Heard
      <4>3. ~ strange
        BY <2>1, <4>1, Zenon
      <4>4. ~ heard'.whole /\ ~ heard'.strange
        BY <4>2, <4>3
      <4> QED BY <4>4 DEF HeardOK
    <3> QED BY <3>1, <3>2
  <2> QED BY <2>2, <2>8, <2>9 DEF ClockInv
<1> QED BY <1>2, <1>6, <1>7

\* The steps that change neither the time nor what is known of it.
LEMMA QuietStep ==
  ASSUME ClockInv, UNCHANGED <<now, heard>>,
         \/ ntp' = ntp
         \/ \E b, c \in BOOLEAN : \/ ntp' = [ntp EXCEPT !.setup = b]
                                 \/ ntp' = [ntp EXCEPT !.setup = b, !.standard = c]
  PROVE  HeardOK' /\ ntp' \in [epoch : Int, last : Int, setup : BOOLEAN, standard : BOOLEAN]
<1>1. ntp \in [epoch : Int, last : Int, setup : BOOLEAN, standard : BOOLEAN]
  BY DEF ClockInv, PlaceOK
<1>2. /\ ntp'.epoch = ntp.epoch /\ ntp'.last = ntp.last
      /\ ntp' \in [epoch : Int, last : Int, setup : BOOLEAN, standard : BOOLEAN]
  BY <1>1
<1> QED BY <1>2 DEF ClockInv, HeardOK, SetBy

LEMMA ClockStep == ClockInv /\ [NtpNext]_ntpVars => ClockInv'
<1> SUFFICES ASSUME ClockInv, [NtpNext]_ntpVars PROVE ClockInv'
  OBVIOUS
<1>0. PlaceOK /\ NetworkOK /\ HeardOK
  BY DEF ClockInv
<1> DEFINE S == Stamped(now) \cup Requests(now)
           P == [at : {"loop", "flush", "send", "wait"}, timeout : Nat]
<1>a. now \in Nat /\ asked \in Nat /\ waits \in P
  BY <1>0 DEF PlaceOK
<1>b. UdpOK(udp, now) /\ inbox \in Seq(Stamped(now)) /\ flying \in Seq(S)
  BY <1>0 DEF NetworkOK
<1>c. Fails \subseteq BOOLEAN
  BY DEF Fails
<1>d. <<>> \in Seq(Stamped(now))
  BY EmptySeq
<1>1. CASE Begin
  <2>1. PICK failed \in Fails : udp' = Opened(udp, ~ failed)
    BY <1>1 DEF Begin
  <2>2. /\ inbox' = <<>> /\ UNCHANGED <<now, flying, waits, heard, asked>>
        /\ \E standard \in BOOLEAN : ntp' = [ntp EXCEPT !.setup = TRUE, !.standard = standard]
    BY <1>1 DEF Begin
  <2>3. (~ failed) \in BOOLEAN
    BY <1>c
  <2>4. UdpOK(udp', now)
    BY <1>a, <1>b, <2>1, <2>3, SocketsStayOK
  <2>5. NetworkOK'
    BY <1>b, <1>d, <2>2, <2>4 DEF NetworkOK
  <2>6. HeardOK' /\ ntp' \in [epoch : Int, last : Int, setup : BOOLEAN, standard : BOOLEAN]
    BY <2>2, QuietStep
  <2>7. PlaceOK'
    BY <1>0, <2>2, <2>6 DEF PlaceOK
  <2> QED BY <2>5, <2>6, <2>7 DEF ClockInv
<1>2. CASE End
  <2>1. udp' = Closed(udp) /\ inbox' = <<>> /\ ntp' = [ntp EXCEPT !.setup = FALSE]
        /\ UNCHANGED <<now, flying, waits, heard, asked>>
    BY <1>2 DEF End
  <2>2. UdpOK(udp', now)
    BY <1>a, <1>b, <2>1, SocketsStayOK
  <2>3. NetworkOK'
    BY <1>b, <1>d, <2>1, <2>2 DEF NetworkOK
  <2>4. HeardOK' /\ ntp' \in [epoch : Int, last : Int, setup : BOOLEAN, standard : BOOLEAN]
    BY <2>1, QuietStep
  <2>5. PlaceOK'
    BY <1>0, <2>1, <2>4 DEF PlaceOK
  <2> QED BY <2>3, <2>4, <2>5 DEF ClockInv
<1>3. CASE Update
  <2>1. ntp' = [ntp EXCEPT !.setup = TRUE] /\ waits' = [at |-> "flush", timeout |-> 0]
        /\ UNCHANGED <<now, flying, heard, asked>>
    BY <1>3 DEF Update
  <2>2. \/ UNCHANGED <<udp, inbox>>
        \/ inbox' = <<>> /\ \E failed \in Fails : udp' = Opened(udp, ~ failed)
    BY <1>3 DEF Update
  <2>3. UdpOK(udp', now) /\ inbox' \in Seq(Stamped(now))
    <3>1. CASE UNCHANGED <<udp, inbox>>
      BY <1>b, <3>1
    <3>2. ASSUME inbox' = <<>>, NEW failed \in Fails, udp' = Opened(udp, ~ failed)
          PROVE  UdpOK(udp', now) /\ inbox' \in Seq(Stamped(now))
      <4>1. (~ failed) \in BOOLEAN
        BY <1>c
      <4>2. UdpOK(udp', now)
        BY <1>a, <1>b, <3>2, <4>1, SocketsStayOK
      <4> QED BY <1>d, <3>2, <4>2
    <3> QED BY <2>2, <3>1, <3>2
  <2>4. NetworkOK'
    BY <1>b, <2>1, <2>3 DEF NetworkOK
  <2>5. HeardOK' /\ ntp' \in [epoch : Int, last : Int, setup : BOOLEAN, standard : BOOLEAN]
    BY <2>1, QuietStep
  <2>6. waits' \in P /\ waits'.at = "flush" /\ waits'.timeout = 0
    BY <2>1
  <2>7. PlaceOK'
    BY <1>0, <2>1, <2>5, <2>6 DEF PlaceOK
  <2> QED BY <2>4, <2>5, <2>7 DEF ClockInv
<1>4. CASE Flush
  <2>1. PICK p \in ParsePacket(udp, inbox) :
          /\ udp' = p.udp /\ inbox' = p.inbox
          /\ waits' = [waits EXCEPT !.at = IF p.udp.parsed = 0 THEN "send" ELSE "flush"]
    BY <1>4, Zenon DEF Flush
  <2>2. waits.at = "flush" /\ UNCHANGED <<now, ntp, flying, heard, asked>>
    BY <1>4 DEF Flush
  <2>3. UdpOK(p.udp, now) /\ p.inbox \in Seq(Stamped(now))
    BY <1>a, <1>b, ParsedIsOK
  <2>4. NetworkOK'
    BY <1>b, <2>1, <2>2, <2>3 DEF NetworkOK
  <2>5. HeardOK' /\ ntp' \in [epoch : Int, last : Int, setup : BOOLEAN, standard : BOOLEAN]
    BY <2>2, QuietStep
  <2>6. PICK x \in {"send", "flush"} : waits' = [waits EXCEPT !.at = x]
    BY <2>1
  <2>7. waits' \in P /\ waits'.at \in {"send", "flush"} /\ waits'.timeout = 0
    BY <1>0, <1>a, <2>2, <2>6 DEF PlaceOK
  <2>8. PlaceOK'
    BY <1>0, <2>2, <2>5, <2>7 DEF PlaceOK
  <2> QED BY <2>4, <2>5, <2>8 DEF ClockInv
<1>5. CASE SendNTPPacket
  <2>1. PICK unknown \in Fails, none \in Fails, lost \in Fails :
          udp' = BeginPacket(udp, unknown, none) /\ flying' = EndPacket(udp', lost)
    BY <1>5 DEF SendNTPPacket
  <2>2. /\ waits.at = "send" /\ asked' = now /\ waits' = [waits EXCEPT !.at = "wait"]
        /\ UNCHANGED <<now, ntp, inbox, heard>>
    BY <1>5 DEF SendNTPPacket
  <2>3. UdpOK(udp', now)
    BY <1>a, <1>b, <1>c, <2>1, SocketsStayOK
  <2>4. flying' \in Seq(S)
    <3>1. [asked |-> now, sec |-> -1] \in S
      BY <1>a DEF Requests
    <3>2. flying' = flying \/ flying' = Append(flying, [asked |-> now, sec |-> -1])
      BY <2>1 DEF EndPacket
    <3> HIDE DEF S
    <3>3. Append(flying, [asked |-> now, sec |-> -1]) \in Seq(S)
      BY <1>b, <3>1, AppendProperties, Zenon
    <3> QED BY <1>b, <3>2, <3>3
  <2>5. NetworkOK'
    BY <1>b, <2>2, <2>3, <2>4 DEF NetworkOK
  <2>6. HeardOK' /\ ntp' \in [epoch : Int, last : Int, setup : BOOLEAN, standard : BOOLEAN]
    BY <2>2, QuietStep
  <2>7. waits' \in P /\ waits'.at = "wait" /\ waits'.timeout = 0
    BY <1>0, <1>a, <2>2 DEF PlaceOK
  <2>8. PlaceOK'
    BY <1>a, <2>2, <2>6, <2>7 DEF PlaceOK
  <2> QED BY <2>5, <2>6, <2>8 DEF ClockInv
<1>6. CASE Wait
  BY <1>6, WaitKeepsInv
<1>7. CASE Tick
  <2>1. waits.at \in {"loop", "send"} /\ now' = now + 1
        /\ UNCHANGED <<ntp, udp, inbox, flying, waits, heard, asked>>
    BY <1>7 DEF Tick, Network
  <2>2. NetworkOK'
    BY <1>b, <2>1, TimePasses DEF NetworkOK
  <2>3. HeardOK'
    BY <1>0, <1>a, <2>1 DEF HeardOK, SetBy
  <2>4. PlaceOK'
    BY <1>0, <1>a, <2>1 DEF PlaceOK
  <2> QED BY <2>2, <2>3, <2>4 DEF ClockInv
<1>8. CASE ServerStamps
  <2>1. PICK i \in DOMAIN flying : /\ flying[i].sec = -1
                                  /\ flying' = [flying EXCEPT ![i].sec = TrueTime(now)]
    BY <1>8 DEF ServerStamps
  <2>2. UNCHANGED <<now, ntp, udp, inbox, waits, heard, asked>>
    BY <1>8 DEF ServerStamps
  <2>3. flying[i] \in S
    BY <1>b, <2>1, WithoutIsOK
  <2>4. PICK g : g = flying[i]
    OBVIOUS
  <2>5. g \in Requests(now)
    <3>1. ASSUME g \in Stamped(now) PROVE FALSE
      <4>1. PICK s \in Nat : g.sec = TrueTime(s)
        BY <3>1 DEF Stamped
      <4> QED BY <2>1, <2>4, <4>1, TrueTimes
    <3> QED BY <2>3, <2>4, <3>1
  <2>6. PICK x \in Nat : x = TrueTime(now)
    BY <1>a, TrueTimes
  <2>7. [g EXCEPT !.sec = x] \in Stamped(now)
    <3>1. g \in [asked : Nat, sec : Int] /\ g.asked <= now
      BY <2>5 DEF Requests
    <3>2. [g EXCEPT !.sec = x] \in [asked : Nat, sec : Int]
          /\ [g EXCEPT !.sec = x].asked = g.asked /\ [g EXCEPT !.sec = x].sec = x
      BY <3>1
    <3> QED BY <1>a, <2>6, <3>1, <3>2 DEF Stamped
  <2>8. flying' = [flying EXCEPT ![i] = [g EXCEPT !.sec = x]]
    BY <2>1, <2>4, <2>6, Zenon
  <2>9. flying' \in Seq(S)
    <3>1. [g EXCEPT !.sec = x] \in S
      BY <2>7
    <3> HIDE DEF S
    <3>2. i \in 1..Len(flying)
      BY <1>b, LenProperties
    <3> QED BY <1>b, <2>8, <3>1, <3>2, ExceptSeq, Zenon
  <2>10. NetworkOK'
    BY <1>b, <2>2, <2>9 DEF NetworkOK
  <2>11. PlaceOK' /\ HeardOK'
    BY <1>0, <2>2 DEF PlaceOK, HeardOK, SetBy
  <2> QED BY <2>10, <2>11 DEF ClockInv
<1>9. CASE Arrives
  <2>1. PICK i \in DOMAIN flying :
          /\ flying[i].sec # -1 /\ flying' = Without(i)
          /\ inbox' = IF udp.sock THEN Append(inbox, flying[i]) ELSE inbox
    BY <1>9 DEF Arrives
  <2>2. UNCHANGED <<now, ntp, udp, waits, heard, asked>>
    BY <1>9 DEF Arrives
  <2>3. flying[i] \in S /\ flying' \in Seq(S)
    BY <1>b, <2>1, WithoutIsOK
  <2>4. flying[i] \in Stamped(now)
    BY <2>1, <2>3 DEF Requests
  <2>5. Append(inbox, flying[i]) \in Seq(Stamped(now))
    BY <1>b, <2>4, AppendProperties, Zenon
  <2>6. inbox' \in Seq(Stamped(now))
    BY <1>b, <2>1, <2>5
  <2>7. NetworkOK'
    BY <1>b, <2>2, <2>3, <2>6 DEF NetworkOK
  <2>8. PlaceOK' /\ HeardOK'
    BY <1>0, <2>2 DEF PlaceOK, HeardOK, SetBy
  <2> QED BY <2>7, <2>8 DEF ClockInv
<1>10. CASE IsLost
  <2>1. PICK i \in DOMAIN flying : flying' = Without(i)
    BY <1>10 DEF IsLost
  <2>2. UNCHANGED <<now, ntp, udp, inbox, waits, heard, asked>>
    BY <1>10 DEF IsLost
  <2>3. flying' \in Seq(S)
    BY <1>b, <2>1, WithoutIsOK
  <2>4. NetworkOK'
    BY <1>b, <2>2, <2>3 DEF NetworkOK
  <2>5. PlaceOK' /\ HeardOK'
    BY <1>0, <2>2 DEF PlaceOK, HeardOK, SetBy
  <2> QED BY <2>4, <2>5 DEF ClockInv
<1>11. CASE UNCHANGED ntpVars
  BY <1>0, <1>11 DEF ntpVars, ClockInv, PlaceOK, NetworkOK, HeardOK, SetBy
<1> QED BY <1>1, <1>2, <1>3, <1>4, <1>5, <1>6, <1>7, <1>8, <1>9, <1>10, <1>11 DEF NtpNext

LEMMA ClockIsRight == ClockInv => ClockIsNear
<1> SUFFICES ASSUME ClockInv, heard.whole, now - heard.at < MillisWord - (Tries + 2)
             PROVE  \E d \in (IF heard.own THEN -1 ELSE -(now \div Second + 1))..2 :
                      getEpochTime = (TrueTime(now) + d) % SecondsWord
  BY DEF ClockIsNear, ClockInv, HeardOK
<1>0. /\ Second \in Nat \ {0} /\ MillisWord \in Nat \ {0} /\ SecondsWord \in Nat \ {0} /\ Boot \in Nat
      /\ Tries = Second
  BY ClockAssumption DEF Tries
<1>1. /\ now \in Nat /\ heard.at \in Nat /\ heard.at <= now
      /\ ntp.last = (heard.at - 1) % MillisWord
  BY DEF ClockInv, HeardOK, PlaceOK
<1>2. PICK s \in Nat : SetBy(s)
  BY DEF ClockInv, HeardOK
<1>3. PICK h \in Nat, delta \in Nat : h = heard.at /\ now = h + delta
  <2>1. now - heard.at \in Nat /\ now = heard.at + (now - heard.at)
    BY <1>1
  <2> QED BY <1>1, <2>1
<1>4. Since = delta + 1
  <2>1. PICK l \in Int : l = h - 1
    BY <1>3
  <2>2. Since = ((now % MillisWord) - (l % MillisWord)) % MillisWord
    BY <1>1, <1>3, <2>1 DEF Since, Millis
  <2>3. ((now % MillisWord) - (l % MillisWord)) % MillisWord = (now - l) % MillisWord
    <3>1. now \in Int
      BY <1>1
    <3> QED BY <1>0, <2>1, <3>1, RestOfSum, Zenon
  <2>4. now - l = delta + 1
    BY <1>3, <2>1
  <2>5. delta + 1 \in 0..(MillisWord - 1)
    BY <1>0, <1>1, <1>3
  <2>6. (delta + 1) % MillisWord = delta + 1
    BY <1>0, <2>5, LessThanATurn, Zenon
  <2> QED BY <2>2, <2>3, <2>4, <2>6
<1>5. PICK A \in Nat, B \in Nat, C \in Nat :
        A = s \div Second /\ B = (delta + 1) \div Second /\ C = now \div Second
  <2>1. delta + 1 \in Nat
    BY <1>3
  <2> QED BY <1>0, <1>1, <2>1, QuotientsOfSums
<1>6. s <= h + Second /\ (heard.own => h <= s)
  BY <1>2, <1>3 DEF SetBy
<1>7. PICK d \in Int : d = A + B - C
  OBVIOUS
<1>8. d <= 2 /\ -C <= d /\ (h <= s => -1 <= d)
  BY <1>0, <1>3, <1>5, <1>6, <1>7, NearTheTruth
<1>9. d \in (IF heard.own THEN -1 ELSE -(now \div Second + 1))..2
  BY <1>5, <1>6, <1>7, <1>8
<1>10. getEpochTime = (TrueTime(now) + d) % SecondsWord
  <2>1. TrueTime(s) = Boot + A /\ TrueTime(now) = Boot + C
    BY <1>5 DEF TrueTime
  <2>2. getEpochTime = (((Boot + A) % SecondsWord) + B) % SecondsWord
    BY <1>2, <1>4, <1>5, <2>1 DEF getEpochTime, SetBy
  <2>3. PICK z \in Int : z = Boot + A
    <3>1. Boot + A \in Int
      BY <1>0
    <3> QED BY <3>1, Zenon
  <2>4. ((z % SecondsWord) + B) % SecondsWord = (z + B) % SecondsWord
    <3>1. B \in Int
      OBVIOUS
    <3> QED BY <1>0, <3>1, RestOfSum, Zenon
  <2>5. z + B = (Boot + C) + d
    BY <1>0, <1>5, <1>7, <2>3
  <2> QED BY <2>1, <2>2, <2>3, <2>4, <2>5
<1> QED BY <1>9, <1>10

\* The clock that was set by a whole answer is near the true time, wherever the words of
\* millis() and of the seconds start over.
THEOREM ClockStaysNear == NtpSpec => []ClockIsNear
BY ClockInitial, ClockStep, ClockIsRight, PTL DEF NtpSpec

=============================================================================
