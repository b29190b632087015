# Models of the IoT air quality system

The repository is an indoor air quality monitor: a sketch for an Arduino board
with two sensors (`src/IndoorMonitor`), the libraries it is built with, and a
stack of services on a host (`src/tig-stack-main`): mosquitto, Telegraf with a
Python processor, InfluxDB, Grafana and a Telegram bot. This directory holds TLA+
modules of the parts that have state worth checking, TLC configurations for
small instances, and theorems with proofs checked by TLAPS.

    sensors -> sketch --MQTT "sensedData"--> mosquitto -> Telegraf -> data_forecasting.py -> InfluxDB
                 |  \----HTTP POST----------------------------^                                |
                 ^                                                                              |
                 '--MQTT "set"---- mosquitto <-- conversationbot.py (Telegram) <--- mean -------'

    sketch -> MqttClient, HttpClient -> WiFiClient -> WiFiSocketBuffer, ServerDrv \
           -> NTPClient -> WiFiUDP ------------------------------------------------> SpiDrv -> radio module
           -> WiFi -> WiFiDrv ----------------------------------------------------/
           -> ArduinoJson, DHT, MQ2

## Inventory

| part | state | operations | what makes it hard |
|---|---|---|---|
| MQTT client, receiving (`MqttClient.cpp:111-134, 410-754`) | `_rxState` and the fields of the packet being read, the socket's bytes, `_connected` | `poll`, `parseMessage`, `available`, `read`, `stop`, the callback | a packet comes in any number of pieces; the callback reads all, part or none of a payload in the middle of `poll`; reconnection half way through a packet |
| MQTT client, requests (`MqttClient.cpp:140-403, 648-994`) | `_returnCode`, `_txPacketId`, `_subscribeQos`, `_connected`; the payload buffer, the will, `_txBuffer` | `connect`, `subscribe`, `unsubscribe`, `beginMessage`..`write`..`endMessage`, `beginWill`..`endWill`, `connected` | each waits up to 30 s in a loop of polls, callbacks included; answers come late, never, or belong to an earlier request; one `write()` for three destinations |
| sketch (`IndoorMonitor.ino`) | limits and protocol, the window of five values, `idx`, the connection | `setup`, `loop`, `onMqttMessage`, `updateAQI`, `sendWithMQTT`, `sendWithHTTP` | settings arrive inside library calls; lost connections with a clean session; a change of protocol between samples; restarts |
| WiFiNINA: frames (`spi_drv.cpp`, `wifi_drv.cpp`, `server_drv.cpp`) | none of its own; static buffers | some eighty commands and their replies | frames padded by hand; replies lost, to another command, or errors; lengths cut to eight bits |
| WiFiNINA: `WiFi` object | static buffers, the module's network | `begin`, `beginAP`, scanning, addresses, `ping` | a status that is lost reads as "no shield"; buffers of an earlier network or scan |
| WiFiNINA: clients and socket buffers | `_sock`, a buffer per socket | `connect`, `read`, `write`, `available`, `connected`, `stop` | the peer sends and closes between any two commands; sockets are given out again at once, also one a failed write has closed and whose client keeps it; sends are retried |
| HTTP client | `iState`, response counters | `get`.., `beginRequest`.., `responseStatusCode`, `skipResponseHeaders`, `responseBody` | state left by an earlier response; answers later than their time-out; a connection that ends anywhere; a start that fails and is not looked at |
| NTP client | epoch, last update, the socket's buffer | `update`, `getEpochTime`, `get_millis` | 32-bit wrap of `millis()`, late and lost answers, commands that fail unnoticed, old bytes taken for an answer, two readings of the clock for one stamp |
| sensor drivers (`DHT.cpp`, `MQ2.cpp`) | cached values and their times, `MQ2`'s static array | `read*` | stale values after a failed read; an array initialised once; differences and sums of wrapping times |
| ArduinoJson | a document: a pool of slots and strings, lists of slots | `deserializeJson`, `deserializeMsgPack`, `serialize*`, the calls on `doc[...]` | text cut anywhere; filters that skip with other functions than those that read; numbers at the limits of their types; memory that is full in the middle of a call |
| Telegram bot (`conversationbot.py`) | four module globals, a conversation state per chat, jobs per chat | the handlers, `/cancel`, `/skip`, `/get`, `/stop` | globals shared by all chats; a reply or a publish that fails half way through a handler |
| forecasting processor (`data_forecasting.py`) | last packet number, loss count, `forecasted`, `forecastDict` | one pass of the loop per line | rows appear and expire between two queries; an exception ends the process, Telegraf starts it again; device restarts |
| the mean of the last day, helper scripts, test sketch, stack configuration, notebook | none or sequential | | |

Interaction: the sketch calls the MQTT and HTTP clients; `poll()` calls the
sketch back (`onMqttMessage`), also from inside `subscribe()`. Every library that
talks to the network does so by commands to the radio module, each of which takes
time in which the module, the peer and the network go on. Bot and sketch meet
in topic `set`, sketch and Telegraf in topic `sensedData` or in an HTTP POST; Telegraf
pipes each line through the processor, which reads InfluxDB that Telegraf
writes in its own time.

What makes each part correct:

- receiver: it never loses its place in the byte stream; every message is announced
  once, in order, with its own length and identifier; it acknowledges what was
  read and only that; it never takes a legal packet for a malformed one;
- requests: a reported success is real, a subscription in force is known, every
  request returns; what is written are whole packets with what the caller gave;
- sketch: connected means subscribed, a sample agrees with the settings it was
  taken under, settings are of one command and only get newer, a sample arrives at most
  once and in order, sampling goes on;
- radio: every command reaches the module whole, no success without an answer (two
  functions break this), no report of a state that is not; one owner per socket until a
  write fails; a client reads what its peer sent, once and in order;
- HTTP: a status is that of this request, a body is whole or nothing, a request is
  well formed; clock: near the true time, as long as its bytes are an answer's; sensors:
  values were sent, and lately;
- ArduinoJson: a text has one value however it is cut, filtered, moved or written
  again; a number is the one that is written; a document holds what the calls said;
- bot: what is sent is complete, numeric, and the last number the user has given;
- processor: forecasts are of the line in hand, lines pass once and in order, no
  loss goes unnoticed.

## Modules

| module | models | over |
|---|---|---|
| `MqttPackets` | the packets a broker sends, as bytes (`ByteAt(p, k)`) | |
| `MqttReceiver` | `poll`, `parseMessage`, `read`, acknowledgements; the caller is left open | `MqttPackets` |
| `MqttClient` | the requests and their waits, and a broker | `MqttReceiver`, which it also implements (`Spec` is a property of the run `client`) |
| `MqttPublications` | what the client writes: CONNECT with its will, buffered and streamed publications, the packets of `poll()`, byte by byte | |
| `IndoorMonitor` | the sketch, the connection with its two ends, the way of samples and settings | messages are whole: what `MqttReceiver` promises |
| `SpiDrv`, `WiFiDrv`, `ServerDrv` | the frames of the commands and what is made of a reply: operators only | each other, in this order |
| `NinaCalls` | every function of the drivers, with lengths and replies of every kind | `ServerDrv` |
| `WiFi` | the `WiFi` object with its static buffers and the module's network | `WiFiDrv` |
| `WiFiSockets` | TCP clients, the buffer of each socket, the module's sockets, the peers | |
| `ByteStreams` | abstract: a client reads what its peer sent on this connection | implemented by `WiFiSockets` |
| `HttpClient` | requests and responses over one connection after the other | |
| `NtpClock` | `NTPClient` over `WiFiUDP`, the time server and the network | |
| `Sensors` | the caches of both sensor drivers | |
| `JsonNumbers` | literals, writing, comparing and converting numbers | |
| `JsonMemory` | the pool, variants and collections of a document | `JsonNumbers` |
| `JsonText`, `JsonMsgPack` | reading and writing the two formats, filters | `JsonMemory` |
| `JsonReading` | a program that reads what it has received so far after each piece | `JsonMsgPack` |
| `JsonDocument` | a program that works on one document by paths | `JsonMemory` |
| `ConversationBot` | the conversation, the globals, publishing, jobs | |
| `DataForecasting` | the processor, its pipe, the database it reads | |
| `MqttReceiver_proof` | the receiver's types, its place in the byte stream, what it announces and acknowledges | |
| `MqttClient_proof` | the client is a caller the receiver allows; what its results mean | `MqttReceiver_proof` |
| `IndoorMonitor_proof`, `Host_proof` | theorems about the sketch; about the processor and the bot | |
| `Radio_proof` | the frames, the answers, the `WiFi` object | `SequenceTheorems`, `WellFoundedInduction` |
| `WiFiSockets_proof` | theorems about the sockets, with the refinement of `ByteStreams` | `SequenceTheorems` |
| `HttpClient_proof`, `Clocks_proof` | theorems about the HTTP client; about clock and sensors | `SequenceTheorems` (the clock's queue) |
| `MCMqttReceiver`, `MCMqttClient`, `MCIndoorMonitor` | the packet and command sets TLC uses | |
| `MCRadio`, `MCLibrary`, `MCHost` | several components side by side: a behaviour is one of one of them | see "Runs" |

An operator commented `(Bug: ...)` just before a definition is a plausible wrong
version of that definition. It is not part of any specification; it documents what
the properties are sensitive to: with it in place of the definition, the property
listed for it in `PROJECT.json` ("mutants") fails.

### MqttReceiver

The variables are the fields of `MqttClient` (`rxState` for `_rxState`, `topicGot`
for the length of `_rxMessageTopic`, and so on), the connection (`link`, what the
broker has `sent`, how many packets are `taken` and how many bytes `off` of the
next, what the client has written, `out`) and two history variables (`delivered`,
`acks`). `pc` is where the only thread is: in the application (`out`), in the loop
of `poll()`, in the callback, or at the keep-alive check at the end of `poll()`.

Each state of the switch in `poll()` is one action that takes one byte: `RxType`,
`RxLengthByte`, `RxVariableHeader`, `RxTopicLength`, `RxTopic`, `RxPacketId`,
`RxPayload`; the two early returns after `stop()` are `RxMalformed` and
`RxBadTopic`. `PollEnds` is enabled at every byte, so a packet arrives in any
pieces. `AppReads` is `read()` by the callback or between two polls.
`KeepAliveCheck` sends a ping or gives the peer up at will: the clocks are
abstracted to a choice. The bytes of a header are computed from the packet and
interpreted again by the receiver, lengths of more than one byte included; the
contents of topics and payloads are one character. `_rxLength` wraps at 2^30 instead
of 2^32 (TLC's integers end at 2^31); nothing it is compared with comes near.

`Requests`, `Reconnect`, `Accepted` and `GiveUp` stand for anything the caller may
do between two polls; `MqttClient` replaces them by the real requests.

### MqttClient

`op` is the request that waits and `result` how the last one ended. `WaitPolls` is
a turn of its loop; `ConnectReturns`, `SubscribeReturns`, `PubrecReturns`,
`PublishReturns` are the ends of the loops, by an answer (`Answered`) or without one
(`GaveUp`: 30 s have passed, or the connection is gone, at any time). The broker
answers each packet once and in order, refuses connections and subscriptions when it
likes, and what it writes to a dead connection is lost. It remembers which
messages it has `received`, `held` (QoS 2, before PUBREL) and `released`.

### MqttPublications

`tx` are the fields of the client that say where a byte goes: the message begun, the
payload buffer, the will (`willAt` for `_willMessageIndex`), the packet identifier.
`conn.wire` is what was written to the connection. `program` is the caller's own account
of what it composes, `sent` the packets it was to be; `Packets` decodes the wire as a
broker does, and `PacketsAreWhole` compares the two. `ClientWrites` has the ends of
`WiFiClient::write()`: the bytes are sent, and sent again by `retry()` for every reply
that is lost (`Attempts` times at most); or no reply comes at all and the connection is
closed, whether or not they were sent; or they were sent and the module did not confirm
it, which is reported as failed and leaves the connection open; or the connection ends in
their middle. CONNECT, the packets of `poll()` and DISCONNECT are one write each, so they
may come repeated, and `sent` counts the copies: a broker that gets a second CONNECT will
close the connection, and what a broker does is not in this module. The header and the
payload of a message are two writes: when one of them is sent twice, or sent and reported
as failed (`doubt`), the packet the broker reads is not the one composed, and nothing is
claimed until the next connection. A caller that streams a message or composes a will does
nothing else until it has written all of it: the client would put a ping or the DISCONNECT
of `stop()` into either.

### IndoorMonitor

One action per stretch of `setup()` and `loop()` between two places where something else
can happen: `Check`, `SubscribeReturns`, `PollReturns`, `Delay`, `Sense`, `Build`, the two
ways to send. A callback runs where `Polling` says: in `poll()` and while `subscribe()`
waits. A command carries its number (`ver`), so that order and mixture can be told. `link`
and `peer` are the two ends of the connection: the device writes on for a while to one
that the broker has closed, and can still read what had arrived, with the last message
perhaps cut (`Arrived`). A payload may stall (`Stalls`): a byte later than a second is
read as -1 and stored, and what the damaged text parses to is applied: a value is missing
and becomes 0, or a number ends early (`Cut`: of 15 its 1) and what comes behind it is
missing. `SettingsOfOneCommand` says what is left of "settings are those of a command"
then. The average of the window is compared as a sum, in half units, so nothing is
rounded.

### The radio module

`SpiDrv` builds the frame of a command from the calls the drivers make (`SendCmd`,
`SendParam`, `LastParam`, ..., joined by `++`) and keeps of a parameter its length; the
readers `waitResponseCmd` and its three relatives take a reply byte by byte and say
whether they accepted it and what they copied. Each function of `WiFiDrv` and `ServerDrv`
is an operator: the frame it sends and what it makes of the reply. `NinaCalls` calls all
of them. `NoAnswerNoSuccess` excepts two by name and value: `availServer()`, for which
silence is socket 0, and `getDataBuf()`, which returns true with the length and the bytes
its buffer had before (`server_drv.cpp:347-356`). `FrameWhole` excepts five frames by name
(`Unpadded`): three commands for pins pad 8 bytes by one more, `setEnterprise` counts 15
bytes where it sends 16, `fileOperation` leaves out its data, although the comment in each
says "pad to multiple of 4".

`WiFi` is the object's functions as actions, a loop's turn where they loop, over a
module that may lose a reply whether or not it did what it was asked.

`WiFiSockets` takes one step per command: the peer sends and closes in between
(`connected()` asks for bytes, then for the state). The refinement mapping to
`ByteStreams` is by name (`sent` and `got`): what a client has read is a prefix of
what its peer sent on this connection. Two things the code does end that, and the
model has both. A failed write closes the module's socket and keeps `_sock`: the module
may give it to the next client that connects (`Keepers`), both read and write on it
then, and the first one's next `connect()` or `stop()` closes the connection of the second.
Nothing in the code prevents it: the sketch does not look at `wifi2` after an HTTP
write, and `poll()` may fail to write between two looks at the MQTT client. `astray` are
the clients that may be in this. And when the reply to a read is lost, the buffer counts
as filled with what was in it. `spoilt` are the clients whose bytes are not said to be
their peer's, for either reason; the next connection, on a socket nobody else keeps,
clears both. A socket whose state the module has told to nobody stays in use.

### HttpClient, NtpClock, Sensors

In `HttpClient` a symbol is what the parser tells apart: a prefix of a header, CR,
LF, a digit, any other character. The server sends one of a few responses and may
stop anywhere in it; each wait may end by its time-out (`StatusTimesOut`,
`HeadersTimeOut`) with the bytes still to come. `HeaderNothing` is the -1 that
`headerAvailable()` takes for a character. `StartRequest` fails in two ways
(`WiFiClient.cpp:44-60`): the name is not found, and the old connection stays with what it
still brings; or the old one is stopped and the new one is not there, or is made later
than `connect()` waits for it. The application may go on with a begun request all the
same, as the sketch does; on a connection that is open it is "unstarted" then, in
`slips`, and its headers and body are on the wire without their line.

`NtpClock` counts ticks of 10 ms, the pause between two looks for the answer. Words
of `millis()` and of the seconds since 1900 are small, so both start over within the
bound. An answer has two bytes, so that half of one can be left. When the reply to
the command that fills a buffer is lost, `getDataBuf()` returns true and the buffer counts
as full (`BufferSize`) with bytes of no answer (`OfNoAnswer`, read as any of `Stale`):
`forceUpdate()` sets the clock by them and reports success, and with 1500 bytes
up to thirty-one of the updates behind it get more of them, until `begin()` empties the
buffer.

`Sensors` is what both drivers remember: the bits of the last measurement and its time,
the gas values and theirs, over a `millis()` that starts over. `MQ2::read()` returns a
function's static array, initialised by the first call (`MQ2.cpp:35`): `mq2.values` keeps
that measurement for ever, and `ReadIsTheFirst` says so instead of a freshness it has not.
The five bytes of a measurement are decoded by the type of the sensor (`DhtType`): whole
degrees, tenths, or a word whose first bit is the sign.

### ArduinoJson

`JsonMemory` is the pool: strings from the left, stored once, slots from the right,
nothing given back before `clear()`; variants, lists of slots, sizes. `JsonText` and
`JsonMsgPack` are the recursive parsers and serializers over it, with filters, the
nesting limit and both ways of keeping strings (copied, or moved within the text).
`JsonReading` receives a text piece by piece and reads it anew each time.
`JsonDocument` calls `set`, `add`, `remove`, `clear`, ... on paths, as `operator[]`
makes them, in a pool that gets full.

What the code does that its user may not expect, modelled as it is:

- a literal is read by digits: `18446744073709551616` is ten times as much
  (`parseNumber.hpp:62-66`, `Lapsed`), `0e400` infinite and what follows it is not
  looked at (108-133, `Extreme`); with a UInt of 32 bits, which the sketch does not
  have (`ARDUINOJSON_USE_LONG_LONG`), also `1672531200123.5` is 1672531200500;
- a key that comes again with null keeps its old value in JSON, and makes a second
  member in MessagePack (`again`; a document with one need not read back equal);
- a filter with "*" that meets an array in MessagePack reads a null pointer
  (`MsgPackDeserializer.hpp:378-386`): the run gives such a filter to JSON only;
- an object without a member equals one where that member is null
  (`CollectionImpl.hpp:80-90`), raw values compare their common prefix, "not a
  number" equals every number: read-back is therefore checked both by the
  library's comparison and by value;
- `set()` returns whether the pool has ever overflowed, not whether it stored;
  reading `doc[0][1]` adds `doc[0]` (`ElementProxy.hpp:149`).

### ConversationBot and DataForecasting

Bot: one action per handler; each is one step because updates are handled one after
the other. A handler may end at a failing reply with the globals already changed
(`ReplyFails`), or at a broker it cannot reach. `told` records what the chat was
told, `chosen` the last number (or protocol) it has given for each question. The two
differ where the bot confirms what it does not send: "Selected: abc" for a text that is no
number (`Junk`), "Setting default" for a skipped question. `LastNumberIsSent` covers these
cases too: the number before is sent.

Processor: a pass of the loop is split where it does something that takes time: the
time request, each query, each print. In between Telegraf may flush printed lines to
InfluxDB (`Flush`) and rows leave the day a query asks for (`Expires`). `Crash` is an
exception of a request, `Restart` is Telegraf's restart. A device that restarts
numbers from 0. Numbers of rows stand for what a forecast is computed from.

## Runs

| run | question | bounds | states |
|---|---|---|---|
| `rx_callback` | with a callback, does the receiver keep its place, announce all messages once and in order, acknowledge exactly what was read, and accept every legal packet? | 2 packets per connection out of 4 kinds (each QoS, with and without payload, an identifier of two bytes, PUBREL); connections without limit; a ping or request unread | 4.7 M |
| `rx_polling` | without a callback: is a message acknowledged once, and is an empty message the only reason to lose the place? | 2 packets out of 4 kinds, among them lengths of two bytes and packets that look malformed when read one byte late | 1.7 M |
| `rx_double_ack` (violated) | is only an empty message acknowledged by the callback's return? | 1 packet | |
| `client` | is a reported success real, is the subscription known, does every request return, and does the client implement the open receiver? | 3 packets per connection, identifiers 1 and 2, one unread packet of the client | |
| `client_released` (violated) | does a QoS 2 publish that returns 1 mean that the message is released? | 3 packets | |
| `monitor` | are settings of one command and in order, samples in order and of their settings, and does sampling go on? | 2 commands, 2 samples per start, 1 restart, stalled payloads | |
| `host` | processor: freshness, order, loss over crashes and restarts; bot: is what is published complete, numeric and, for each question, the last number given? | 3 lines, 1 device restart, crashes without limit; 1 chat, 2 numbers, 2 jobs | |
| `bot_two_chats` (violated) | the same for two chats | 2 chats, 1 number | |
| `forecast_lost` (violated) | is the logged loss the number of lost packets? | 2 lines, no failures | |
| `radio` | are frames whole and successes answered; does the `WiFi` object report its own network; do the sockets implement streams of bytes? | lengths on both sides of every boundary, 2 networks, 2 clients on 2 sockets, every reply may be lost, 2 tries to send | |
| `library` | the six libraries that work alone: see "What makes each part correct" | `library.cfg` | 2.4 M |
| `ntp_millis` (violated) | is `get_millis()` the milliseconds of this second? | 20 ticks, no failures | |

`MCRadio`, `MCLibrary` and `MCHost` put parts side by side that share nothing: in a
behaviour one of them runs and the others stay at their initial states. Their runs
check what a run of each part would.

Why the bounds are enough to be interesting.

- MQTT: two packets on a connection show a place lost by the first at the second, with
  every pair of kinds; a reconnection starts from every state the first connection
  can be left in, so the old state of the receiver meets a new stream. Three packets
  and two identifiers let the answer of an abandoned request arrive while a later
  one waits. `MaxOut` bounds what the client has written and the broker has not read,
  where the code would go on writing; answers the receiver itself must write
  (PUBACK, PUBREC, PUBCOMP, DISCONNECT) are never held back by it.
- Sketch, bot, processor: two commands show order and mixture; two samples per start
  and one restart show repetition and the reuse of indices. Two numbers and two jobs
  show a value that is not the one told. Three lines show a value of the first
  skipped for the second and printed with the third.
- Radio: lengths on both sides of a word and of eight bits, buffers on both sides of
  sixteen; two networks and scans of none, one and more names than the list holds;
  two clients on two sockets, which are given out again at once, two bytes on a
  connection (one in the buffer, one in the module), two tries to send (`Tries`, 6 in the
  code), so that a success may follow a lost reply and a failure may follow two. Clients,
  sockets and bytes are alike in code and properties (`Alike`).
- HTTP: two requests, so that everything the first response can leave behind meets the
  second; three responses, one with a length, one chunked with a body that looks like a
  length, one without a body behind an informational one. In every response another header comes before the one
  that announces the length: a begun request, which is not reset, may miss a
  `Content-Length` that is the first header when the response before was left in the
  middle of one. `HeaderNothing` happens once, where nothing
  else went amiss. Clock: 9 ticks with `millis()` over after 8 and seconds over after 64, a
  limit of three ticks for an answer, a buffer of one answer and a half. Sensors: ten ticks
  with `millis()` over after 7; the two drivers share nothing but the clock and run in
  behaviours of their own.
- Publications: a connection with three packets; lengths carry three bits to a byte
  (`LengthBase` 8 for 128), so that remaining lengths have one and two bytes;
  identifiers wrap after 2; a payload buffer of 3 that the second write fills; two
  tries to write (`Attempts`, 6 in the code); behind a doubtful packet no other is
  begun (`AnotherFits`), as nothing is claimed of it. One login, without identifier.
- JSON: texts of up to 11 characters out of pieces that make every state of the
  parser, numbers of 8 and MessagePack of 8; UInt of 16 bits and mantissa of 12 for 64
  and 52, two decimal places for nine, powers of ten -2 and 3 for -5 and 7, a nesting
  limit of 3 for 10, words of 7 for 63. A pool of 20 (reading) or 22 (document)
  characters with slots of 8, so that it is full after a slot, after two and in the
  middle of a string; four calls on a document.

Further bounds: `MaxPacketId` (65535 in the code), `MaxJobs`, `MaxBoots`, `MaxFlying`
(answers on their way at once), `MaxWrites`.

`CHECK_DEADLOCK FALSE` is set where the bounds (and a halted or hung device) stop a
system that otherwise runs on. The MQTT client (`rx_*`, `client*`) has no deadlock.

### Fairness

`RequestsReturn` assumes weak fairness of the steps of `poll()` and of the wait's next
poll: the sketch has one thread and it runs on. It assumes strong fairness of a
request's return, which is possible between two polls only: `_connectionTimeout` ends
the loop after 30 s however many polls fit in. The callback returns (the sketch's
need not: see below; in `MqttClient` the application is arbitrary, and that run
takes its return as part of the thread running on). Nothing is assumed of the
broker or the connection. `SamplingGoesOn` assumes weak fairness of the sketch's own
steps only; messages, failures and restarts (bounded by `MaxBoots`) come as they like. It
excludes the two ends the code has: `setup()` halts when there is no broker, and a
callback whose message was cut by a broken connection waits for ever
(`CallbackHangs`), since `available()` stays positive and `read()` returns -1.

### What the violated runs show

- `rx_double_ack`: when the callback reads a payload to its end, `read()` sends the
  acknowledgement and the test after the callback (`MqttClient.cpp:591`, `_rxLength
  == 0`) sends it again; its comment speaks of a zero-length message.
- `client_released`: without a PUBREC within 30 s `endMessage()` goes on to
  PUBREL; a late PUBREC then counts as the PUBCOMP, because any of the answers
  with the right identifier sets `_returnCode`.
- `bot_two_chats`: answers of one chat replace those of another before they are
  sent, after the bot has told it "Selected: ...".
- `forecast_lost`: a gap counts one packet too many.
- `ntp_millis`: `get_millis()` returns all the milliseconds since the last update,
  where its header promises those of this second. The sketch adds it to the whole
  seconds (`IndoorMonitor.ino:135`), so the time since the update counts twice.

Some observations are not runs of their own. `/skip` keeps the value of an
earlier conversation, where the reply speaks of a default (in the model: `told` is
"default", the global is unchanged), and a text that is no number is confirmed and not
sent. `MQ2::read()` returns the first measurement for ever. A lost reply with data sets
the clock by old bytes, with success. A failed write leaves two clients with one
socket. `parseMessage()` after an empty message
discards one byte of the next packet (`MqttClient.cpp:606`); `rx_polling` checks that
this is the only way to lose the place. The sketch uses a callback and is not
affected.

## Proofs

TLC checks small instances; the theorems hold for every value of the constants that their
modules' assumptions allow: any number of packets, connections, commands, samples,
restarts, clients, sockets, chats, networks, lengths and milliseconds. They cover every
safety property of `rx_callback`, `rx_polling`, `client`, `monitor`, `host` and `radio`,
and of `library` those of HTTP, the clock and the sensors. The type invariants of the
modules proved about are theorems (`TypeCorrect`, `HttpTypeCorrect`, `SocketTypes`,
`BotTypes`) and not properties of a run.

### The receiver

`MqttReceiver_proof` begins with lemmas about bytes: the two bytes of a word give it
back, and the bytes of a remaining length give it back in as many steps as it has
bytes. `TypeCorrect` (`TypeOK`) follows. The inductive invariant is `TypeInv`: the
types, and, while the link is up, `StateFields`: in each receiving state the index
into `_rxMessageBuffer` and the length still to come are what the state needs. It
holds without a callback too, where the receiver may lose its place and interpret
any byte as any other.

- `ShiftedByEmptyOnly` (`ShiftedByEmptyMessage`), for every caller. Neither `Framing` nor
  this property is inductive: they say nothing inside a packet. `PlaceInv` says for each
  receiving state at which byte of the current packet the receiver stands and how
  `_rxLength`, the partial length and the partial topic length follow from the bytes
  taken; each action moves from one such place to the next, and the last byte of a packet
  leads back to `READ_TYPE`. One step alone leads out of it: the announcement of an
  empty message without a callback (`Shifted`), and `connect()` leads back.
- `PolledAckedOnce` (`AckedOnce`), without a callback, from `AckInv`: while there is
  payload to read the message has not been acknowledged. It holds after a lost place too;
  with a callback it is false (`rx_double_ack`).

The next four assume `NothingShifts`: the application has a callback, as the sketch has, or
no message the broker sends is empty.

- `KeepsItsPlace` (`Framing`) and `TakesEveryPacket` (`NeverMalformed`), from `PlaceInv`;
- `AnnouncesEachOnce` (`AnnouncedInOrder`) and `AcksTheMessage` (`AcksWhatWasRead`), from
  `DeliveredInv` on top of `PlaceInv`: the fields collected so
  far agree with the packet, what has been announced are the PUBLISH packets read,
  and from the announcement to the end of the payload the last one announced is the
  packet being read, with the identifier an acknowledgement will carry.

### The requests

`MqttClient_proof`, for any packets, identifiers and bounds for which the receiver's open
caller may write what the client writes (`CallsAssumption`) and receive what the
broker answers (`AnswersAssumption`), and again under `NothingShifts`:

- `ClientIsCaller` (`Spec`): every step of the client is one of the open receiver, or leaves
  it as it is: a request is `Requests`, a wait's return nothing, and the broker's part
  is what a broker may send. `ClientKeepsItsPlace` carries what was proved of the
  receiver over to the client;
- `SuccessIsTheBrokers` (`SuccessIsReal`) and `SubscriptionsAreKnown`
  (`SubscriptionIsKnown`), from `ClientInv`. Neither is inductive: a success is read off
  `_returnCode`, which any answer with the awaited identifier may have set. `BrokerInv`
  says that whatever answer is still on its way or half read was given by the broker for
  something it did on this connection (`MessagesInv`, `TopicInv`, `ConnectInv`) and, where
  it has the current identifier, for the request that waits (`OwnInv`); `CodeInv` says
  what `_returnCode` says of that, and `ResultInv` what follows for the result.

### The HTTP client

`HttpClient_proof`, for any server that announces the length its body has
(`HttpAssumption`):

- `HttpTypeCorrect`: the fields keep their types whatever symbols arrive, and a call that
  is over leaves nothing behind (`HttpTypes`);
- `RequestsAreWhole` (`RequestsWellFormed`), from `CallInv` and `WireInv`. The property looks at
  what was written only; whether the headers have been ended is in `iState`, and
  `CallInv` says what `iState` must be at each stage the application can be in
  (a request that was begun is not yet sent, one with a body is), unless it has
  abandoned a begun request. `WireInv` says what the last thing written may be, unless the
  application has gone on, on an open connection, with a request whose start failed;
- `ResponsesAreOwn` (`ResponseIsOwn`) and `BodiesAreWhole` (`BodyIsWhole`), from
  `ResponseInv`. Neither is inductive: a status, a length and a body are read off counters
  that every symbol moves. `ResponseInv` says, for a connection of its own and a request
  that was started, that what is still to come is a rest of the response to this request,
  and at which place of it the fields stand: in the status line (`AtStatus`), in one of
  the header lines (`AtHeaders`), in the body (`InBody`), and what `responseBody()` has
  collected by then (`Collected`). One case had to be found with TLC: `beginRequest()`
  leaves `iIsChunked`, so a plain body may be read as if it were chunked (`Mistaken`);
  then some of it is taken for the length of a chunk, the announced length is never
  reached, and the result is nothing.

### The sketch

`IndoorMonitor_proof`, for any broker, bot and network the model allows:

- `TypeCorrect` (`TypeOK`);
- `LiveMeansSubscribed` (`ConnectedIsSubscribed`), from `SessionInv`: a granted
  subscription is in force while the broker's end lives, and a message is cut only
  after that end is gone. The second part is needed for a callback that hangs inside
  `subscribe()`: it leaves the wait without its result, but on a dead connection;
- `SampleIsCurrent` (`SampleMatchesSettings`), from `SampleInv`: a callback is active only
  where `poll()` runs, so the index stands from `updateAQI()` to the sending;
- `LaterSettingsReplace` (`SettingsInOrder`), from `OrderInv`: nothing waiting or in force
  is newer than the last command, so that the next one is newer than all;
- `SettingsFromOneCommand` (`SettingsOfOneCommand`), from `WholeInv`: what waits and what is
  being read is of one command too. Where a payload stalls a value may be missing or the
  beginning of its number, with nothing behind it, but never one of another command;
- `TakenOnceInOrder` (`OncePerSample`), from `PathInv`: what is at Telegraf and what is
  between broker and Telegraf is earlier than the first index not yet sent (of this
  start of the device), and samples by MQTT reach Telegraf before those behind them.

### The processor

`Host_proof`:

- `TypeCorrect`: `TypeOK`, one step per action;
- `LineInvariant`: the inductive invariant `LineInv`, in three parts beside the type.
  `Ahead`: identities grow from the line in hand through the pipe. `ForecastsHold`: the
  fields visited in this pass have values of the line in hand or `forecasted` is
  false, and the fields not yet visited have older ones; this is what makes the
  flag mean something although neither it nor `forecastDict` is cleared.
  `Passed`: identities passed on grow and are below the line in hand until it is
  printed. `ForecastIsFresh`, `ForecastWhenAllFields` and `PassedInOrder` are not
  inductive by themselves: none says how old the value of a field yet to be
  visited is, nor how the line in hand compares with those in the pipe. They follow
  as `Freshness`, `AllFieldsOrNone`, `OnceInOrder`;
- `NoLossUnnoticed`: `LossIsNoticed`, from `CountsHold`: packet numbers grow from the last
  one counted through the line in hand and the pipe to the device's next
  (`Growing`), and the count is 0 exactly when those counted are 0, 1, 2, ...
  (`Counting`), as long as the device has not restarted. After a restart of the device
  a fall of the number may cancel earlier gaps, and nothing is promised.

### The bot

`Host_proof`:

- `BotTypes`: `BotTypeOK`, which says among others that the settings published from are
  always numbers, those the bot starts with or typed ones, whatever the users type;
- `CompleteWhenSent`: `PublishedAreComplete`, for any number of chats that share the
  globals. A chat publishes from its last question, where the property says
  nothing; `CompleteInv` adds what has been answered at each question before it
  (`AskedBefore`);
- `LastNumberGoesOut`: `LastNumberIsSent`, for one chat, any numbers and any other texts. It
  needs that the globals are the last numbers the chat has given (`Agrees`), and that a
  question not yet asked has no answer (`NotAsked`). With two chats it is false: that
  is `bot_two_chats`.

Both need that a number is not taken for an unset or default value
(`NumbersAssumption`).

### The sockets

`WiFiSockets_proof`:

- `SocketTypes`: `SockTypeOK`. It needs that who waits in `connect()` or `connected()`
  still holds a socket (`BusyHolds`);
- `OneOwner` (`SocketsOwned`) and `ToldSent` (`ToldIsSent`), from `OwnInv`: clients that have
  one socket are astray and spoilt (`Sole`), a buffer that is not empty is held (`Kept`),
  the socket of a client that is not astray is in use for it (`Owned`), who the module
  has a socket for holds it (`Holder`), and a socket it has for nobody brings no bytes
  (`Nobodys`). `SocketsOwned` alone is not inductive: it does not say that a socket the
  module calls free is held by nobody but clients whose write failed;
- `RefinesStreams` (`ImplementsStreams`): every step is one of `ByteStreams` or changes
  none of its variables. `StreamsInv` splits what the peer has sent into what was read,
  what is in the buffer and a rest, which is what the module holds while it has the
  connection for the client, for every client that is not spoilt. A connect that
  succeeds is `Open`, a peer that sends is `Send` of the client that owns the socket,
  `read()` is `Receive`, and a client becomes spoilt with the step that spoils it.

None of them has a hypothesis about the application or about lost replies: what the code
does not keep is in the histories `astray` and `spoilt`.

### The radio module

`Radio_proof`, for every command, string, buffer and network the models allow (the
lengths of buffers are natural numbers, `LensAssumption`; networks are numbers,
`WiFiAssumption`):

- `FramesAreWhole` (`FrameWhole`) and `SuccessIsAnswered` (`NoAnswerNoSuccess`). Both are
  about one call, so the invariant is only that the last call was good; the work is in
  the operators. A frame is followed piece by piece: `Is` says what has been written
  so far, there is a lemma for each kind of piece, and one for each function of the
  drivers that puts its frame together. For a success, every function is shown to give
  up with its failing value on what is no reply to its command, by way of
  what `waitResponseCmd` and its sisters return then; `availServer()` and `getDataBuf()` are
  shown to return socket 0 and the old bytes;
- `ReportsAreSo` (`ReportsAreTrue`) and `BuffersAreOfNow` (`BuffersAreFresh`), from `WiFiInv`. The
  properties are about the step with which a function returns; the step needs that a
  `begin()` that is still waiting waits for the network the module is on
  (`OnItsNetwork`). What the functions return is what the module has answered: the bytes of
  a reply of one parameter, and of a list of any number of names, are shown to read back
  (`AnswerReads`, `ReplyIs`, `ListIs`). The place of a parameter in a reply is defined by
  recursion over those before it; that this function exists (`LengthsFollow`), and what it
  is for parameters of one length, are inductions.

### The clocks

`Clocks_proof`, for any words, intervals and numbers of tries; the two intervals of the
sensors are not 0 (`SensorAssumption`). It begins with arithmetic: numbers that start over,
subtracted before or after they do.

- `SensorsTellTheTruth` (`ReadingsAreReal`), from `SensorInv`: `lastreadtime` is the time
  of the last attempt in the word of `millis()`, the data kept after a good one is the
  whole measurement taken then, no gas value is older than the last `read()`, and the
  array of `MQ2::read()` is that of its first call. The value is undone from two bytes for
  each type of sensor, so this needs the bytes of a number to give it back;
- `ClockStaysNear` (`ClockIsNear`), from `ClockInv`. The property looks at the clock long after
  the answer; `HeardOK` says what was set then, in the words of both clocks: the millisecond
  before the request, and the seconds of an answer stamped at most a second after it (and
  not before it, if it is the request's own). That follows from `PlaceOK`, where in
  the wait `update()` is, which bounds how long the answer took, and
  `NetworkOK`: every packet in the socket, its queue or the air was stamped in the past, and
  a buffer has bytes of no answer only behind a lost reply (`Explained`).

### Only model-checked

What the requests write byte by byte (`PacketsAreWhole`), and the JSON properties
(`FilterIsProjection`, `SameWhicheverWay`, `NumbersAreExact`, `DocumentHolds`): their
modules define recursive operators over texts and trees, and the prover's arithmetic is
not available in a module that reaches one. The theorems of induction take an operator,
which no installed prover can instantiate. Where a proof does use induction (over the
parameters of a reply, the places of a list), it takes the least element of a set of
counterexamples. The JSON operators are checked against reference definitions (`Project`,
`Literal`, `Put`) over bounded inputs. Liveness (`RequestsReturn`, `SamplingGoesOn`) is
outside what the prover handles, and the properties of the runs that expect a violation
are false.

## Not modelled, and why

- A SUBACK that refuses the subscription, in `IndoorMonitor`: the broker's
  configuration in the repository grants every topic. `MqttClient` does model it.
- The keep-alive clock and the sampling period: where they decide control the models
  make a choice. `MqttClient.cpp:632` is therefore not held to its time.
- `WiFiServer`, the file functions of the module beyond
  their frames; `HttpClient::sendBasicAuth`, `readHeaderName`, `readHeaderValue` and
  `WebSocketClient`: the device uses none of them.
- The pulses of a DHT bit, the float curves of the gases, the pins of the SPI bus.
- ArduinoJson: `shrinkToFit()`, comments (compiled out), readers and writers of streams,
  user-defined converters, the iterators of `ArrayRef` and `ObjectRef`, the rounding of
  binary floats.
- The numbers of Prophet, the delay statistics, the weather fields: no control
  depends on them.
- The mean of the last day, the helper scripts, the test sketch and the notebook keep
  no state and share none; the stack's configuration enters as external actions.

## Plan

1. Done: receiver, requests, publications, sketch, radio, HTTP, clock, sensors, JSON,
   bot, processor; the streams of bytes that the sockets implement.
2. `KeepAlive` and `DeviceTimers`: discrete time for the ping, the dead-peer test and
   the sampling period against the broker's one and a half intervals.
3. `AirQualitySystem`: bot, sketch and processor composed through the broker.
4. Proofs left: see "Only model-checked"; of these first `PacketsAreWhole`, with the
   encodings and the broker's reading as recursive functions.
