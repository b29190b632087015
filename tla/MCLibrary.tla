----------------------------- MODULE MCLibrary -----------------------------
(***************************************************************************)
(* The libraries of the sketch that work alone: HTTP client, clock,        *)
(* sensors, the packets of the MQTT client, and the reading and the        *)
(* documents of ArduinoJson.  A behaviour is one of one of them, and of    *)
(* one of the two sensors, which share nothing but the clock.              *)
(***************************************************************************)
EXTENDS HttpClient, NtpClock, Sensors, MqttPublications, JsonReading, JsonDocument

\* With a length; chunked, with a body that looks like a length; and after an
\* informational one.
SomeResponses ==
  {[code |-> "200", interim |-> FALSE, length |-> "2", chunked |-> FALSE, body |-> <<"x", "1">>],
   [code |-> "404", interim |-> FALSE, length |-> "none", chunked |-> TRUE, body |-> <<"1">>],
   [code |-> "200", interim |-> TRUE, length |-> "none", chunked |-> FALSE, body |-> <<>>]}
SomeMeasurements ==
  {[humidity |-> 450, temperature |-> 234], [humidity |-> 905, temperature |-> -16]}
SomeBadBits == {<<1, 0>>, <<5, 7>>}

\* Buffered, with an acknowledgment; streamed; and with a quality of service there is not.
SomeMessages ==
  {[topic |-> <<116>>, size |-> Unsized, retain |-> TRUE, qos |-> 2, dup |-> FALSE],
   [topic |-> <<116, 117>>, size |-> 4, retain |-> FALSE, qos |-> 1, dup |-> TRUE],
   [topic |-> <<117>>, size |-> Unsized, retain |-> FALSE, qos |-> 3, dup |-> FALSE]}
SomeWills == {[topic |-> <<119>>, retain |-> TRUE, qos |-> 1, bytes |-> <<>>]}
SomeChunks == {<<1, 2>>}
\* One without an identifier.
SomeLogins == {[id |-> <<>>, user |-> <<117>>, password |-> <<112>>, clean |-> TRUE]}

\* -5 and 7 where 9 places are written.
PowersOfTen == <<-2, 3>>

\* Of JSON: {a:  ,"b":  }  [  ]  ,  "\""  "\u00e9"  -1.5  null.  Of numbers: 6553  90  1
\* -  .  e.  Of MessagePack: arrays and maps of each header, a key, a string, numbers, null,
\* true, the unused code and a binary.
SomePieces ==
  [json |-> {<<123, 97, 58>>, <<44, 34, 98, 34, 58>>, <<125>>, <<91>>, <<93>>, <<44>>,
             <<34, 92, 34, 34>>, <<34, 92, 117, 48, 48, 101, 57, 34>>, <<45, 49, 46, 53>>,
             <<110, 117, 108, 108>>},
   number |-> {<<54, 53, 53, 51>>, <<57, 48>>, <<49>>, <<45>>, <<46>>, <<101>>},
   msgpack |-> {<<146>>, <<145>>, <<129>>, <<220, 0, 1>>, <<161, 97>>, <<217, 1, 34>>, <<1>>,
                <<205, 1, 0>>, <<209, 255, 0>>, <<202>> \o FloatBytes(Decimal("float", 15, -1), 4),
                <<192>>, <<195>>, <<193>>, <<196, 1, 7>>}]
SomeLimits == [json |-> 11, number |-> 8, msgpack |-> 8]
SomeTrailers == {<<49>>, <<93>>}

\* {"a":true}, [{"a":true}], {"*":[true]} and false.
True == AllowAll
ArrayTree(t) == [NullTree EXCEPT !.kind = "array", !.items = <<[key |-> <<>>, value |-> t]>>]
ObjectTree(key, t) == [NullTree EXCEPT !.kind = "object", !.items = <<[key |-> key, value |-> t]>>]
PlainFilters == {ObjectTree(<<97>>, True), ArrayTree(ObjectTree(<<97>>, True)), NullTree}
SomeFilters ==
  [json |-> PlainFilters \union {ObjectTree(Star, ArrayTree(True))},
   number |-> {NullTree}, msgpack |-> PlainFilters]

A == MemberStep(Linked(<<97>>))
B == MemberStep(Copied(<<98, 98>>))
SomePaths ==
  {<<>>, <<A>>, <<B>>, <<A, B>>, <<B, ElementStep(1)>>, <<ElementStep(0), ElementStep(1)>>}
SomeScalars ==
  {[type |-> "number", num |-> Decimal("uint", 1, 0)],
   [type |-> "string", str |-> Copied(<<98, 98>>)]}

VARIABLE at_work   \* the library of this behaviour
Others(vars) == UNCHANGED <<at_work, vars>>

LibraryInit ==
  /\ at_work \in {"http", "clock", "dht", "mq2", "publications", "reading", "document"}
  /\ HttpInit /\ NtpInit /\ SensorInit /\ PublicationsInit /\ ReadingInit /\ DocumentInit
  /\ at_work # "http" => alive
  /\ at_work # "reading" => format = "json"

LibraryNext ==
  \/ /\ at_work = "http" /\ HttpNext
     /\ Others(<<ntpVars, sensorVars, publicationVars, readingVars, documentVars>>)
  \/ /\ at_work = "clock" /\ NtpNext
     /\ Others(<<httpVars, sensorVars, publicationVars, readingVars, documentVars>>)
  \/ /\ at_work = "dht" /\ DhtNext
     /\ Others(<<httpVars, ntpVars, publicationVars, readingVars, documentVars>>)
  \/ /\ at_work = "mq2" /\ Mq2Next
     /\ Others(<<httpVars, ntpVars, publicationVars, readingVars, documentVars>>)
  \/ /\ at_work = "publications" /\ PublicationsNext
     /\ Others(<<httpVars, ntpVars, sensorVars, readingVars, documentVars>>)
  \/ /\ at_work = "reading" /\ Receive
     /\ Others(<<httpVars, ntpVars, sensorVars, publicationVars, documentVars>>)
  \/ /\ at_work = "document" /\ DocumentNext
     /\ Others(<<httpVars, ntpVars, sensorVars, publicationVars, readingVars>>)

LibrarySpec ==
  LibraryInit
  /\ [][LibraryNext]_<<at_work, httpVars, ntpVars, sensorVars, publicationVars, readingVars,
                      documentVars>>
=============================================================================
