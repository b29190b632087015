--------------------------- MODULE ConversationBot ---------------------------
(***************************************************************************)
(* The Telegram bot: a conversation of four questions with every chat, the *)
(* four module globals all conversations share, the publishing that ends   *)
(* one, and the periodic messages a chat may ask for.                      *)
(*                                                                         *)
(* Updates are handled one after the other, each handler to its end or to  *)
(* the exception that aborts it; handlers of different chats alternate.    *)
(***************************************************************************)
EXTENDS Integers

CONSTANTS
  Chats,
  Numbers,      \* texts isnumeric() accepts, other than the initial values
  MaxJobs       \* bound: periodic jobs of one chat

ASSUME JobsAssumption == MaxJobs \in Nat

VARIABLES
  state,        \* the question each chat is at, kept by the ConversationHandler
  mode, f, minValue, maxValue,      \* the globals
  published,    \* the last settings sent to topic "set": at most one element
  jobs,         \* periodic jobs of each chat
  told,         \* history: what the chat was told its settings will be
  chosen        \* history: the last number each chat has given for each question

settingVars == <<mode, f, minValue, maxValue>>
history == <<told, chosen>>
botVars == <<state, settingVars, published, jobs, history>>

\* The values before anyone has chosen anything (all four are text in the code;
\* mode becomes a number, which is printed the same).
Initial == [mode |-> "0", f |-> "5000", min |-> "0", max |-> "1"]

Questions   == {"mode", "f", "min", "max"}
Modes    == {"1", "0"}                    \* MQTT, HTTP
Junk     == "text"                        \* not a number
Values   == Numbers \cup {Initial.f, Initial.min, Initial.max}
Settings == [mode : Modes, f : Values, min : Values, max : Values]
States   == {"END", "METHOD", "SAMPLEFREQ", "MINGASVALUE", "MAXGASVALUE"}

ASSUME NumbersAssumption == Numbers \cap {Junk, "default", "?"} = {}

\* told[c][x]: "?" not asked yet, "default" skipped, or the text confirmed.
Nothing == [x \in Questions |-> "?"]

BotTypeOK ==
  /\ state \in [Chats -> States]
  /\ mode \in Modes /\ f \in Values /\ minValue \in Values /\ maxValue \in Values
  /\ \A p \in published :
        /\ p.told \in [Questions -> Modes \cup Values \cup {"default", Junk}]
        /\ p.chosen \in [Questions -> Modes \cup Values]
  /\ jobs \in [Chats -> 0..MaxJobs]
  /\ told \in [Chats -> [Questions -> Modes \cup Values \cup {"?", "default", Junk}]]
  /\ chosen \in [Chats -> [Questions -> Modes \cup Values]]

At(c, place) == state[c] = place

Goes(c, place)  == state' = [state EXCEPT ![c] = place]
Tells(c, x, v)  == told' = [told EXCEPT ![c][x] = v]
Chooses(c, x, v) == chosen' = IF v = Junk THEN chosen ELSE [chosen EXCEPT ![c][x] = v]

\* The end of a conversation, and of the history of what it was told.
Ends(c) == Goes(c, "END") /\ told' = [told EXCEPT ![c] = Nothing]

\* A global takes a numeric answer.  (Bugs: any answer is taken; the assignment is
\* to a local variable.)
StoresText(old, text)  == text
StoresLocal(old, text) == old
Stored(old, text)      == IF text = Junk THEN old ELSE text

\* reply_text() may raise: the handler ends there, and the conversation stays.
Replies(c, place, x, v) == Goes(c, place) /\ Tells(c, x, v)
ReplyFails              == UNCHANGED <<state, told>>
-----------------------------------------------------------------------------
Start(c) ==
  /\ At(c, "END")
  /\ Goes(c, "METHOD")
  /\ UNCHANGED <<settingVars, published, jobs, history>>

Method(c, m) ==
  /\ At(c, "METHOD")
  /\ mode' = m
  /\ Chooses(c, "mode", m)
  /\ Replies(c, "SAMPLEFREQ", "mode", m) \/ ReplyFails
  /\ UNCHANGED <<f, minValue, maxValue, published, jobs>>

\* Text that is not a number is confirmed like a number ("Selected: abc"), and not
\* stored; a skipped question is answered "Setting default", and changes nothing.
SampleFreq(c, text) ==
  /\ At(c, "SAMPLEFREQ")
  /\ f' = Stored(f, text)
  /\ Chooses(c, "f", text)
  /\ Replies(c, "MINGASVALUE", "f", text) \/ ReplyFails
  /\ UNCHANGED <<mode, minValue, maxValue, published, jobs>>

SkipSampleFreq(c) ==
  /\ At(c, "SAMPLEFREQ")
  /\ Replies(c, "MINGASVALUE", "f", "default")
  /\ UNCHANGED <<settingVars, published, jobs, chosen>>

MinGasValue(c, text) ==
  /\ At(c, "MINGASVALUE")
  /\ minValue' = Stored(minValue, text)
  /\ Chooses(c, "min", text)
  /\ Replies(c, "MAXGASVALUE", "min", text) \/ ReplyFails
  /\ UNCHANGED <<mode, f, maxValue, published, jobs>>

SkipMinValue(c) ==
  /\ At(c, "MINGASVALUE")
  /\ Replies(c, "MAXGASVALUE", "min", "default")
  /\ UNCHANGED <<settingVars, published, jobs, chosen>>

\* The last question: publish what the globals are now, and end.  The broker
\* may be unreachable (nothing is sent), and the last reply may fail after the
\* sending; in both cases the conversation stays where it is.
Publishes(c, x, v) ==
  LET data == [mode |-> mode, f |-> f, min |-> minValue, max |-> maxValue'] IN
  /\ published' = {[told |-> [told[c] EXCEPT ![x] = v], chosen |-> chosen'[c],
                    data |-> data]}
  /\ Ends(c) \/ UNCHANGED <<state, told>>

BrokerUnreachable == UNCHANGED <<state, told, published>>

MaxGasValue(c, text) ==
  /\ At(c, "MAXGASVALUE")
  /\ maxValue' = Stored(maxValue, text)
  /\ Chooses(c, "max", text)
  /\ Publishes(c, "max", text) \/ BrokerUnreachable
  /\ UNCHANGED <<mode, f, minValue, jobs>>

SkipMaxValue(c) ==
  /\ At(c, "MAXGASVALUE")
  /\ UNCHANGED <<maxValue, chosen>>
  /\ Publishes(c, "max", "default")
  /\ UNCHANGED <<mode, f, minValue, jobs>>

\* The globals keep what the cancelled conversation has stored.
Cancel(c) ==
  /\ state[c] # "END"
  /\ Ends(c)
  /\ UNCHANGED <<settingVars, published, jobs, chosen>>

\* /get adds a job and /stop removes all jobs of the chat, in any conversation.
Get(c) ==
  /\ jobs[c] < MaxJobs
  /\ jobs' = [jobs EXCEPT ![c] = @ + 1]
  /\ UNCHANGED <<state, settingVars, published, history>>

Stop(c) ==
  /\ jobs[c] > 0
  /\ jobs' = [jobs EXCEPT ![c] = 0]
  /\ UNCHANGED <<state, settingVars, published, history>>
-----------------------------------------------------------------------------
BotInit ==
  /\ state = [c \in Chats |-> "END"]
  /\ mode = Initial.mode /\ f = Initial.f
  /\ minValue = Initial.min /\ maxValue = Initial.max
  /\ published = {}
  /\ jobs = [c \in Chats |-> 0]
  /\ told = [c \in Chats |-> Nothing]
  /\ chosen = [c \in Chats |-> Initial]

Texts == Numbers \cup {Junk}

Answer(c) ==
  \/ \E m \in Modes : Method(c, m)
  \/ \E text \in Texts : SampleFreq(c, text) \/ MinGasValue(c, text) \/ MaxGasValue(c, text)
  \/ SkipSampleFreq(c) \/ SkipMinValue(c) \/ SkipMaxValue(c)

BotNext == \E c \in Chats : Start(c) \/ Answer(c) \/ Cancel(c) \/ Get(c) \/ Stop(c)

BotSpec == BotInit /\ [][BotNext]_botVars
-----------------------------------------------------------------------------
\* Settings go out only when the conversation of their sender has asked all four
\* questions, and hold numbers only: a text, a skipped question or an
\* unfinished conversation never reaches the device as a value.
PublishedAreComplete ==
  \A p \in published :
     /\ p.data \in Settings
     /\ \A x \in Questions : p.told[x] # "?"

\* What is sent at the end of a conversation is, for each question, the last number
\* its chat has given: what it was told is selected (conversationbot.py:120) where
\* that was a number, over cancelled conversations and failed replies.  Where it was
\* another text, or the question was skipped, it is the number before, whatever the
\* bot has said: "Selected: abc" (144) and "Setting default" (164) are not true.
LastNumberIsSent ==
  \A p \in published : \A x \in Questions :
     /\ p.data[x] = p.chosen[x]
     /\ p.told[x] \in Modes \cup Numbers => p.told[x] = p.data[x]
=============================================================================
