----------------------------- MODULE NinaCalls -----------------------------
(***************************************************************************)
(* Every function of the drivers of the radio module, called with strings  *)
(* of many lengths and with answers of every kind: its own, one to another *)
(* command, an error, none.  The state is the last call, which function it *)
(* was where two share a command or do not take silence for a failure, and *)
(* whether the module had really answered it.                              *)
(***************************************************************************)
EXTENDS ServerDrv, SequencesExt

CONSTANTS Lens,       \* lengths of an argument of eight bits
          FewLens,    \* those taken where a function has three or more
          StrLens,    \* lengths of strings that are measured with strlen
          BufLens     \* lengths of buffers

ASSUME LensAssumption ==
  /\ Lens \subseteq 0..255
  /\ FewLens \subseteq Lens
  /\ StrLens \subseteq Nat
  /\ BufLens \subseteq Nat

VARIABLES call, function, heard

callVars == <<call, function, heard>>

(***************************************************************************)
(* What the module may answer.                                             *)
(***************************************************************************)
Encoded(params) == FlattenSeq([i \in 1..Len(params) |->
                               <<Len(params[i])>> \o params[i]])
Answer(cmd, params) ==
  <<START_CMD, cmd + REPLY_FLAG, Len(params)>> \o Encoded(params) \o <<END_CMD>>
\* The length of a reply to a command with DATA_FLAG has two bytes.
Answer16(cmd, data) ==
  <<START_CMD, cmd + REPLY_FLAG, 1, 0, Len(data)>> \o data \o <<END_CMD>>

Parameters == {<<>>, << <<>> >>, << <<0>> >>, << <<1>> >>, << <<7>> >>,
               << <<1>>, <<2>>, <<3>> >>}
Codes == {Code[name] : name \in DOMAIN Code}
Answers ==
  {[of |-> cmd, bytes |-> Answer(cmd, ps)] : cmd \in Codes, ps \in Parameters}
    \cup {[of |-> Code.GET_DATABUF_TCP_CMD,
           bytes |-> <<DUMMY_DATA>> \o Answer16(Code.GET_DATABUF_TCP_CMD, <<1, 2>>)]}
    \cup {[of |-> 0, bytes |-> <<>>],
          [of |-> 0, bytes |-> <<ERR_CMD, 0, END_CMD>>]}

(***************************************************************************)
(* The calls.                                                              *)
(***************************************************************************)
FileCmds == {Code.WRITE_FILE, Code.READ_FILE, Code.DELETE_FILE, Code.EXISTS_FILE}
WiFiCalls(s) ==
  {getNetworkData(<< <<0>>, <<0>>, <<0>> >>, s), getRemoteData(<< <<0>>, <<0>> >>, s),
   config(s), setDNS(s), disconnect(s), getReasonCode(s), getConnectionStatus(s),
   getMacAddress(<<0>>, s), getCurrentSSID(s), getCurrentBSSID(<<0>>, s),
   getCurrentRSSI(s), getCurrentEncryptionType(s), startScanNetworks(s),
   getScanNetworks(s), getHostByName(<<9>>, s), getFwVersion(<<0>>, s),
   getTime(s), setPowerMode(s), ping(<<9>>, s), debug(s), getTemperature(s),
   pinMode(s), digitalWrite(s), analogWrite(s), digitalRead(s), analogRead(s),
   applyOTA}
    \cup {getEncTypeNetowrks(i, s) : i \in {9, 10}}
    \cup {getBSSIDNetowrks(i, <<0>>, s) : i \in {9, 10}}
    \cup {getChannelNetowrks(i, s) : i \in {9, 10}}
    \cup {getRSSINetoworks(i, s) : i \in {9, 10}}
    \cup {wifiSetNetwork(n, s) : n \in Lens}
    \cup {wifiSetPassphrase(n, m, s) : n \in Lens, m \in Lens}
    \cup {wifiSetKey(n, m, s) : n \in Lens, m \in Lens}
    \cup {setHostname(n, s) : n \in StrLens}
    \cup {reqHostByName(n, s) : n \in StrLens}
    \cup {wifiSetApNetwork(n, s) : n \in Lens}
    \cup {wifiSetApPassphrase(n, m, s) : n \in Lens, m \in Lens}
    \cup {wifiSetEnterprise(n, u, p, 0, c, s) :
            n \in FewLens, u \in FewLens, p \in FewLens, c \in BufLens}
    \cup {downloadFile(n, m, s) : n \in FewLens, m \in Lens}
    \cup {downloadOTA(n, s) : n \in Lens}
    \cup {renameFile(n, m, s) : n \in FewLens, m \in Lens}
    \cup {fileOperation(cmd, n, len, s) : cmd \in FileCmds, n \in FewLens, len \in BufLens}

ServerCalls(s) ==
  {startServer(s), startServerAt(s), startClient(s), stopClient(s),
   getServerState(s), getClientState(s), getData(s), sendUdpData(s),
   checkDataSent(<<0>>, s), getSocket(s)}
    \cup {availData(irq, s) : irq \in BOOLEAN}
    \cup {startClientHost(n, s) : n \in Lens}
    \cup {insertDataBuf(n, s) : n \in BufLens}
    \cup {sendData(n, s) : n \in BufLens}

\* What a buffer of two bytes holds before it is read into.
OldBytes == <<8, 8>>
ServerWaits(s) == {availServer(irq, s) : irq \in BOOLEAN}
BufferReads(s) == UNION {getDataBuf(irq, 2, OldBytes, s) : irq \in BOOLEAN}

CallInit == call = NoCall(<<>>) /\ function = "any" /\ heard = FALSE

\* An answer is asked for by the frame that was sent.
Perform(c, name, st) ==
  call' = c /\ function' = name /\ heard' = (st.of # 0 /\ st.of = c.frame.cmd)

\* The calls have no state in common: one of each is enough.
CallNext == /\ call = NoCall(<<>>)
            /\ \E st \in Answers :
                 \/ \E c \in WiFiCalls(st.bytes) : Perform(c, "any", st)
                 \/ \E c \in ServerCalls(st.bytes) : Perform(c, "any", st)
                 \/ \E c \in ServerWaits(st.bytes) : Perform(c, "availServer", st)
                 \/ \E c \in BufferReads(st.bytes) : Perform(c, "getDataBuf", st)

CallSpec == CallInit /\ [][CallNext]_callVars

(***************************************************************************)
(* Properties.                                                             *)
(***************************************************************************)
\* Five functions do not do what the code says of each, "pad to multiple of 4":
\* three send 8 bytes and pad them by one more, one counts 15 bytes where it sends
\* 16, one leaves out the data.
Unpadded == {Code.SET_PIN_MODE, Code.SET_DIGITAL_WRITE, Code.SET_ANALOG_WRITE,
             Code.SET_ENT_CMD, Code.WRITE_FILE}

\* A frame has as many parameters as it announces, END after the last of them
\* and no other END, and but for those five whole words: the module, which reads
\* words, finds the end of the command where it is, whatever lengths the strings
\* have and wherever a length is cut to eight bits.
FrameWhole ==
  call.frame.cmd # 0 => /\ call.frame.params = call.frame.nparams
                        /\ call.frame.ends = 1
                        /\ call.frame.inside
                        /\ call.frame.bytes % 4 = 0 \/ call.frame.cmd \in Unpadded

\* Success as the callers take it: a connection that is there, data, a socket, an
\* address, or the word of the module.
Verdicts == {Code.SET_NET_CMD, Code.SET_PASSPHRASE_CMD, Code.SET_KEY_CMD,
             Code.SET_AP_NET_CMD, Code.SET_AP_PASSPHRASE_CMD, Code.SET_ENT_CMD,
             Code.START_SCAN_NETWORKS, Code.DOWNLOAD_FILE, Code.DOWNLOAD_OTA,
             Code.RENAME_FILE}
YesOrNo == {Code.DISCONNECT_CMD, Code.REQ_HOST_BY_NAME_CMD,
            Code.INSERT_DATABUF_CMD, Code.SEND_DATA_UDP_CMD,
            Code.DATA_SENT_TCP_CMD, Code.GET_DIGITAL_READ}
Counts == {Code.AVAIL_DATA_TCP_CMD, Code.GET_STATE_TCP_CMD, Code.GET_CLIENT_STATE_TCP_CMD}
WL_NO_MODULE == <<255>>
Success ==
  \/ call.frame.cmd \in Verdicts /\ call.value # WL_FAILURE
  \/ call.frame.cmd \in YesOrNo /\ call.value = <<1>>
  \/ call.frame.cmd = Code.SEND_DATA_TCP_CMD /\ call.value # <<0>>
  \/ call.frame.cmd = Code.GET_SOCKET_CMD /\ call.value # NO_SOCKET_AVAIL
  \/ call.frame.cmd \in {Code.GET_HOST_BY_NAME_CMD, Code.GET_DATA_TCP_CMD}
     /\ call.value # <<>>
  \/ call.frame.cmd = Code.PING_CMD /\ call.value # WL_PING_ERROR
  \/ call.frame.cmd \in Counts /\ call.value # <<0>>
  \/ call.frame.cmd = Code.GET_CONN_STATUS_CMD /\ call.value # WL_NO_MODULE
  \/ function = "availServer" /\ call.value # NO_SOCKET_AVAIL
  \/ function = "getDataBuf" /\ call.value # <<>>

\* No call is taken for a success that the module has not answered: an answer to
\* another command, an error and silence all end in a failure.  Two functions break
\* this: availServer() takes silence for socket 0, and getDataBuf() for as many bytes
\* as were wanted, which are those that were in the buffer before.
NoAnswerNoSuccess ==
  Success => \/ heard
             \/ function = "availServer" /\ call.value = <<0>>
             \/ function = "getDataBuf" /\ call.value = OldBytes
=============================================================================
