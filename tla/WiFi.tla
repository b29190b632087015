-------------------------------- MODULE WiFi --------------------------------
(***************************************************************************)
(* The board's WiFi object (WiFiNINA/src/WiFi.cpp) over the driver of the  *)
(* radio module, with its static buffers, and the module itself, of which  *)
(* only what the board can learn is modelled: which network it was last    *)
(* told to join and how it gets on with it.  A reply to any command may be *)
(* lost or be an error, whether or not the module did what it was asked.  *)
(* A network is its number; so are its name, its addresses and its BSSID.  *)
(***************************************************************************)
EXTENDS WiFiDrv, SequencesExt

CONSTANTS Networks,    \* networks the board may be told to join
          Found,       \* how many networks a scan may find
  Begins       \* the functions the board joins or opens a network with

Stations == {"begin", "beginKey", "beginPass", "beginEnterprise"}
AccessPoints == {"beginAP", "beginAPPass"}

ASSUME WiFiAssumption == /\ Networks \subseteq 1..9 /\ Found \subseteq Nat
                         /\ Begins \subseteq Stations \cup AccessPoints

VARIABLES
  radio,    \* external: [net, status] of the radio module
  cached,    \* the static buffers: [ip, list]
  scans,     \* scans of the module so far, to tell its lists apart
  doing,     \* the function that waits: [op, net, status, left]
  ret        \* how the last function ended: [op, value], "none" before

wifiVars == <<radio, cached, scans, doing, ret>>

(***************************************************************************)
(* Status codes (wl_definitions.h) and functions.                          *)
(***************************************************************************)
WL_NO_SHIELD == 255
WL_IDLE_STATUS == 0
WL_NO_SSID_AVAIL == 1
WL_SCAN_COMPLETED == 2
WL_CONNECTED == 3
WL_CONNECT_FAILED == 4
WL_CONNECTION_LOST == 5
WL_DISCONNECTED == 6
WL_AP_LISTENING == 7
WL_AP_CONNECTED == 8
WL_AP_FAILED == 9
WL_PING_UNKNOWN_HOST == <<253, 255>>
Waiting == {WL_IDLE_STATUS, WL_NO_SSID_AVAIL, WL_SCAN_COMPLETED}

Command(op) ==
  CASE op = "begin" -> Code.SET_NET_CMD
    [] op = "beginKey" -> Code.SET_KEY_CMD
    [] op = "beginPass" -> Code.SET_PASSPHRASE_CMD
    [] op = "beginEnterprise" -> Code.SET_ENT_CMD
    [] op = "beginAP" -> Code.SET_AP_NET_CMD
    [] op = "beginAPPass" -> Code.SET_AP_PASSPHRASE_CMD
SetUp(op, s) ==
  CASE op = "begin" -> wifiSetNetwork(1, s)
    [] op = "beginKey" -> wifiSetKey(1, 1, s)
    [] op = "beginPass" -> wifiSetPassphrase(1, 1, s)
    [] op = "beginEnterprise" -> wifiSetEnterprise(1, 1, 1, 1, 1, s)
    [] op = "beginAP" -> wifiSetApNetwork(1, s)
    [] op = "beginAPPass" -> wifiSetApPassphrase(1, 1, s)

(***************************************************************************)
(* Replies.                                                                *)
(***************************************************************************)
WiFiAnswer(cmd, params) ==
  <<START_CMD, cmd + REPLY_FLAG, Len(params)>>
    \o FlattenSeq([i \in 1..Len(params) |-> <<Len(params[i])>> \o params[i]])
    \o <<END_CMD>>
Lost == {<<>>, <<ERR_CMD, 0, END_CMD>>}
Replies(cmd, params) == {WiFiAnswer(cmd, params)} \cup Lost

Nothing == [op |-> "none", net |-> 0, status |-> WL_IDLE_STATUS, left |-> 0]
Idle == doing = Nothing
Return(op, value) == ret' = [op |-> op, value |-> value]

(***************************************************************************)
(* begin, beginAP, beginEnterprise: a setting, then the status is polled   *)
(* until it settles or the time is over.                                   *)
(***************************************************************************)
\* The module acknowledges (1) and starts over, or refuses (0) and goes on as
\* before.
Begin == \E op \in Begins, n \in Networks, ack \in {0, 1} :
  \E s \in Replies(Command(op), << <<ack>> >>) :
    LET failed == SetUp(op, s).value = WL_FAILURE
    IN /\ Idle
       /\ radio' = IF ack = 1 THEN [net |-> n, status |-> WL_IDLE_STATUS] ELSE radio
       /\ doing' = IF failed THEN Nothing
                   ELSE [Nothing EXCEPT !.op = op, !.net = n]
       /\ IF failed
          THEN Return(op, IF op \in AccessPoints THEN <<WL_AP_FAILED>>
                          ELSE <<WL_CONNECT_FAILED>>)
          ELSE Return("none", <<>>)
       /\ UNCHANGED <<cached, scans>>

PollStatus ==
  /\ doing.op \in Begins
  /\ \E s \in Replies(Code.GET_CONN_STATUS_CMD, << <<radio.status>> >>) :
       LET status == getConnectionStatus(s).value[1]
       IN IF status \in Waiting
          THEN doing' = [doing EXCEPT !.status = status] /\ UNCHANGED ret
          ELSE doing' = Nothing /\ Return(doing.op, <<status>>)
  /\ UNCHANGED <<radio, cached, scans>>

TimeOut ==
  /\ doing.op \in Begins
  /\ Return(doing.op, <<doing.status>>)
  /\ doing' = Nothing
  /\ UNCHANGED <<radio, cached, scans>>

(***************************************************************************)
(* scanNetworks: a scan is started, its list is asked for ten times.       *)
(***************************************************************************)
Scan == \E ack \in {0, 1} :
  \E s \in Replies(Code.START_SCAN_NETWORKS, << <<ack>> >>) :
    LET failed == startScanNetworks(s).value = WL_FAILURE
    IN /\ Idle
       /\ scans' = 1 - scans
       /\ doing' = IF failed THEN Nothing
                   ELSE [Nothing EXCEPT !.op = "scan", !.left = 10]
       /\ IF failed THEN Return("scan", <<-1>>) ELSE Return("none", <<>>)
       /\ UNCHANGED <<radio, cached>>

\* What getScanNetworks may return of a scan.
Listed == [scan \in {0, 1} |-> UNION {
  {getScanNetworks(s).value :
     s \in Replies(Code.SCAN_NETWORKS, [i \in 1..k |-> <<scan>>])} : k \in Found}]

\* (Bug: the number returned is that of the names in the list.)
ScanPollCountsList ==
  /\ doing.op = "scan"
  /\ \E names \in Listed[scans] :
       LET n == Len(names)
           list == names \o SubSeq(cached.list, n + 1, Len(cached.list))
       IN /\ cached' = [cached EXCEPT !.list = list]
          /\ IF n = 0 /\ doing.left > 1
             THEN doing' = [doing EXCEPT !.left = @ - 1] /\ UNCHANGED ret
             ELSE doing' = Nothing /\ Return("scan", <<Len(list)>>)
  /\ UNCHANGED <<radio, scans>>

\* The names are stored as they are read; at the tenth answer without one the
\* function gives up.
ScanPoll ==
  /\ doing.op = "scan"
  /\ \E names \in Listed[scans] :
       LET n == Len(names)
       IN /\ cached' = [cached EXCEPT !.list =
                          names \o SubSeq(@, n + 1, Len(@))]
          /\ IF n = 0 /\ doing.left > 1
             THEN doing' = [doing EXCEPT !.left = @ - 1] /\ UNCHANGED ret
             ELSE doing' = Nothing /\ Return("scan", <<n>>)
  /\ UNCHANGED <<radio, scans>>

(***************************************************************************)
(* One command each.                                                       *)
(***************************************************************************)
Name == IF radio.status = WL_CONNECTED THEN <<radio.net>> ELSE <<>>
Address == IF radio.status = WL_CONNECTED THEN <<radio.net>> ELSE <<0>>

Status ==
  /\ Idle
  /\ \E s \in Replies(Code.GET_CONN_STATUS_CMD, << <<radio.status>> >>) :
       Return("status", getConnectionStatus(s).value)
  /\ UNCHANGED <<radio, cached, scans, doing>>

SSID ==
  /\ Idle
  /\ \E s \in Replies(Code.GET_CURR_SSID_CMD, <<Name>>) :
       Return("SSID", getCurrentSSID(s).value)
  /\ UNCHANGED <<radio, cached, scans, doing>>

\* localIP, subnetMask and gatewayIP ask for all three addresses.
LocalIP ==
  /\ Idle
  /\ \E s \in Replies(Code.GET_IPADDR_CMD, <<Address, Address, Address>>) :
       LET ip == getNetworkData(cached.ip, s).value
       IN /\ cached' = [cached EXCEPT !.ip = ip]
          /\ \E i \in 1..3 : Return("localIP", ip[i])
  /\ UNCHANGED <<radio, scans, doing>>

Disconnect ==
  /\ Idle
  /\ \E took \in BOOLEAN, s \in Replies(Code.DISCONNECT_CMD, << <<1>> >>) :
       /\ s \notin Lost => took
       /\ radio' = IF took THEN [radio EXCEPT !.status = WL_DISCONNECTED] ELSE radio
       /\ Return("disconnect", disconnect(s).value)
  /\ UNCHANGED <<cached, scans, doing>>

\* What hostByName may find: the name is asked for, then the address.
Resolved ==
  {IF reqHostByName(1, s).value = <<1>> THEN getHostByName(<<0>>, t).value ELSE <<>> :
     s \in Replies(Code.REQ_HOST_BY_NAME_CMD, << <<1>> >>)
             \cup Replies(Code.REQ_HOST_BY_NAME_CMD, << <<0>> >>),
     t \in Replies(Code.GET_HOST_BY_NAME_CMD, << <<5>> >>)
             \cup Replies(Code.GET_HOST_BY_NAME_CMD, << <<255, 255, 255, 255>> >>)}
\* ping with a name pings only what was found.
Pinged == {IF ip = <<>> THEN WL_PING_UNKNOWN_HOST ELSE ping(<<0, 0>>, s).value :
             ip \in Resolved, s \in Replies(Code.PING_CMD, << <<20, 0>> >>)}

HostByName ==
  /\ Idle
  /\ \/ \E ip \in Resolved : Return("hostByName", ip)
     \/ \E reply \in Pinged : Return("ping", reply)
  /\ UNCHANGED <<radio, cached, scans, doing>>

\* end() holds the module in reset; the next command starts it again, as it was when the
\* board was switched on.
Reset == [net |-> 0, status |-> WL_IDLE_STATUS]
End ==
  /\ Idle
  /\ radio' = Reset
  /\ Return("end", <<>>)
  /\ UNCHANGED <<cached, scans, doing>>

(***************************************************************************)
(* The module gets on with its network, or loses it.                      *)
(***************************************************************************)
ModuleMoves ==
  /\ radio.net # 0
  /\ \E st \in {WL_NO_SSID_AVAIL, WL_CONNECTED, WL_CONNECTION_LOST,
                WL_AP_LISTENING} :
       radio' = [radio EXCEPT !.status = st]
  /\ UNCHANGED <<cached, scans, doing, ret>>

WiFiInit ==
  /\ radio = Reset
  /\ cached = [ip |-> << <<0>>, <<0>>, <<0>> >>, list |-> <<>>]
  /\ scans = 0
  /\ doing = Nothing
  /\ ret = [op |-> "none", value |-> <<>>]

WiFiNext == \/ Begin \/ PollStatus \/ TimeOut \/ Scan \/ ScanPoll \/ Status
            \/ SSID \/ LocalIP \/ Disconnect \/ HostByName \/ End
            \/ ModuleMoves

WiFiSpec == WiFiInit /\ [][WiFiNext]_wifiVars

(***************************************************************************)
(* Properties.                                                             *)
(***************************************************************************)
Returns(ops) == ret' # ret /\ ret'.op \in ops

\* What is reported was so.  begin() and beginAP() without a password report a connection, or that they
\* listen, only when the module is on the network they were told: never on the
\* strength of the network before it.  (With a password a refusal by the
\* module is not noticed: wifiSetPassphrase returns what was answered.)  An address
\* is reported, or pinged, only when the module has found it.
ReportsAreTrue ==
  [][/\ Returns({"begin", "beginAP"})
        /\ ret'.value \in {<<WL_CONNECTED>>, <<WL_AP_LISTENING>>}
        => radio.net = doing.net /\ ret'.value = <<radio.status>>
     /\ Returns({"hostByName"}) => ret'.value \in {<<>>, <<5>>}
     /\ Returns({"ping"}) => ret'.value \in {WL_PING_ERROR, WL_PING_UNKNOWN_HOST, <<20, 0>>}
    ]_wifiVars

\* Nothing of a static buffer is reported that is not of now, whatever is lost:
\* SSID() never names a network the board has left, as its buffer is cleared first
\* (localIP() and BSSID() return theirs as they are), and the names up to the
\* number scanNetworks() returns are those of this scan.
BuffersAreFresh ==
  [][/\ Returns({"SSID"}) => ret'.value \in {<<>>, Name}
     /\ Returns({"scan"}) =>
          \A i \in 1..ret'.value[1] : i \in DOMAIN cached'.list
                                     /\ cached'.list[i] = <<scans>>]_wifiVars
=============================================================================
