------------------------------ MODULE WiFiDrv ------------------------------
(***************************************************************************)
(* The functions of WiFiNINA/src/utility/wifi_drv.cpp.  Each sends one     *)
(* command and waits for one reply, here the bytes s: an operator gives    *)
(* the frame it sends and what it makes of the reply.  Arguments that are  *)
(* strings or buffers are their lengths.  A value is the bytes of the      *)
(* buffer it is returned in.                                               *)
(***************************************************************************)
EXTENDS SpiDrv

WL_FAILURE == <<255>>
WL_SUCCESS == <<1>>
WIFI_SPI_ACK == <<1>>
WL_PING_ERROR == <<252, 255>>
WL_NETWORKS_LIST_MAXNUM == 10

\* A call: its frame, whether a reply was accepted, what it returned.
Call(frame, r, value) ==
  [frame |-> frame, answered |-> r.ok, value |-> value]

\* What a buffer holds after a reply, when it held old before.
Buffer(r, old) == IF r.ok /\ r.data # <<>> THEN r.data ELSE old
OrFailure(r) == IF r.ok THEN Buffer(r, <<0>>) ELSE WL_FAILURE
Flag(p) == IF p THEN <<1>> ELSE <<0>>

\* A command with no parameter, and one with a single byte, with their replies
\* of one parameter.
Plain(cmd, old, s) ==
  LET r == waitResponseCmd(cmd, 1, s)
  IN Call(SendCmd(cmd, 0), r, Buffer(r, old))
OneByte(cmd) == SendCmd(cmd, 1) ++ LastParam(1) ++ ReadChars(2)
Asking(cmd, old, s) ==
  LET r == waitResponseCmd(cmd, 1, s) IN Call(OneByte(cmd), r, Buffer(r, old))
\* Settings: the reply is returned, or a failure.
Setting(frame, s) ==
  LET r == waitResponseCmd(frame.cmd, 1, s) IN Call(frame, r, OrFailure(r))
\* The same, but only an acknowledgement is a success.
Acknowledged(c) ==
  [c EXCEPT !.value = IF @ = WIFI_SPI_ACK THEN WL_SUCCESS ELSE WL_FAILURE]

getNetworkData(old, s) ==
  LET r == waitResponseParams(Code.GET_IPADDR_CMD, 3, s)
  IN Call(OneByte(Code.GET_IPADDR_CMD), r,
          [i \in 1..3 |-> IF i \in DOMAIN r.data THEN r.data[i] ELSE old[i]])
getRemoteData(old, s) ==
  LET r == waitResponseParams(Code.GET_REMOTE_DATA_CMD, 2, s)
  IN Call(OneByte(Code.GET_REMOTE_DATA_CMD), r,
          [i \in 1..2 |-> IF i \in DOMAIN r.data THEN r.data[i] ELSE old[i]])

\* (Bug: any answer is a success.)
wifiSetNetworkAnyAnswer(ssid, s) ==
  Setting(SendCmd(Code.SET_NET_CMD, 1) ++ LastParam(ssid) ++ Pad(5 + ssid), s)
wifiSetNetwork(ssid, s) ==
  Acknowledged(Setting(SendCmd(Code.SET_NET_CMD, 1) ++ LastParam(ssid)
                       ++ Pad(5 + ssid), s))
wifiSetPassphrase(ssid, len, s) ==
  Setting(SendCmd(Code.SET_PASSPHRASE_CMD, 2) ++ SendParam(ssid)
          ++ LastParam(len) ++ Pad(6 + ssid + len), s)
wifiSetKey(ssid, len, s) ==
  Setting(SendCmd(Code.SET_KEY_CMD, 3) ++ SendParam(ssid) ++ SendParam(1)
          ++ LastParam(len) ++ Pad(8 + ssid + len), s)
config(s) ==
  Setting(SendCmd(Code.SET_IP_CONFIG_CMD, 4) ++ SendParam(1) ++ SendParam(4)
          ++ SendParam(4) ++ LastParam(4) ++ ReadChars(3), s)
setDNS(s) ==
  Setting(SendCmd(Code.SET_DNS_CONFIG_CMD, 3) ++ SendParam(1) ++ SendParam(4)
          ++ LastParam(4), s)
setHostname(hostname, s) ==
  Setting(SendCmd(Code.SET_HOSTNAME_CMD, 1) ++ LastParam(hostname)
          ++ Pad(5 + hostname), s)
disconnect(s) ==
  LET r == waitResponseCmd(Code.DISCONNECT_CMD, 1, s)
  IN Call(OneByte(Code.DISCONNECT_CMD), r, Flag(r.ok))

getReasonCode(s) == Plain(Code.GET_REASON_CODE_CMD, <<1>>, s)
getConnectionStatus(s) == Plain(Code.GET_CONN_STATUS_CMD, <<255>>, s)
getMacAddress(mac, s) == Asking(Code.GET_MACADDR_CMD, mac, s)
\* The buffer is cleared before the reply is read.
getCurrentSSID(s) == Asking(Code.GET_CURR_SSID_CMD, <<>>, s)
getCurrentBSSID(bssid, s) == Asking(Code.GET_CURR_BSSID_CMD, bssid, s)
getCurrentRSSI(s) == Asking(Code.GET_CURR_RSSI_CMD, <<0>>, s)
getCurrentEncryptionType(s) == Asking(Code.GET_CURR_ENCT_CMD, <<0>>, s)

startScanNetworks(s) ==
  LET c == Setting(SendCmd(Code.START_SCAN_NETWORKS, 0), s)
  IN [c EXCEPT !.value = IF @ = WL_FAILURE THEN @ ELSE WL_SUCCESS]
\* The names found, at most WL_NETWORKS_LIST_MAXNUM.
getScanNetworks(s) ==
  LET r == waitResponse(Code.SCAN_NETWORKS, WL_NETWORKS_LIST_MAXNUM, s)
  IN Call(SendCmd(Code.SCAN_NETWORKS, 0), r, r.data)
\* Of a network of the list.  Nothing is asked about an index beyond it.
NoCall(value) == Call(ReadChars(0), Refused, value)
OfNetwork(item, unknown, call) ==
  IF item >= WL_NETWORKS_LIST_MAXNUM THEN NoCall(unknown) ELSE call
getEncTypeNetowrks(item, s) ==
  OfNetwork(item, <<255>>, Asking(Code.GET_IDX_ENCT_CMD, <<0>>, s))
getBSSIDNetowrks(item, bssid, s) ==
  OfNetwork(item, <<>>, Asking(Code.GET_IDX_BSSID, bssid, s))
getChannelNetowrks(item, s) ==
  OfNetwork(item, <<0>>, Asking(Code.GET_IDX_CHANNEL_CMD, <<0>>, s))
getRSSINetoworks(item, s) ==
  OfNetwork(item, <<0>>, Asking(Code.GET_IDX_RSSI_CMD, <<0>>, s))

reqHostByName(host, s) ==
  LET cmd == Code.REQ_HOST_BY_NAME_CMD
      r == waitResponseCmd(cmd, 1, s)
  IN Call(SendCmd(cmd, 1) ++ LastParam(host) ++ Pad(5 + host), r,
          Flag(r.ok /\ Buffer(r, <<0>>) = <<1>>))
\* The address, <<>> for none.  255.255.255.255 stands for an unknown name; an
\* accepted reply without data leaves what was on the stack.
getHostByName(stack, s) ==
  LET r == waitResponseCmd(Code.GET_HOST_BY_NAME_CMD, 1, s)
      ip == Buffer(r, stack)
  IN Call(SendCmd(Code.GET_HOST_BY_NAME_CMD, 0), r,
          IF r.ok /\ ip # <<255, 255, 255, 255>> THEN ip ELSE <<>>)
getFwVersion(version, s) == Plain(Code.GET_FW_VERSION_CMD, version, s)
getTime(s) == Plain(Code.GET_TIME_CMD, <<0>>, s)
setPowerMode(s) == Asking(Code.SET_POWER_MODE_CMD, <<0>>, s)

wifiSetApNetwork(ssid, s) ==
  Acknowledged(Setting(SendCmd(Code.SET_AP_NET_CMD, 2) ++ SendParam(ssid)
                       ++ LastParam(1) ++ Pad(3 + ssid), s))
wifiSetApPassphrase(ssid, len, s) ==
  Setting(SendCmd(Code.SET_AP_PASSPHRASE_CMD, 3) ++ SendParam(ssid)
          ++ SendParam(len) ++ LastParam(1) ++ Pad(4 + ssid + len), s)
wifiSetEnterprise(ssid, user, pass, id, cert, s) ==
  Setting(SendCmd(Code.SET_ENT_CMD, 6) ++ SendBuffer(1) ++ SendBuffer(ssid)
          ++ SendBuffer(user) ++ SendBuffer(pass) ++ SendBuffer(id)
          ++ LastBuffer(cert) ++ Pad(16 + ssid + user + pass + id + cert), s)
\* An accepted reply without data leaves what was on the stack.
ping(stack, s) ==
  LET r == waitResponseCmd(Code.PING_CMD, 1, s)
  IN Call(SendCmd(Code.PING_CMD, 2) ++ SendParam(4) ++ LastParam(1)
          ++ ReadChars(1), r,
          IF r.ok THEN Buffer(r, stack) ELSE WL_PING_ERROR)
debug(s) == Asking(Code.SET_DEBUG_CMD, <<0>>, s)
getTemperature(s) == Plain(Code.GET_TEMPERATURE_CMD, <<0>>, s)

TwoBytes(cmd) ==
  SendCmd(cmd, 2) ++ SendParam(1) ++ LastParam(1) ++ ReadChars(1)
pinMode(s) == Setting(TwoBytes(Code.SET_PIN_MODE), s)
digitalWrite(s) == Setting(TwoBytes(Code.SET_DIGITAL_WRITE), s)
analogWrite(s) == Setting(TwoBytes(Code.SET_ANALOG_WRITE), s)
digitalRead(s) ==
  LET c == Setting(OneByte(Code.GET_DIGITAL_READ), s)
  IN [c EXCEPT !.value = Flag(@ = <<1>>)]
analogRead(s) == Asking(Code.GET_ANALOG_READ, <<0>>, s)

downloadFile(url, filename, s) ==
  Setting(SendCmd(Code.DOWNLOAD_FILE, 2) ++ SendParam(url)
          ++ LastParam(filename) ++ Pad(6 + url + filename), s)
downloadOTA(url, s) ==
  Setting(SendCmd(Code.DOWNLOAD_OTA, 1) ++ LastParam(url) ++ Pad(5 + url), s)
renameFile(from, to, s) ==
  Setting(SendCmd(Code.RENAME_FILE, 2) ++ SendParam(from) ++ LastParam(to)
          ++ Pad(6 + from + to), s)
\* A file is written with a fourth parameter, the data: its length is not part
\* of the size that is padded.  The result is the length of the reply.
fileOperation(cmd, filename, len, s) ==
  LET writes == cmd = Code.WRITE_FILE
      n == IF writes THEN 4 ELSE 3
      r == waitResponseCmd(cmd, 1, s)
      head == SendCmd(cmd, n) ++ SendParam(4) ++ SendParam(4)
      pad == Pad(4 + n + 8 + filename)
  IN Call(IF writes THEN head ++ SendParam(filename) ++ LastParamNoLen(len) ++ pad
          ELSE head ++ LastParam(filename) ++ pad, r,
          IF r.ok THEN <<Len(r.data)>> ELSE <<0>>)
\* No reply is waited for.
applyOTA == Call(SendCmd(Code.APPLY_OTA_COMMAND, 0), Refused, <<>>)
=============================================================================
