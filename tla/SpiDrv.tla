------------------------------- MODULE SpiDrv -------------------------------
(***************************************************************************)
(* The frames the board and its radio module exchange over SPI             *)
(* (WiFiNINA/src/utility/spi_drv.cpp).                                     *)
(*                                                                         *)
(* A command is START, the command, the number of parameters, the          *)
(* parameters with their lengths, END, and bytes that pad it.  Its frame   *)
(* is built piece by piece, as the drivers call the functions of SpiDrv,   *)
(* and joined with ++ ; of a parameter only the length is kept.            *)
(*                                                                         *)
(* A reply is a sequence of bytes.  The four readers below return whether  *)
(* they accepted it and what they copied out of it.                        *)
(***************************************************************************)
EXTENDS Integers, Sequences, FiniteSetsExt

CONSTANT TimeoutChar    \* TIMEOUT_CHAR: bytes skipped in search of START

ASSUME TimeoutAssumption == TimeoutChar \in Nat

START_CMD == 224
END_CMD == 238
ERR_CMD == 239
DUMMY_DATA == 255

\* The codes of the commands.
Code ==
  [SET_NET_CMD |-> 16, SET_PASSPHRASE_CMD |-> 17, SET_KEY_CMD |-> 18,
   SET_IP_CONFIG_CMD |-> 20, SET_DNS_CONFIG_CMD |-> 21,
   SET_HOSTNAME_CMD |-> 22, SET_POWER_MODE_CMD |-> 23, SET_AP_NET_CMD |-> 24,
   SET_AP_PASSPHRASE_CMD |-> 25, SET_DEBUG_CMD |-> 26,
   GET_TEMPERATURE_CMD |-> 27, GET_REASON_CODE_CMD |-> 31,
   GET_CONN_STATUS_CMD |-> 32, GET_IPADDR_CMD |-> 33, GET_MACADDR_CMD |-> 34,
   GET_CURR_SSID_CMD |-> 35, GET_CURR_BSSID_CMD |-> 36,
   GET_CURR_RSSI_CMD |-> 37, GET_CURR_ENCT_CMD |-> 38, SCAN_NETWORKS |-> 39,
   START_SERVER_TCP_CMD |-> 40, GET_STATE_TCP_CMD |-> 41,
   DATA_SENT_TCP_CMD |-> 42, AVAIL_DATA_TCP_CMD |-> 43,
   GET_DATA_TCP_CMD |-> 44, START_CLIENT_TCP_CMD |-> 45,
   STOP_CLIENT_TCP_CMD |-> 46, GET_CLIENT_STATE_TCP_CMD |-> 47,
   DISCONNECT_CMD |-> 48, GET_IDX_RSSI_CMD |-> 50, GET_IDX_ENCT_CMD |-> 51,
   REQ_HOST_BY_NAME_CMD |-> 52, GET_HOST_BY_NAME_CMD |-> 53,
   START_SCAN_NETWORKS |-> 54, GET_FW_VERSION_CMD |-> 55,
   SEND_DATA_UDP_CMD |-> 57, GET_REMOTE_DATA_CMD |-> 58, GET_TIME_CMD |-> 59,
   GET_IDX_BSSID |-> 60, GET_IDX_CHANNEL_CMD |-> 61, PING_CMD |-> 62,
   GET_SOCKET_CMD |-> 63, SET_ENT_CMD |-> 64, SEND_DATA_TCP_CMD |-> 68,
   GET_DATABUF_TCP_CMD |-> 69, INSERT_DATABUF_CMD |-> 70,
   SET_PIN_MODE |-> 80, SET_DIGITAL_WRITE |-> 81, SET_ANALOG_WRITE |-> 82,
   GET_DIGITAL_READ |-> 83, GET_ANALOG_READ |-> 84, WRITE_FILE |-> 96,
   READ_FILE |-> 97, DELETE_FILE |-> 98, EXISTS_FILE |-> 99,
   DOWNLOAD_FILE |-> 100, APPLY_OTA_COMMAND |-> 101, RENAME_FILE |-> 102,
   DOWNLOAD_OTA |-> 103]

\* A byte and a 16-bit number a length is cast to.
Len8(n) == n % 256
Len16(n) == n % 65536

(***************************************************************************)
(* Commands.                                                               *)
(***************************************************************************)
\* The function that was called (cmd), what it announced (nparams) and the
\* bytes, parameters and END bytes it has sent so far.
Piece(cmd, nparams, bytes, params, ends) ==
  [cmd |-> cmd, nparams |-> nparams, bytes |-> bytes, params |-> params,
   ends |-> ends, inside |-> TRUE]

\* What follows END is padding: a parameter there would not be read.
Joined(a, b) ==
  [cmd |-> a.cmd, nparams |-> a.nparams, bytes |-> a.bytes + b.bytes,
   params |-> a.params + b.params, ends |-> a.ends + b.ends,
   inside |-> a.inside /\ (a.ends > 0 => b.params = 0)]
a ++ b == Joined(a, b)

SendCmd(cmd, n) ==
  IF n = 0 THEN Piece(cmd, 0, 4, 0, 1) ELSE Piece(cmd, n, 3, 0, 0)
SendParam(n) == Piece(0, 0, 1 + Len8(n), 1, 0)
LastParam(n) == Piece(0, 0, 2 + Len8(n), 1, 1)
SendParamNoLen(n) == Piece(0, 0, 1 + n, 1, 0)
LastParamNoLen(n) == Piece(0, 0, 2 + n, 1, 1)
SendBuffer(n) == Piece(0, 0, 2 + Len16(n), 1, 0)
LastBuffer(n) == Piece(0, 0, 3 + Len16(n), 1, 1)
ReadChars(n) == Piece(0, 0, n, 0, 0)

\* while (commandSize % 4) { readChar(); commandSize++; }
Pad(commandSize) == ReadChars((4 - (commandSize % 4)) % 4)

(***************************************************************************)
(* Replies.  A byte nobody sends is read as DUMMY_DATA.                    *)
(***************************************************************************)
ByteOf(s, i) == IF i <= Len(s) THEN s[i] ELSE DUMMY_DATA
Copy(s, i, n) == [j \in 1..n |-> ByteOf(s, i + j)]
Refused == [ok |-> FALSE, data |-> <<>>]
Accepted(data) == [ok |-> TRUE, data |-> data]

\* Where waitSpiChar stops.  An ERR_CMD makes it return -1, which the macro
\* IF_CHECK_START_CMD takes for success.
Stops(s) == {i \in 1..TimeoutChar + 1 : ByteOf(s, i) \in {START_CMD, ERR_CMD}}

\* The answer to a command has its top bit set: REPLY_FLAG.
REPLY_FLAG == 128
IsReplyTo(cmd, s) == /\ Stops(s) # {}
                     /\ ByteOf(s, Min(Stops(s)) + 1) = cmd + REPLY_FLAG

\* The position of the number of parameters.
ParamPos(s) == Min(Stops(s)) + 2

\* (Bug: the reply to any command is taken.)
waitAnyResponse(cmd, n, s) ==
  IF Stops(s) # {} /\ ByteOf(s, ParamPos(s)) = n
  THEN Accepted(Copy(s, ParamPos(s) + 1, ByteOf(s, ParamPos(s) + 1)))
  ELSE Refused
waitResponseCmd(cmd, n, s) ==
  IF IsReplyTo(cmd, s) /\ ByteOf(s, ParamPos(s)) = n
  THEN Accepted(Copy(s, ParamPos(s) + 1, ByteOf(s, ParamPos(s) + 1)))
  ELSE Refused

\* A length that is not there is 0.
waitResponseData8(cmd, s) ==
  IF ~ IsReplyTo(cmd, s) THEN Refused
  ELSE IF ByteOf(s, ParamPos(s)) = 0 THEN Accepted(<<>>)
  ELSE Accepted(Copy(s, ParamPos(s) + 1, ByteOf(s, ParamPos(s) + 1)))

\* The two bytes of the length are read by two calls in one expression, in an
\* order C++ leaves open: both are possible.
Lengths16(s) ==
  LET h == ByteOf(s, ParamPos(s) + 1)
      l == ByteOf(s, ParamPos(s) + 2)
  IN {256 * h + l, 256 * l + h}

\* Without a parameter the caller's length is left as it was, and so are its
\* data: neither is written.
waitResponseData16(cmd, s) ==
  IF ~ IsReplyTo(cmd, s) \/ ByteOf(s, ParamPos(s)) = 0
  THEN {[ok |-> IsReplyTo(cmd, s), wrote |-> FALSE, data |-> <<>>]}
  ELSE {[ok |-> TRUE, wrote |-> TRUE, data |-> Copy(s, ParamPos(s) + 2, n)]
        : n \in Lengths16(s)}

\* The position of the length of parameter i of a reply with several.
LengthPos(s) ==
  LET pos[i \in 1..256] == IF i = 1 THEN ParamPos(s) + 1
                           ELSE LET before == pos[i - 1]
                                IN before + ByteOf(s, before) + 1
  IN pos

Params(s, n) ==
  LET pos == LengthPos(s)
  IN [i \in 1..n |-> Copy(s, pos[i], ByteOf(s, pos[i]))]

\* The parameters are stored before their number is compared: a refused reply
\* may have changed the caller's buffers.
waitResponseParams(cmd, n, s) ==
  IF ~ IsReplyTo(cmd, s) THEN Refused
  ELSE [ok |-> ByteOf(s, ParamPos(s)) = n,
        data |-> Params(s, ByteOf(s, ParamPos(s)))]

\* At most max parameters are taken, and none at all is a failure.
waitResponse(cmd, max, s) ==
  IF ~ IsReplyTo(cmd, s) THEN Refused
  ELSE LET n == Min({ByteOf(s, ParamPos(s)), max})
       IN [ok |-> n # 0, data |-> Params(s, n)]
=============================================================================
