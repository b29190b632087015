----------------------------- MODULE ServerDrv -----------------------------
(***************************************************************************)
(* The functions of WiFiNINA/src/utility/server_drv.cpp: sockets of the    *)
(* radio module.  As in WiFiDrv, an operator gives the frame a function    *)
(* sends and what it makes of the reply s; irq is the level of the pin on  *)
(* which the module says that it has something for the board               *)
(* (SpiDrv::available).                                                    *)
(***************************************************************************)
EXTENDS WiFiDrv

NO_SOCKET_AVAIL == <<255>>

startServer(s) ==
  LET r == waitResponseCmd(Code.START_SERVER_TCP_CMD, 1, s)
  IN Call(SendCmd(Code.START_SERVER_TCP_CMD, 3) ++ SendParam(2)
          ++ SendParam(1) ++ LastParam(1) ++ ReadChars(1), r, <<>>)
startServerAt(s) ==
  LET r == waitResponseCmd(Code.START_SERVER_TCP_CMD, 1, s)
  IN Call(SendCmd(Code.START_SERVER_TCP_CMD, 4) ++ SendParam(4)
          ++ SendParam(2) ++ SendParam(1) ++ LastParam(1), r, <<>>)

startClient(s) ==
  LET r == waitResponseCmd(Code.START_CLIENT_TCP_CMD, 1, s)
  IN Call(SendCmd(Code.START_CLIENT_TCP_CMD, 4) ++ SendParam(4)
          ++ SendParam(2) ++ SendParam(1) ++ LastParam(1), r, <<>>)
startClientHost(host, s) ==
  LET r == waitResponseCmd(Code.START_CLIENT_TCP_CMD, 1, s)
  IN Call(SendCmd(Code.START_CLIENT_TCP_CMD, 5) ++ SendParam(host)
          ++ SendParam(4) ++ SendParam(2) ++ SendParam(1) ++ LastParam(1)
          ++ Pad(17 + host), r, <<>>)
stopClient(s) == Asking(Code.STOP_CLIENT_TCP_CMD, <<0>>, s)

getServerState(s) == Asking(Code.GET_STATE_TCP_CMD, <<0>>, s)
getClientState(s) == Asking(Code.GET_CLIENT_STATE_TCP_CMD, <<0>>, s)

availData(irq, s) ==
  IF ~ irq THEN NoCall(<<0>>) ELSE Asking(Code.AVAIL_DATA_TCP_CMD, <<0>>, s)
\* Without a reply the socket is 0, and not NO_SOCKET_AVAIL.
availServer(irq, s) ==
  IF ~ irq THEN NoCall(NO_SOCKET_AVAIL)
  ELSE Asking(Code.AVAIL_DATA_TCP_CMD, <<0>>, s)

\* One byte, <<>> for none.
getData(s) ==
  LET r == waitResponseData8(Code.GET_DATA_TCP_CMD, s)
  IN Call(SendCmd(Code.GET_DATA_TCP_CMD, 2) ++ SendParam(1) ++ LastParam(2)
          ++ ReadChars(3), r, r.data)
\* Data read into a buffer that holds old, at most wanted bytes, one call
\* for each order of the two length bytes.  The length wanted is overwritten by the length of the
\* reply: a reply that brings none leaves the buffer "full" of what it held.
getDataBuf(irq, wanted, old, s) ==
  IF ~ irq THEN {NoCall(<<>>)}
  ELSE {Call(SendCmd(Code.GET_DATABUF_TCP_CMD, 2) ++ SendBuffer(1)
             ++ LastBuffer(2) ++ ReadChars(1), r,
             IF r.wrote THEN r.data ELSE SubSeq(old, 1, wanted))
        : r \in waitResponseData16(Code.GET_DATABUF_TCP_CMD, s)}

\* Whether the first byte of the reply is 1.
Inserted(frame, s) ==
  LET r == waitResponseData8(frame.cmd, s)
  IN Call(frame, r, Flag(Len(r.data) > 0 /\ r.data[1] = 1))
insertDataBuf(len, s) ==
  Inserted(SendCmd(Code.INSERT_DATABUF_CMD, 2) ++ SendBuffer(1)
           ++ LastBuffer(len) ++ Pad(9 + len), s)
sendUdpData(s) == Inserted(OneByte(Code.SEND_DATA_UDP_CMD), s)
sendData(len, s) ==
  LET r == waitResponseData8(Code.SEND_DATA_TCP_CMD, s)
  IN Call(SendCmd(Code.SEND_DATA_TCP_CMD, 2) ++ SendBuffer(1)
          ++ LastBuffer(len) ++ Pad(9 + len), r, Buffer(r, <<0>>))
\* One turn of the loop: what was answered before stays when nothing is.
checkDataSent(before, s) == Asking(Code.DATA_SENT_TCP_CMD, before, s)
TIMEOUT_DATA_SENT == 25

getSocket(s) == Plain(Code.GET_SOCKET_CMD, NO_SOCKET_AVAIL, s)
=============================================================================
