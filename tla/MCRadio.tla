------------------------------ MODULE MCRadio ------------------------------
(***************************************************************************)
(* The library of the radio module: its driver calls, the WiFi object and  *)
(* the clients.  A behaviour is one of one of the three.                   *)
(***************************************************************************)
EXTENDS NinaCalls, WiFi, WiFiSockets

RadioInit == CallInit /\ WiFiInit /\ SockInit

RadioNext ==
  \/ WiFiInit /\ SockInit /\ CallNext /\ UNCHANGED <<wifiVars, sockVars>>
  \/ CallInit /\ SockInit /\ WiFiNext /\ UNCHANGED <<callVars, sockVars>>
  \/ CallInit /\ WiFiInit /\ SockNext /\ UNCHANGED <<callVars, wifiVars>>

\* The clients, the sockets and the bytes are alike.
Alike == Permutations(Clients) \cup Permutations(Sockets) \cup Permutations(Bytes)

RadioSpec == RadioInit /\ [][RadioNext]_<<callVars, wifiVars, sockVars>>
=============================================================================
