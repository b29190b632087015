--------------------------- MODULE MCIndoorMonitor ---------------------------
\* Settings for checking IndoorMonitor.
EXTENDS IndoorMonitor

\* Limits of which a stalled payload leaves a beginning, in the wrong order and
\* with HTTP (1.5 and 2), and limits that any air exceeds with MQTT.
TwoCommands == {[max |-> 3, min |-> 4, p |-> FALSE], [max |-> 0, min |-> 0, p |-> TRUE]}
=============================================================================
