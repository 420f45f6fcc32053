---------------------------- MODULE MCStatusLed ----------------------------
(***************************************************************************)
(* Instances of StatusLed for TLC: one lamp with a single level, and one   *)
(* network.                                                                *)
(***************************************************************************)
EXTENDS StatusLed

CONSTANTS a, x      \* the lamp, the values of the configuration

NoApFound == {<<>>}

\* No step that matters here reads out and wifiOut, the histories, or of the
\* configuration more than its ssid and which keys were read.
StatusView ==
    <<pc, local, kv, queue, wifiPc, received, processit, switches, radio, staMade,
      connected, DOMAIN read, found, cfg["ssid"], open, ledVars, submitted, inbox, dropped>>

=============================================================================
