----------------------------- MODULE WifiRadio ------------------------------
(***************************************************************************)
(* The owner of the node's one radio, lib/links/wifi_radio: a softAP for   *)
(* the nodes that host a network, and a station for ESP-NOW beside it, on  *)
(* one channel.  The driver under it may refuse either.                    *)
(***************************************************************************)
EXTENDS Naturals

VARIABLES
  apUp,
  stationUp,
  radioChannel   \* 0 until the first start

radioVars == <<apUp, stationUp, radioChannel>>

RadioTypeOK ==
  /\ {apUp, stationUp} \subseteq BOOLEAN
  /\ radioChannel \in Nat

RadioInit ==
  /\ apUp = FALSE
  /\ stationUp = FALSE
  /\ radioChannel = 0

ChannelAvailable(channel) == radioChannel \in {0, channel}

\* ok is the driver's answer, and up is TRUE if the call returns true.
StartAp(channel, ok, up) ==
  /\ up = (ok /\ ChannelAvailable(channel))
  /\ apUp' = IF ChannelAvailable(channel) THEN ok ELSE apUp
  /\ radioChannel' = IF up THEN channel ELSE radioChannel
  /\ UNCHANGED stationUp

StartStation(channel, ok, up) ==
  /\ up = ((ok \/ stationUp) /\ ChannelAvailable(channel))
  /\ stationUp' = IF ChannelAvailable(channel) THEN up ELSE stationUp
  /\ radioChannel' = IF up THEN channel ELSE radioChannel
  /\ UNCHANGED apUp

=============================================================================
