------------------------------- MODULE MCMqttLink -------------------------------
(***************************************************************************)
(* An instance of MqttLink for TLC. Three messages fill router and reader  *)
(* and leave one on the wire; the wire holds two answers as well.          *)
(***************************************************************************)
EXTENDS MqttLink
=============================================================================
