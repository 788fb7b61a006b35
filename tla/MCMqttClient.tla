----------------------------- MODULE MCMqttClient -----------------------------
(* Instances of MqttClient for TLC: configurations as model values, one of    *)
(* each sort the state machine tells apart.                                   *)
EXTENDS MqttClient

CONSTANTS quickstart, registered, tokenless, toolong

AllConfigs == {quickstart, registered, tokenless, toolong}
FewConfigs == {quickstart, registered}
==============================================================================
