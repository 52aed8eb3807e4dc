---------------------------- MODULE MqttClientMC ----------------------------
(* Values for the constants of MqttClient that a .cfg cannot write. *)
EXTENDS MqttClient

Publishes == {<<"PUBLISH", 1>>, <<"PUBLISH", 2>>, <<"SUBSCRIBE", 0>>}
Mixed     == {<<"PUBLISH", 0>>, <<"PUBLISH", 1>>, <<"SUBSCRIBE", 0>>, <<"PINGREQ", 0>>}
=============================================================================
