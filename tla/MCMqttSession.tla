---------------------------- MODULE MCMqttSession ----------------------------
(* A small instance of MqttSession for TLC. *)
EXTENDS MqttSession

\* A command that publishes and one that restarts the device.
PingReboot == <<"ping", "reboot">>

=============================================================================
