---------------------------- MODULE MCSensorData ----------------------------
(* Small instances of the readings and their history (the telemetry cfgs). *)
EXTENDS SensorData
=============================================================================
