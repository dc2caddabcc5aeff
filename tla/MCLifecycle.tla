---------------------------- MODULE MCLifecycle ----------------------------
(* Two threads that wait on a condition variable, one that waits for       *)
(* messages, and the tick thread; a fast tick and a slower one.            *)
EXTENDS Lifecycle

MCCvThread == {"Display", "MotionSensor"}
MCMsgThread == {"MqttClient"}
MCOrder == <<"Display", "MotionSensor", "MqttClient", "TimerTick">>
MCPeriod == [t \in MCCvThread \cup MCMsgThread |-> IF t = "MotionSensor" THEN 2 ELSE 1]
MCInternalOwner == {"Display"}
MCReportReads == <<"Display">>
=============================================================================
