-------------------------- MODULE MCAlertPipeline --------------------------
(* Small instances of AlertPipeline for TLC; the .cfg files give the values. *)
EXTENDS AlertPipeline, TLC

AllAnswers == DispatchStatus
CleanAnswers == {"delivered", "rate_limited", "permission_denied", "channel_gone"}
CrashFaults == {"redeliver", "lose", "raise"}
NoFaults == {}
BrokerFaults == {"redeliver", "duplicate", "abort"}
============================================================================
