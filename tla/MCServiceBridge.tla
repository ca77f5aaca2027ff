--------------------------- MODULE MCServiceBridge ---------------------------
(* Instances of ServiceBridge for TLC.                                     *)
EXTENDS ServiceBridge
=============================================================================
