--------------------------- MODULE MCSleepWakeup ---------------------------
(* Instances of SleepWakeup for TLC. *)
EXTENDS SleepWakeup
=============================================================================
