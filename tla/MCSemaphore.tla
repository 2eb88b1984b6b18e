---------------------------- MODULE MCSemaphore ----------------------------
(* Instance of Semaphore for TLC: Semaphore.cfg checks liveness, where     *)
(* processes may not be taken as interchangeable.                          *)
EXTENDS Semaphore
=============================================================================
