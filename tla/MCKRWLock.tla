---------------------------- MODULE MCKRWLock ----------------------------
(* Instances of KRWLock for TLC: KRWLock.cfg checks liveness, where        *)
(* processes may not be taken as interchangeable.                          *)
EXTENDS KRWLock
=============================================================================
