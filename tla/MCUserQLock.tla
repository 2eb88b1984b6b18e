---------------------------- MODULE MCUserQLock ----------------------------
(* Instances of UserQLock for TLC: UserQLock.cfg checks liveness, where    *)
(* processes may not be taken as interchangeable.                          *)
EXTENDS UserQLock
=============================================================================
