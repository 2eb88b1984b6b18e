------------------------------ MODULE MCKQLock ------------------------------
(* Instance of KQLock for TLC: KQLock.cfg checks liveness, where processes *)
(* may not be taken as interchangeable.                                    *)
EXTENDS KQLock
=============================================================================
