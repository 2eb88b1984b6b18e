---------------------------- MODULE MCUserRWLock ----------------------------
(* Instances of UserRWLock for TLC. *)
EXTENDS UserRWLock, TLC

CONSTANTS p1, p2, p3

Users(a, b, c) == p1 :> a @@ p2 :> b @@ p3 :> c

(* Writers that queue and readers that do not; readers with and without a  *)
(* limit of time, and a writer; writers that may time out among readers    *)
(* and writers.                                                            *)
MCPrograms == {
  Users({"canrlock", "wlock", "canwlock"}, {"canrlock", "wlock", "canwlock"}, {"canrlock", "wlock", "canwlock"}),
  Users({"rlockt"}, {"rlock"}, {"wlock"}),
  Users({"wlockt"}, {"wlock"}, {"canrlock"}),
  Users({"rlock"}, {"wlockt"}, {"canrlock"})}

(* A reader and two that may write or read. *)
MCReadersWriters == {Users({"rlock"}, {"rlock", "wlock"}, {"rlock", "wlock"})}
=============================================================================
