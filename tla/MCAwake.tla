------------------------------ MODULE MCAwake ------------------------------
(* Instances of Awake for TLC: a process that uses alarms to interrupt a   *)
(* rendezvous with another, its sleep(), its note handler, an exec from    *)
(* there, and another whose partner gets notes.                            *)
EXTENDS Awake, TLC

CONSTANTS p1, p2

Users(a, b) == p1 :> a @@ p2 :> b

MCPrograms == {
  Users({"awake", "rendezvous"}, {"rendezvous"}),
  Users({"awake", "sleep", "forgive", "exec", "other"}, {}),
  Users({"awake", "sleep", "note"}, {}),
  Users({"awake", "exec", "note"}, {}),
  Users({"rendezvous", "note"}, {"rendezvous"})}
=============================================================================
