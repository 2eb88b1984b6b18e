------------------------------- MODULE MCQio -------------------------------
(* An instance of Qio for TLC: the ways queues are used in the kernel.     *)
EXTENDS Qio, TLC

CONSTANTS p1, p2, p3

Users(a, b, c) == p1 :> a @@ p2 :> b @@ p3 :> c

(* A pipe, a pipe with two writers, a device's output, a device's or a     *)
(* conversation's input, and the console's queue of kernel prints.         *)
MCPrograms == {
  Users({"qread"}, {"qwrite"}, {"qread", "qclose", "qhangup", "qreopen"}),
  Users({"qread"}, {"qwrite"}, {"qwrite", "qhangup"}),
  Users({"qget", "qconsume", "qdiscard"}, {"qwrite"}, {"qflush", "qclose"}),
  Users({"qread"}, {"qpass", "qpassnolim", "qproduce"}, {"qbwrite", "qclose"}),
  Users({"qread"}, {"qbwrite", "qnoblock"}, {"qiwrite", "qsetlimit"})}
=============================================================================
