------------------------------ MODULE RWMutex ------------------------------
(***************************************************************************)
(* What a reader/writer lock promises its clients: it is shared by readers *)
(* or belongs to one writer, nobody gets in past those who wait, nobody    *)
(* waits for a free lock, and the last to leave lets somebody in if        *)
(* anybody waits.  In which order is left open.  The lock of the kernel    *)
(* and, in the programs it can be used for, that of the C library are      *)
(* shown to implement this module.                                         *)
(***************************************************************************)
CONSTANT Proc      \* the processes

VARIABLES reading, writing,   \* who has the lock
          waitr, waitw        \* who waits to read, to write

holders == reading \cup writing
waiting == waitr \cup waitw
vars == <<reading, writing, waitr, waitw>>

Init == reading = {} /\ writing = {} /\ waitr = {} /\ waitw = {}

Outside(p) == p \notin holders \cup waiting

Rlock(p) ==
  /\ Outside(p)
  /\ \/ /\ writing = {} /\ waiting = {}
        /\ reading' = reading \cup {p}
        /\ UNCHANGED <<writing, waitr, waitw>>
     \/ /\ writing # {} \/ waiting # {}
        /\ waitr' = waitr \cup {p}
        /\ UNCHANGED <<reading, writing, waitw>>

Wlock(p) ==
  /\ Outside(p)
  /\ \/ /\ holders = {} /\ waiting = {}
        /\ writing' = {p}
        /\ UNCHANGED <<reading, waitr, waitw>>
     \/ /\ holders # {} \/ waiting # {}
        /\ waitw' = waitw \cup {p}
        /\ UNCHANGED <<reading, writing, waitr>>

Leave(p) == /\ p \in holders
            /\ holders # {p} \/ waiting = {}
            /\ reading' = reading \ {p}
            /\ writing' = writing \ {p}
            /\ UNCHANGED <<waitr, waitw>>

(* The last one out lets in a writer or some readers. *)
PassOn(p) ==
  /\ holders = {p}
  /\ \/ \E w \in waitw : /\ writing' = {w} /\ reading' = {}
                         /\ waitw' = waitw \ {w} /\ waitr' = waitr
     \/ \E R \in SUBSET waitr : /\ R # {}
                                /\ reading' = R /\ writing' = {}
                                /\ waitr' = waitr \ R /\ waitw' = waitw

Next == \E p \in Proc : Rlock(p) \/ Wlock(p) \/ Leave(p) \/ PassOn(p)

Spec == Init /\ [][Next]_vars
=============================================================================
