---------------------------- MODULE DurableStore ----------------------------
(***************************************************************************)
(* What a file-backed pairing store promises: operations change memory one *)
(* device at a time, a commit makes disk equal to memory in one step, and  *)
(* a restart brings back exactly what was committed.                       *)
(***************************************************************************)
EXTENDS Pairing

VARIABLES
  memory,  \* the entries in use, or None while the program is not running
  disk     \* the entries a restart would load

abstractVars == <<memory, disk>>

Init == memory = {} /\ disk = {}

Others(d) == {e \in memory : e.DeviceID # d}

Put == /\ memory # None
       /\ \E d \in Devices, t \in Tokens : memory' = Others(d) \cup {NewEntry(d, t)}
       /\ UNCHANGED disk

Remove == /\ memory # None
          /\ \E d \in Devices : memory' = Others(d)
          /\ UNCHANGED disk

Approve == /\ memory # None
           /\ \E e \in memory : memory' = Others(e.DeviceID)
                                           \cup {[e EXCEPT !.Confirmed = TRUE]}
           /\ UNCHANGED disk

Commit == /\ memory # None
          /\ disk' = memory
          /\ UNCHANGED memory

Stop == /\ memory' = None
        /\ UNCHANGED disk

Start == /\ memory = None
         /\ memory' = disk
         /\ UNCHANGED disk

Next == Put \/ Remove \/ Approve \/ Commit \/ Stop \/ Start

Spec == Init /\ [][Next]_abstractVars
=============================================================================
