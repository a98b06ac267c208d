------------------------------- MODULE DurableMap -------------------------------
(***************************************************************************)
(* What the keyring's metadata store promises: a map that is kept in       *)
(* memory and in one file, where the file always holds a whole map, and    *)
(* where an operation that returned without an error survives a restart.   *)
(***************************************************************************)
CONSTANTS Uids, Values

VARIABLES
  map,   \* what Get, Has and List answer
  saved, \* what the next start of the program will read
  clean  \* the last change has been acknowledged as persistent

vars == <<map, saved, clean>>

Init ==
  /\ map \in [Uids -> Values]
  /\ saved = map
  /\ clean = TRUE

\* The map changes in memory; nothing is promised yet.
Change ==
  /\ map' \in [Uids -> Values]
  /\ clean' = FALSE
  /\ UNCHANGED saved

\* The whole map is persisted at once and the change is acknowledged.
Persist ==
  /\ saved' = map
  /\ clean' = TRUE
  /\ UNCHANGED map

\* The program ends at any point and reads back what it persisted.
Restart ==
  /\ map' = saved
  /\ clean' = TRUE
  /\ UNCHANGED saved

Next == Change \/ Persist \/ Restart

Spec == Init /\ [][Next]_vars
=============================================================================
