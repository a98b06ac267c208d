------------------------------- MODULE Lifecycle -------------------------------
(***************************************************************************)
(* What the deployment service promises of one deployment, to somebody who *)
(* sees its status, whether it has a message, whether its work is done,    *)
(* and whether anybody is busy with it: who is busy may do almost          *)
(* anything, but leaves it in order; what nobody is busy with only moves   *)
(* when it is started or found stale; what is completed is done.           *)
(***************************************************************************)
VARIABLES
  status, told, \* "absent" before it is created; it has an error message
  done,         \* all its work is done and delivered
  busy,         \* somebody is at work on it
  excused       \* something has just failed that nobody can make up for

vars == <<status, told, done, busy, excused>>

Init == status = "absent" /\ told = FALSE /\ done = FALSE /\ busy = FALSE /\ excused = FALSE

InOrder == status # "running" /\ (status = "failed" => told)

Create ==
  /\ status = "absent" /\ status' = "pending"
  /\ busy' \in BOOLEAN /\ excused' = FALSE
  /\ UNCHANGED <<told, done>>

Begin ==
  /\ ~busy /\ status \in {"pending", "paused", "failed"}
  /\ busy' = TRUE
  /\ UNCHANGED <<status, told, done, excused>>

\* Any step of anybody at work, the last one too.
Work ==
  /\ busy
  /\ status' \in {"pending", "running", "paused", "completed", "failed"}
  /\ told' \in BOOLEAN /\ busy' \in BOOLEAN /\ excused' \in BOOLEAN
  /\ done' \in {done, TRUE} /\ (status' = "completed" => done')
  /\ busy' \/ excused' \/ InOrder'

\* Found to be running for too long.
Sweep ==
  /\ status = "running"
  /\ status' = "failed" /\ told' = TRUE /\ excused' = FALSE
  /\ UNCHANGED <<done, busy>>

\* A failure while nobody is at work, and the end of whoever is.
Upset ==
  /\ excused' = TRUE /\ busy' \in {busy, FALSE}
  /\ UNCHANGED <<status, told, done>>

Next == Work \/ Sweep \/ Create \/ Begin \/ Upset

Spec == Init /\ [][Next]_vars
=============================================================================
