------------------------------- MODULE Catalogue -------------------------------
(***************************************************************************)
(* What the reuse of contracts promises: a catalogue of one entry, which   *)
(* only ever names something that has been built as a whole, which is      *)
(* never emptied again, and from which nothing unfinished is ever used.    *)
(***************************************************************************)
CONSTANTS Sites, Nowhere

VARIABLES
  built, \* the sites where something whole stands
  entry, \* the site others are told of, if there is one
  used   \* the sites of which something else has been made

vars == <<built, entry, used>>

Init == built = {} /\ entry = Nowhere /\ used = {}

Build(a) == built' = built \cup {a} /\ UNCHANGED <<entry, used>>

\* An entry may give way to another.
Register(a) == a \in built /\ entry' = a /\ UNCHANGED <<built, used>>

Use(a) == a \in built /\ used' = used \cup {a} /\ UNCHANGED <<built, entry>>

Next == \E a \in Sites : Build(a) \/ Register(a) \/ Use(a)

Spec == Init /\ [][Next]_vars
=============================================================================
