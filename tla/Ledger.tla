--------------------------------- MODULE Ledger ---------------------------------
(***************************************************************************)
(* What a namespace's table of keys and the vault beside it promise, to    *)
(* somebody who sees both and no request in between.  A key nobody brought *)
(* from outside enters the vault before it has a row, under one name, has  *)
(* at most one row ever, and leaves the vault before the row is deleted.   *)
(***************************************************************************)
CONSTANTS Ids, Names, Keys, NoRow, NoKey

VARIABLES
  rows,  \* the table
  open,  \* the namespace exists
  vault, \* the key stored under each name
  known  \* keys somebody has brought from outside

vars == <<rows, open, vault, known>>

Entered == {i \in Ids : rows[i] # NoRow}
Live == {i \in Entered : ~rows[i].deleted}

Init ==
  /\ rows = [i \in Ids |-> NoRow]
  /\ open = TRUE
  /\ vault = [n \in Names |-> NoKey]
  /\ known = {}

Bring(k) ==
  /\ known' = known \cup {k}
  /\ UNCHANGED <<rows, open, vault>>

Store(n, k) ==
  /\ k \in known \/ /\ \A i \in Entered : rows[i].key # k
                    /\ \A m \in Names \ {n} : vault[m] # k
  /\ vault' = [vault EXCEPT ![n] = k]
  /\ UNCHANGED <<rows, open, known>>

Remove(n) ==
  /\ vault' = [vault EXCEPT ![n] = NoKey]
  /\ UNCHANGED <<rows, open, known>>

Enter(i, n, k) ==
  /\ open /\ i \notin Entered
  /\ \A j \in Live : rows[j].name # n /\ rows[j].key # k
  /\ k \in known \/ \A j \in Entered : rows[j].key # k
  /\ rows' = [rows EXCEPT ![i] = [name |-> n, key |-> k, deleted |-> FALSE]]
  /\ UNCHANGED <<open, vault, known>>

Retire(i) ==
  /\ i \in Entered
  /\ rows[i].key \in known \/ \A n \in Names : vault[n] # rows[i].key
  /\ rows' = [rows EXCEPT ![i] = [name |-> @.name, key |-> @.key, deleted |-> TRUE]]
  /\ UNCHANGED <<open, vault, known>>

Close ==
  /\ open /\ open' = FALSE
  /\ rows' = [i \in Ids |-> NoRow]
  /\ UNCHANGED <<vault, known>>

Next ==
  \/ \E k \in Keys : Bring(k)
  \/ \E n \in Names : Remove(n) \/ \E k \in Keys : Store(n, k)
  \/ \E i \in Ids : Retire(i) \/ \E n \in Names, k \in Keys : Enter(i, n, k)
  \/ Close

Spec == Init /\ [][Next]_vars
=============================================================================
