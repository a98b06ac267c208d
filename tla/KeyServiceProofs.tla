---------------------------- MODULE KeyServiceProofs ----------------------------
(***************************************************************************)
(* Proofs about KeyService, for any number of calls, rows, names and keys. *)
(***************************************************************************)
EXTENDS KeyService, FiniteSetTheorems, TLAPS

-----------------------------------------------------------------------------
(* Type correctness.                                                       *)

\* A call holds a key from the preparation of it to its answer, and only then.
HeldWhere == \A c \in Calls : held[c] # NoKey <=> pc[c] \in {"put", "insert", "cleanup"}

\* Every variable keeps its type.
LEMMA StepType == TypeOK /\ HeldWhere /\ [Next]_vars => TypeOK' /\ HeldWhere'
<1>. DEFINE Inv == TypeOK /\ HeldWhere
<1>. SUFFICES ASSUME Inv, [Next]_vars PROVE Inv'
  OBVIOUS
<1>. USE KeyServiceAssumption DEF TypeOK, HeldWhere, PCs, Rows
<1>1. ASSUME NEW c \in Calls, Prepare(c) PROVE Inv'
  BY <1>1 DEF Prepare, Goto, Hold, Respond, Taken
<1>2. ASSUME NEW c \in Calls, Put(c) PROVE Inv'
  BY <1>2 DEF Put, Request, Goto, Hold, Respond, Fails
<1>3. ASSUME NEW c \in Calls, Insert(c) PROVE Inv'
  <2>. DEFINE new == [name |-> name[c], key |-> held[c], deleted |-> FALSE]
  <2>1. name[c] \in Names /\ held[c] \in Keys /\ pc[c] = "insert"
    BY <1>3 DEF Insert
  <2>2. CASE \E i \in Ids : rows[i] = NoRow /\ ~Conflict(c) /\ Respond(c) /\ rows' = [rows EXCEPT ![i] = new]
    <3>1. PICK i \in Ids : rows[i] = NoRow /\ rows' = [rows EXCEPT ![i] = new]
      BY <2>2
    <3>2. new.name = name[c] /\ new.key = held[c] /\ new.deleted = FALSE
      OBVIOUS
    <3>3. new \in Rows
      BY <2>1 DEF Rows
    <3>4. new # NoRow
      BY <3>3, KeyServiceAssumption DEF Rows
    <3>5. rows'[i] = new /\ \A j \in Ids \ {i} : rows'[j] = rows[j]
      BY <3>1
    <3>. HIDE DEF new
    <3>. QED  BY <1>3, <2>1, <2>2, <3>1, <3>2, <3>3, <3>4, <3>5 DEF Insert, Conflict, NameTaken, AddressTaken, Goto, Hold, Respond, Fails
  <2>3. CASE Goto(c, "cleanup") /\ UNCHANGED <<rows, held>>
    BY <1>3, <2>1, <2>3 DEF Insert, Goto, Fails
  <2>. QED  BY <1>3, <2>2, <2>3 DEF Insert
<1>4. ASSUME NEW c \in Calls, Cleanup(c) PROVE Inv'
  BY <1>4 DEF Cleanup, Goto, Hold, Respond, Fails
<1>5. ASSUME NEW c \in Calls, Erase(c) PROVE Inv'
  BY <1>5 DEF Erase, Request, Goto, Hold, Respond, Fails
<1>6. ASSUME NEW c \in Calls, SoftDelete(c) PROVE Inv'
  <2>. DEFINE old == rows[id[c]]
              new == Deleted(old)
  <2>1. CASE old # NoRow /\ rows' = [rows EXCEPT ![id[c]] = new]
    <3>1. old \in Rows /\ id[c] \in Ids
      BY <2>1 DEF Rows
    <3>2. new.name = old.name /\ new.key = old.key /\ new.deleted = TRUE
      BY DEF Deleted
    <3>3. new \in Rows
      BY <3>1 DEF Rows, Deleted
    <3>4. new # NoRow
      BY <3>3, KeyServiceAssumption DEF Rows
    <3>5. rows'[id[c]] = new /\ \A j \in Ids \ {id[c]} : rows'[j] = rows[j]
      BY <2>1, <3>1
    <3>. HIDE DEF new
    <3>. QED  BY <1>6, <2>1, <3>1, <3>2, <3>3, <3>4, <3>5 DEF SoftDelete, Goto, Hold, Respond, Fails
  <2>2. CASE rows' = rows
    BY <1>6, <2>2 DEF SoftDelete, Goto, Hold, Respond, Fails
  <2>. QED  BY <1>6, <2>1, <2>2 DEF SoftDelete
<1>7. ASSUME NEW c \in Calls, NEW o \in {"create", "import"}, NEW n \in Names, Begin(c, o, n)
      PROVE  Inv'
  BY <1>7 DEF Begin, Goto
<1>8. ASSUME NEW c \in Calls, NEW i \in Ids, BeginDelete(c, i) PROVE Inv'
  BY <1>8 DEF BeginDelete, Goto
<1>9. CASE DeleteNamespace
  BY <1>9 DEF DeleteNamespace, callVars
<1>10. CASE Crash
  BY <1>10 DEF Crash, Fails
<1>11. CASE UNCHANGED vars
  BY <1>11 DEF vars, callVars
<1>. QED  BY <1>1, <1>2, <1>3, <1>4, <1>5, <1>6, <1>7, <1>8, <1>9, <1>10, <1>11
          DEF Next, Handle

\* Every variable keeps its type, whatever the number of calls, rows and names.
THEOREM TypeCorrect == Spec => []TypeOK
<1>1. Init => TypeOK /\ HeldWhere
  BY KeyServiceAssumption DEF Init, TypeOK, HeldWhere, PCs
<1>2. TypeOK /\ HeldWhere /\ [Next]_vars => TypeOK' /\ HeldWhere'
  BY StepType
<1>. QED  BY <1>1, <1>2, PTL DEF Spec

-----------------------------------------------------------------------------
(* A deleted key is gone.                                                  *)

\* A key that did not come from outside is in one place: with one call, under that
\* call's name in OpenBao but in no row, or in rows and under their name in OpenBao.
OwnedByOne ==
  /\ \A c, d \in Calls : c # d /\ held[c] = held[d] /\ held[c] # NoKey => held[c] \in imported
  /\ \A c \in Calls, i \in Ids : rows[i] # NoRow /\ rows[i].key = held[c] => held[c] \in imported
  /\ \A c \in Calls, n \in Names : held[c] # NoKey /\ bao[n] = held[c]
       => n = name[c] \/ held[c] \in imported
  /\ \A i \in Ids, n \in Names : rows[i] # NoRow /\ bao[n] = rows[i].key
       => n = rows[i].name \/ bao[n] \in imported

\* A deletion is about a row that exists, as long as the namespace does, and about
\* the name of that row; past the request to OpenBao the key of the row is gone.
Deleting ==
  /\ ~namespace => \A i \in Ids : rows[i] = NoRow
  /\ \A c \in Calls : pc[c] \in {"erase", "softdelete"} /\ namespace
       => rows[id[c]] # NoRow /\ name[c] = rows[id[c]].name
  /\ \A c \in Calls : pc[c] = "softdelete" /\ namespace /\ rows[id[c]].key \notin imported
       => \A n \in Names : bao[n] # rows[id[c]].key

GoneInv == HeldWhere /\ OwnedByOne /\ Deleting /\ DeletedKeyIsGone

\* No step breaks it.
LEMMA GoneStep == TypeOK /\ GoneInv /\ [Next]_vars => GoneInv'
<1>. SUFFICES ASSUME TypeOK, GoneInv, [Next]_vars PROVE GoneInv'
  OBVIOUS
<1>. USE KeyServiceAssumption DEF TypeOK, Rows, GoneInv, HeldWhere, OwnedByOne, Deleting, DeletedKeyIsGone
<1>1. ASSUME NEW c \in Calls, Prepare(c) PROVE GoneInv'
  BY <1>1 DEF Prepare, Goto, Hold, Respond, Taken
<1>2. ASSUME NEW c \in Calls, Put(c) PROVE GoneInv'
  BY <1>2 DEF Put, Request, Goto, Hold, Respond, Fails
<1>3. ASSUME NEW c \in Calls, Insert(c) PROVE GoneInv'
  <2>. DEFINE new == [name |-> name[c], key |-> held[c], deleted |-> FALSE]
  <2>1. name[c] \in Names /\ held[c] \in Keys /\ pc[c] = "insert"
    BY <1>3 DEF Insert
  <2>2. CASE \E i \in Ids : rows[i] = NoRow /\ ~Conflict(c) /\ Respond(c) /\ rows' = [rows EXCEPT ![i] = new]
    <3>1. PICK i \in Ids : rows[i] = NoRow /\ rows' = [rows EXCEPT ![i] = new]
      BY <2>2
    <3>2. new.name = name[c] /\ new.key = held[c] /\ new.deleted = FALSE
      OBVIOUS
    <3>3. new \in Rows
      BY <2>1 DEF Rows
    <3>4. new # NoRow
      BY <3>3, KeyServiceAssumption DEF Rows
    <3>5. rows'[i] = new /\ \A j \in Ids \ {i} : rows'[j] = rows[j]
      BY <3>1
    <3>. HIDE DEF new
    <3>. QED  BY <1>3, <2>1, <2>2, <3>1, <3>2, <3>3, <3>4, <3>5 DEF Insert, Conflict, NameTaken, AddressTaken, Goto, Hold, Respond, Fails
  <2>3. CASE Goto(c, "cleanup") /\ UNCHANGED <<rows, held>>
    BY <1>3, <2>1, <2>3 DEF Insert, Goto, Fails
  <2>. QED  BY <1>3, <2>2, <2>3 DEF Insert
<1>4. ASSUME NEW c \in Calls, Cleanup(c) PROVE GoneInv'
  BY <1>4 DEF Cleanup, Goto, Hold, Respond, Fails
<1>5. ASSUME NEW c \in Calls, Erase(c) PROVE GoneInv'
  BY <1>5 DEF Erase, Request, Goto, Hold, Respond, Fails
<1>6. ASSUME NEW c \in Calls, SoftDelete(c) PROVE GoneInv'
  <2>. DEFINE old == rows[id[c]]
              new == Deleted(old)
  <2>1. CASE old # NoRow /\ rows' = [rows EXCEPT ![id[c]] = new]
    <3>1. old \in Rows /\ id[c] \in Ids
      BY <2>1 DEF Rows
    <3>2. new.name = old.name /\ new.key = old.key /\ new.deleted = TRUE
      BY DEF Deleted
    <3>3. new \in Rows
      BY <3>1 DEF Rows, Deleted
    <3>4. new # NoRow
      BY <3>3, KeyServiceAssumption DEF Rows
    <3>5. rows'[id[c]] = new /\ \A j \in Ids \ {id[c]} : rows'[j] = rows[j]
      BY <2>1, <3>1
    <3>. HIDE DEF new
    <3>. QED  BY <1>6, <2>1, <3>1, <3>2, <3>3, <3>4, <3>5 DEF SoftDelete, Goto, Hold, Respond, Fails
  <2>2. CASE rows' = rows
    BY <1>6, <2>2 DEF SoftDelete, Goto, Hold, Respond, Fails
  <2>. QED  BY <1>6, <2>1, <2>2 DEF SoftDelete
<1>7. ASSUME NEW c \in Calls, NEW o \in {"create", "import"}, NEW n \in Names, Begin(c, o, n)
      PROVE  GoneInv'
  BY <1>7 DEF Begin, Goto
<1>8. ASSUME NEW c \in Calls, NEW i \in Ids, BeginDelete(c, i) PROVE GoneInv'
  BY <1>8 DEF BeginDelete, Goto
<1>9. CASE DeleteNamespace
  BY <1>9 DEF DeleteNamespace, callVars
<1>10. CASE Crash
  BY <1>10 DEF Crash, Fails
<1>11. CASE UNCHANGED vars
  BY <1>11 DEF vars, callVars
<1>. QED  BY <1>1, <1>2, <1>3, <1>4, <1>5, <1>6, <1>7, <1>8, <1>9, <1>10, <1>11
          DEF Next, Handle

\* The key of a deleted row never comes back to OpenBao unless it is imported.
THEOREM DeletedKeyIsAlwaysGone == Spec => []DeletedKeyIsGone
<1>1. Init => GoneInv
  BY KeyServiceAssumption DEF Init, GoneInv, HeldWhere, OwnedByOne, Deleting, DeletedKeyIsGone
<1>2. TypeOK /\ GoneInv /\ [Next]_vars => GoneInv'
  BY GoneStep
<1>3. GoneInv => DeletedKeyIsGone
  BY DEF GoneInv
<1>. QED  BY <1>1, <1>2, <1>3, TypeCorrect, PTL DEF Spec

-----------------------------------------------------------------------------
(* The quota is overrun by less than the number of calls.                  *)

\* Every call that may still insert a row passed the check before the limit was
\* reached.
AdmittedInv == Limit >= 0 => Cardinality(Live) + Cardinality(Admitted) < Limit + Cardinality(Calls)

\* Live rows and admitted calls are finite sets.
LEMMA Finite == /\ IsFiniteSet(Live) /\ Cardinality(Live) \in Nat
                /\ IsFiniteSet(Admitted) /\ Cardinality(Admitted) \in Nat
                /\ Cardinality(Calls) \in Nat /\ Cardinality(Calls) > 0
<1>1. IsFiniteSet(Live) /\ IsFiniteSet(Admitted)
  BY KeyServiceAssumption, FS_Subset DEF Live, Admitted
<1>2. Cardinality(Calls) # 0
  BY KeyServiceAssumption, FS_EmptySet
<1>. QED  BY <1>1, <1>2, KeyServiceAssumption, FS_CardinalityType

\* A step that neither adds a live row nor admits a call keeps the bound.
LEMMA Shrinking ==
  ASSUME Live' \subseteq Live, Admitted' \subseteq Admitted, AdmittedInv
  PROVE  AdmittedInv'
<1>1. Cardinality(Live') <= Cardinality(Live) /\ Cardinality(Live') \in Nat
  BY Finite, FS_Subset, FS_CardinalityType
<1>2. Cardinality(Admitted') <= Cardinality(Admitted) /\ Cardinality(Admitted') \in Nat
  BY Finite, FS_Subset, FS_CardinalityType
<1>. QED  BY <1>1, <1>2, Finite, KeyServiceAssumption DEF AdmittedInv

\* No step breaks the bound.
LEMMA AdmittedStep == TypeOK /\ AdmittedInv /\ [Next]_vars => AdmittedInv'
<1>. SUFFICES ASSUME TypeOK, AdmittedInv, [Next]_vars PROVE AdmittedInv'
  OBVIOUS
<1>. USE DEF TypeOK, Live, Admitted
<1>1. ASSUME NEW c \in Calls, Prepare(c) PROVE AdmittedInv'
  <2>. Live' \subseteq Live /\ Admitted' \subseteq Admitted
    BY <1>1 DEF Prepare, Goto, Respond
  <2>. QED  BY Shrinking
<1>2. ASSUME NEW c \in Calls, Put(c) PROVE AdmittedInv'
  <2>. Live' \subseteq Live /\ Admitted' \subseteq Admitted
    BY <1>2 DEF Put, Request, Goto, Respond
  <2>. QED  BY Shrinking
<1>3. ASSUME NEW c \in Calls, Insert(c) PROVE AdmittedInv'
  <2>1. CASE rows' = rows
    <3>. Live' \subseteq Live /\ Admitted' \subseteq Admitted
      BY <1>3, <2>1 DEF Insert, Goto, Respond
    <3>. QED  BY Shrinking
  <2>2. CASE \E i \in Ids : /\ rows[i] = NoRow /\ Respond(c)
                            /\ rows' = [rows EXCEPT ![i] =
                                 [name |-> name[c], key |-> held[c], deleted |-> FALSE]]
    <3>1. PICK i \in Ids : /\ rows[i] = NoRow /\ Respond(c)
                           /\ rows' = [rows EXCEPT ![i] =
                                [name |-> name[c], key |-> held[c], deleted |-> FALSE]]
      BY <2>2
    <3>2. Live' \subseteq Live \cup {i} /\ i \notin Live
      BY <3>1
    <3>3. Admitted' \subseteq Admitted \ {c} /\ c \in Admitted
      BY <1>3, <3>1 DEF Insert, Goto, Respond
    <3>4. Cardinality(Live') <= Cardinality(Live) + 1 /\ Cardinality(Live') \in Nat
      <4>. HIDE DEF Live
      <4>1. /\ IsFiniteSet(Live \cup {i})
            /\ Cardinality(Live \cup {i}) = Cardinality(Live) + 1
        BY <3>2, Finite, FS_AddElement
      <4>. QED  BY <3>2, <4>1, FS_Subset, FS_CardinalityType
    <3>5. Cardinality(Admitted') <= Cardinality(Admitted) - 1 /\ Cardinality(Admitted') \in Nat
      <4>. HIDE DEF Admitted
      <4>1. /\ IsFiniteSet(Admitted \ {c})
            /\ Cardinality(Admitted \ {c}) = Cardinality(Admitted) - 1
        BY <3>3, Finite, FS_RemoveElement
      <4>. QED  BY <3>3, <4>1, FS_Subset, FS_CardinalityType
    <3>. HIDE DEF Live, Admitted
    <3>. QED  BY <3>4, <3>5, Finite, KeyServiceAssumption DEF AdmittedInv
  <2>. QED  BY <1>3, <2>1, <2>2 DEF Insert
<1>4. ASSUME NEW c \in Calls, Cleanup(c) PROVE AdmittedInv'
  <2>. Live' \subseteq Live /\ Admitted' \subseteq Admitted
    BY <1>4 DEF Cleanup, Goto, Respond
  <2>. QED  BY Shrinking
<1>5. ASSUME NEW c \in Calls, Erase(c) PROVE AdmittedInv'
  <2>. Live' \subseteq Live /\ Admitted' \subseteq Admitted
    BY <1>5 DEF Erase, Request, Goto, Respond
  <2>. QED  BY Shrinking
<1>6. ASSUME NEW c \in Calls, SoftDelete(c) PROVE AdmittedInv'
  <2>1. rows' = rows \/ rows' = [rows EXCEPT ![id[c]] = Deleted(rows[id[c]])]
    BY <1>6 DEF SoftDelete
  <2>2. Deleted(rows[id[c]]).deleted = TRUE
    BY DEF Deleted
  <2>3. Live' \subseteq Live
    BY <2>1, <2>2
  <2>4. Admitted' \subseteq Admitted
    BY <1>6 DEF SoftDelete, Goto, Respond
  <2>. QED  BY <2>3, <2>4, Shrinking
<1>7. ASSUME NEW c \in Calls, NEW o \in {"create", "import"}, NEW n \in Names, Begin(c, o, n)
      PROVE  AdmittedInv'
  <2>1. Live' = Live /\ (Limit >= 0 => Cardinality(Live) < Limit)
    BY <1>7 DEF Begin
  <2>2. Admitted' \subseteq Calls
    OBVIOUS
  <2>. HIDE DEF Live, Admitted
  <2>3. Cardinality(Admitted') <= Cardinality(Calls) /\ Cardinality(Admitted') \in Nat
    BY <2>2, KeyServiceAssumption, FS_Subset, FS_CardinalityType
  <2>. QED  BY <2>1, <2>3, Finite, KeyServiceAssumption DEF AdmittedInv
<1>8. ASSUME NEW c \in Calls, NEW i \in Ids, BeginDelete(c, i) PROVE AdmittedInv'
  <2>. Live' \subseteq Live /\ Admitted' \subseteq Admitted
    BY <1>8 DEF BeginDelete, Goto
  <2>. QED  BY Shrinking
<1>9. CASE DeleteNamespace
  <2>. Live' \subseteq Live /\ Admitted' \subseteq Admitted
    BY <1>9 DEF DeleteNamespace, callVars
  <2>. QED  BY Shrinking
<1>10. CASE Crash
  <2>. Live' \subseteq Live /\ Admitted' \subseteq Admitted
    BY <1>10 DEF Crash
  <2>. QED  BY Shrinking
<1>11. CASE UNCHANGED vars
  <2>. Live' \subseteq Live /\ Admitted' \subseteq Admitted
    BY <1>11 DEF vars, callVars
  <2>. QED  BY Shrinking
<1>. QED  BY <1>1, <1>2, <1>3, <1>4, <1>5, <1>6, <1>7, <1>8, <1>9, <1>10, <1>11
          DEF Next, Handle

\* The limit of a plan is overrun by less than the number of calls.
THEOREM OverrunIsAlwaysBounded == Spec => []OverrunIsBounded
<1>1. Init => AdmittedInv
  <2>. SUFFICES ASSUME Init PROVE AdmittedInv
    OBVIOUS
  <2>1. Live = {} /\ Admitted = {}
    BY DEF Init, Live, Admitted
  <2>. QED  BY <2>1, Finite, FS_EmptySet, KeyServiceAssumption DEF AdmittedInv
<1>2. TypeOK /\ AdmittedInv /\ [Next]_vars => AdmittedInv'
  BY AdmittedStep
<1>3. AdmittedInv => OverrunIsBounded
  BY Finite, KeyServiceAssumption DEF AdmittedInv, OverrunIsBounded
<1>. QED  BY <1>1, <1>2, <1>3, TypeCorrect, PTL DEF Spec

-----------------------------------------------------------------------------
(* No orphans.                                                             *)

\* Names under which what is stored will be given a row, or removed, by the call that
\* stored it or by one that failed.
Settling ==
  {n \in Names :
     \E c \in Calls : /\ name[c] = n
                      /\ \/ pc[c] = "cleanup"
                         \/ pc[c] = "insert" /\ held[c] = bao[n]}

\* Names under which what is stored has its row.
Known == {n \in Names : \E i \in Live : rows[i].name = n /\ rows[i].key = bao[n]}

\* While nothing failed, a stored key has its row, or a call that will settle it; and
\* when a deletion is about to mark a live row, whatever is stored under its name
\* is not that row's key but the business of such a call.
OrphanInv == faults = 0 /\ namespace =>
  /\ \A n \in Names : bao[n] # NoKey => n \in Known \cup Settling
  /\ \A c \in Calls : pc[c] = "softdelete" /\ id[c] \in Live /\ bao[name[c]] # NoKey
       => name[c] \in Settling

\* No step breaks it.
LEMMA OrphanStep == TypeOK /\ GoneInv /\ OrphanInv /\ [Next]_vars => OrphanInv'
<1>. SUFFICES ASSUME TypeOK, GoneInv, OrphanInv, [Next]_vars, (faults = 0 /\ namespace)' PROVE OrphanInv'
  BY DEF OrphanInv
<1>. USE KeyServiceAssumption DEF TypeOK, GoneInv, Deleting, OrphanInv, Known, Settling, Live
<1>0. ~Fails
  BY DEF Fails
<1>1. ASSUME NEW c \in Calls, Prepare(c) PROVE OrphanInv'
  BY <1>1 DEF Prepare, Goto, Hold, Respond, Taken
<1>2. ASSUME NEW c \in Calls, Put(c) PROVE OrphanInv'
  BY <1>2 DEF Put, Request, Goto, Hold, Respond, Fails
<1>3. ASSUME NEW c \in Calls, Insert(c) PROVE OrphanInv'
  <2>. DEFINE new == [name |-> name[c], key |-> held[c], deleted |-> FALSE]
  <2>1. CASE \E i \in Ids : rows[i] = NoRow /\ ~Conflict(c) /\ Respond(c) /\ rows' = [rows EXCEPT ![i] = new]
    <3>1. PICK i \in Ids : rows[i] = NoRow /\ rows' = [rows EXCEPT ![i] = new]
      BY <2>1
    <3>2. i \in Live' /\ rows'[i].name = name[c] /\ rows'[i].key = held[c]
      <4>1. name[c] \in Names /\ held[c] \in Keys
        BY <1>3 DEF Insert, HeldWhere
      <4>2. new \in Rows
        BY <4>1 DEF Rows
      <4>3. new # NoRow
        BY <4>2 DEF Rows
      <4>. QED  BY <3>1, <4>3
    <3>3. \A j \in Ids \ {i} : rows'[j] = rows[j]
      BY <3>1
    <3>4. ~\E j \in Live : rows[j].name = name[c]
      BY <2>1 DEF Conflict, NameTaken
    <3>5. faults' = faults /\ UNCHANGED <<namespace, bao, name, id>>
      BY <1>3, <1>0, <2>1 DEF Insert
    <3>6. pc' = [pc EXCEPT ![c] = "idle"] /\ held' = [held EXCEPT ![c] = NoKey] /\ pc[c] = "insert"
      BY <1>3, <2>1 DEF Insert, Respond, Goto, Hold
    <3>7. ASSUME NEW n \in Names, n \in Settling, ~\E j \in Ids : j = i /\ n = name[c] /\ held[c] = bao[n]
          PROVE  n \in Settling'
      BY <3>5, <3>6, <3>7
    <3>8. ASSUME NEW n \in Names, bao'[n] # NoKey PROVE n \in Known' \cup Settling'
      BY <3>1, <3>2, <3>3, <3>5, <3>7, <3>8
    <3>9. ASSUME NEW d \in Calls, pc'[d] = "softdelete", id'[d] \in Live', bao'[name'[d]] # NoKey
          PROVE  name'[d] \in Settling'
      <4>1. pc[d] = "softdelete" /\ rows[id[d]] # NoRow /\ name[d] = rows[id[d]].name
        BY <3>5, <3>6, <3>9
      <4>2. id[d] \in Live /\ name[d] # name[c]
        BY <3>1, <3>3, <3>4, <3>5, <3>9, <4>1
      <4>3. name[d] \in Names /\ name[d] \in Settling
        BY <3>5, <3>9, <4>1, <4>2
      <4>4. name[d] \in Settling'
        <5>. HIDE DEF Settling
        <5>. QED  BY <3>7, <4>2, <4>3
      <4>. QED  BY <3>5, <4>4
    <3>. HIDE DEF Known, Settling, Live, TypeOK, GoneInv, Deleting
    <3>. QED  BY <3>8, <3>9
  <2>2. CASE Goto(c, "cleanup") /\ UNCHANGED <<rows, held>>
    BY <1>3, <2>2 DEF Insert, Goto, Fails
  <2>. QED  BY <1>3, <2>1, <2>2 DEF Insert
<1>4. ASSUME NEW c \in Calls, Cleanup(c) PROVE OrphanInv'
  BY <1>4 DEF Cleanup, Goto, Hold, Respond, Fails
<1>5. ASSUME NEW c \in Calls, Erase(c) PROVE OrphanInv'
  BY <1>5 DEF Erase, Request, Goto, Hold, Respond, Fails
<1>6. ASSUME NEW c \in Calls, SoftDelete(c) PROVE OrphanInv'
  <2>. DEFINE i == id[c]
  <2>1. UNCHANGED <<namespace, bao, name, id>> /\ faults' = faults
    BY <1>6, <1>0 DEF SoftDelete
  <2>2. pc' = [pc EXCEPT ![c] = "idle"] /\ held' = [held EXCEPT ![c] = NoKey] /\ pc[c] = "softdelete"
    BY <1>6 DEF SoftDelete, Respond, Goto, Hold
  <2>3. rows[i] # NoRow /\ name[c] = rows[i].name
    BY <2>1, <2>2
  <2>4. /\ \A j \in Ids \ {i} : rows'[j] = rows[j]
        /\ i \in Live' => rows'[i] = rows[i]
    BY <1>6, <2>3 DEF SoftDelete, Deleted
  <2>5. ASSUME NEW n \in Names, n \in Settling PROVE n \in Settling'
    BY <2>1, <2>2, <2>5 DEF HeldWhere
  <2>6. ASSUME NEW n \in Names, bao'[n] # NoKey PROVE n \in Known' \cup Settling'
    <3>1. CASE \E j \in Live \ {i} : rows[j].name = n /\ rows[j].key = bao[n]
      BY <2>1, <2>4, <3>1
    <3>2. CASE i \in Live /\ rows[i].name = n
      BY <2>1, <2>2, <2>3, <2>5, <2>6, <3>2
    <3>. QED  BY <2>1, <2>5, <2>6, <3>1, <3>2
  <2>7. ASSUME NEW d \in Calls, pc'[d] = "softdelete", id'[d] \in Live', bao'[name'[d]] # NoKey
        PROVE  name'[d] \in Settling'
    <3>1. pc[d] = "softdelete" /\ id[d] \in Live /\ bao[name[d]] # NoKey
      BY <2>1, <2>2, <2>4, <2>7
    <3>2. name[d] \in Names /\ name[d] \in Settling
      BY <2>1, <2>7, <3>1
    <3>3. name[d] \in Settling'
      <4>. HIDE DEF Settling
      <4>. QED  BY <2>5, <3>2
    <3>. QED  BY <2>1, <3>3
  <2>. HIDE DEF Known, Settling, Live, TypeOK, GoneInv, Deleting
  <2>. QED  BY <2>6, <2>7
<1>7. ASSUME NEW c \in Calls, NEW o \in {"create", "import"}, NEW n \in Names, Begin(c, o, n)
      PROVE  OrphanInv'
  BY <1>7 DEF Begin, Goto
<1>8. ASSUME NEW c \in Calls, NEW i \in Ids, BeginDelete(c, i) PROVE OrphanInv'
  BY <1>8 DEF BeginDelete, Goto
<1>9. CASE DeleteNamespace
  BY <1>9 DEF DeleteNamespace, callVars
<1>10. CASE Crash
  BY <1>10 DEF Crash, Fails
<1>11. CASE UNCHANGED vars
  BY <1>11 DEF vars, callVars
<1>. QED  BY <1>1, <1>2, <1>3, <1>4, <1>5, <1>6, <1>7, <1>8, <1>9, <1>10, <1>11
          DEF Next, Handle

\* Unless something failed or the namespace was deleted, OpenBao ends up with no key
\* the database does not know.
THEOREM NoKeyIsEverOrphaned == Spec => []NoOrphanKey
<1>1. Init => GoneInv
  BY KeyServiceAssumption DEF Init, GoneInv, HeldWhere, OwnedByOne, Deleting, DeletedKeyIsGone
<1>2. Init => OrphanInv
  BY DEF Init, OrphanInv, Known, Settling, Live
<1>3. TypeOK /\ GoneInv /\ [Next]_vars => GoneInv'
  BY GoneStep
<1>4. TypeOK /\ GoneInv /\ OrphanInv /\ [Next]_vars => OrphanInv'
  BY OrphanStep
<1>5. OrphanInv => NoOrphanKey
  BY DEF OrphanInv, NoOrphanKey, Quiet, Known, Settling
<1>. QED  BY <1>1, <1>2, <1>3, <1>4, <1>5, TypeCorrect, PTL DEF Spec

-----------------------------------------------------------------------------
(* Table and storage keep a ledger.                                        *)

\* Every step is one of Ledger's, or shows nothing.
LEMMA BooksStep == TypeOK /\ GoneInv /\ [Next]_vars => [Books!Next]_(Books!vars)
<1>. SUFFICES ASSUME TypeOK, GoneInv, [Next]_vars PROVE Books!Next \/ UNCHANGED Books!vars
  OBVIOUS
<1>. USE KeyServiceAssumption DEF TypeOK, Rows, Books!vars
<1>1. ASSUME NEW c \in Calls, Prepare(c) PROVE Books!Next \/ UNCHANGED Books!vars
  <2>1. UNCHANGED <<rows, namespace, bao>> /\ (imported' = imported \/ \E k \in Keys : imported' = imported \cup {k})
    BY <1>1 DEF Prepare
  <2>. QED  BY <2>1 DEF Books!Next, Books!Bring
<1>2. ASSUME NEW c \in Calls, Put(c) PROVE Books!Next \/ UNCHANGED Books!vars
  <2>1. name[c] \in Names /\ held[c] \in Keys
    BY <1>2 DEF Put, GoneInv, HeldWhere
  <2>2. /\ UNCHANGED <<rows, namespace, imported>>
        /\ bao' = bao \/ bao' = [bao EXCEPT ![name[c]] = held[c]]
    BY <1>2 DEF Put, Request
  <2>3. held[c] \in imported \/ /\ \A i \in Ids : rows[i] # NoRow => rows[i].key # held[c]
                                /\ \A m \in Names \ {name[c]} : bao[m] # held[c]
    BY <2>1 DEF GoneInv, OwnedByOne
  <2>4. CASE bao' = [bao EXCEPT ![name[c]] = held[c]]
    <3>1. Books!Store(name[c], held[c])
      BY <2>2, <2>3, <2>4 DEF Books!Store, Books!Entered
    <3>. QED  BY <2>1, <3>1 DEF Books!Next
  <2>. QED  BY <2>2, <2>4
<1>3. ASSUME NEW c \in Calls, Insert(c) PROVE Books!Next \/ UNCHANGED Books!vars
  <2>1. name[c] \in Names /\ held[c] \in Keys /\ UNCHANGED <<namespace, bao, imported>>
    BY <1>3 DEF Insert, GoneInv, HeldWhere
  <2>2. CASE ~Conflict(c) /\ \E i \in Ids : rows[i] = NoRow /\ rows' = [rows EXCEPT ![i] =
                                 [name |-> name[c], key |-> held[c], deleted |-> FALSE]]
    <3>1. PICK i \in Ids : rows[i] = NoRow /\ rows' = [rows EXCEPT ![i] =
                                 [name |-> name[c], key |-> held[c], deleted |-> FALSE]]
      BY <2>2
    <3>2. namespace /\ \A j \in Books!Live : rows[j].name # name[c] /\ rows[j].key # held[c]
      BY <2>2 DEF Conflict, NameTaken, AddressTaken, Live, Books!Live, Books!Entered
    <3>3. held[c] \in imported \/ \A j \in Books!Entered : rows[j].key # held[c]
      BY DEF GoneInv, OwnedByOne, Books!Entered
    <3>4. Books!Enter(i, name[c], held[c])
      BY <2>1, <3>1, <3>2, <3>3 DEF Books!Enter, Books!Entered
    <3>. QED  BY <2>1, <3>4 DEF Books!Next
  <2>3. CASE rows' = rows
    BY <2>1, <2>3
  <2>. QED  BY <1>3, <2>2, <2>3 DEF Insert
<1>4. ASSUME NEW c \in Calls, Cleanup(c) \/ Erase(c) PROVE Books!Next \/ UNCHANGED Books!vars
  <2>1. /\ UNCHANGED <<rows, namespace, imported>>
        /\ bao' = bao \/ bao' = [bao EXCEPT ![name[c]] = NoKey]
    BY <1>4 DEF Cleanup, Erase, Request
  <2>2. name[c] \in Names
    OBVIOUS
  <2>. QED  BY <2>1, <2>2 DEF Books!Next, Books!Remove
<1>5. ASSUME NEW c \in Calls, SoftDelete(c) PROVE Books!Next \/ UNCHANGED Books!vars
  <2>1. id[c] \in Ids /\ pc[c] = "softdelete" /\ UNCHANGED <<namespace, bao, imported>>
    BY <1>5 DEF SoftDelete
  <2>2. CASE rows[id[c]] # NoRow /\ rows' = [rows EXCEPT ![id[c]] = Deleted(@)]
    <3>1. namespace
      BY <2>1, <2>2 DEF GoneInv, Deleting
    <3>2. rows[id[c]].key \in imported \/ \A n \in Names : bao[n] # rows[id[c]].key
      BY <2>1, <3>1 DEF GoneInv, Deleting
    <3>3. Books!Retire(id[c])
      BY <2>1, <2>2, <3>2 DEF Books!Retire, Books!Entered, Deleted
    <3>. QED  BY <2>1, <3>3 DEF Books!Next
  <2>3. CASE rows' = rows
    BY <2>1, <2>3
  <2>. QED  BY <1>5, <2>2, <2>3 DEF SoftDelete
<1>6. CASE \E c \in Calls : \/ \E o \in {"create", "import"}, n \in Names : Begin(c, o, n)
                            \/ \E i \in Ids : BeginDelete(c, i)
  BY <1>6 DEF Begin, BeginDelete
<1>7. CASE DeleteNamespace
  BY <1>7 DEF DeleteNamespace, Books!Next, Books!Close
<1>8. CASE Crash
  BY <1>8 DEF Crash
<1>9. CASE UNCHANGED vars
  BY <1>9 DEF vars
<1>. QED  BY <1>1, <1>2, <1>3, <1>4, <1>5, <1>6, <1>7, <1>8, <1>9 DEF Next, Handle

\* The key service, its clean-ups, failures and crashes included, keeps a ledger.
THEOREM ServiceKeepsALedger == Spec => KeepsALedger
<1>1. Init => GoneInv
  BY KeyServiceAssumption DEF Init, GoneInv, HeldWhere, OwnedByOne, Deleting, DeletedKeyIsGone
<1>2. Init => Books!Init
  BY DEF Init, Books!Init
<1>3. TypeOK /\ GoneInv /\ [Next]_vars => GoneInv'
  BY GoneStep
<1>4. TypeOK /\ GoneInv /\ [Next]_vars => [Books!Next]_(Books!vars)
  BY BooksStep
<1>. QED  BY <1>1, <1>2, <1>3, <1>4, TypeCorrect, PTL DEF Spec, KeepsALedger, Books!Spec

\* What has left a ledger stays out: DeletedKeyIsGone follows from Ledger alone, so
\* that KeepsALedger is the stronger of the two.
THEOREM LedgerKeepsDeletedKeysOut == Books!Spec => []DeletedKeyIsGone
<1>. DEFINE Tables == /\ rows = [i \in Ids |-> rows[i]] /\ bao = [n \in Names |-> bao[n]]
                      /\ \A i \in Ids : rows[i] # NoRow => rows[i].key \in Keys
            Inv == Tables /\ DeletedKeyIsGone
<1>1. Books!Init => Inv
  BY DEF Books!Init, DeletedKeyIsGone
<1>2. ASSUME Inv, [Books!Next]_(Books!vars) PROVE Inv'
  <2>. USE KeyServiceAssumption DEF DeletedKeyIsGone, Books!Entered
  <2>1. ASSUME NEW k \in Keys, Books!Bring(k) PROVE Inv'
    BY <1>2, <2>1 DEF Books!Bring
  <2>2. ASSUME NEW n \in Names, NEW k \in Keys, Books!Store(n, k) PROVE Inv'
    BY <1>2, <2>2 DEF Books!Store
  <2>3. ASSUME NEW n \in Names, Books!Remove(n) PROVE Inv'
    BY <1>2, <2>3 DEF Books!Remove
  <2>4. ASSUME NEW i \in Ids, Books!Retire(i) PROVE Inv'
    BY <1>2, <2>4 DEF Books!Retire
  <2>5. ASSUME NEW i \in Ids, NEW n \in Names, NEW k \in Keys, Books!Enter(i, n, k) PROVE Inv'
    BY <1>2, <2>5 DEF Books!Enter
  <2>6. CASE Books!Close
    BY <1>2, <2>6 DEF Books!Close
  <2>7. CASE UNCHANGED Books!vars
    BY <1>2, <2>7 DEF Books!vars
  <2>. HIDE DEF Inv
  <2>. QED  BY <1>2, <2>1, <2>2, <2>3, <2>4, <2>5, <2>6, <2>7 DEF Books!Next
<1>. QED  BY <1>1, <1>2, PTL DEF Books!Spec
=============================================================================
