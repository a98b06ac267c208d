------------------------------- MODULE KeyService -------------------------------
(***************************************************************************)
(* Keys as the control plane sees them: the rows of its "keys" table, the  *)
(* private keys they stand for in OpenBao, and the key service that writes *)
(* both without a transaction around them.  One organization and one of    *)
(* its namespaces; the OpenBao name of a key is "<org>_<namespace>_<name>" *)
(* and differs between two rows exactly when their names do.               *)
(*                                                                         *)
(* Each database statement, and each storage call the secrets engine makes *)
(* for an HTTP request to it, is a step.  Its cache is left to KeyEngine.  *)
(* A request whose answer does not arrive in time may have been executed:  *)
(* the service does nothing after such an error, so a late execution is    *)
(* the same as a late answer.                                              *)
(***************************************************************************)
EXTENDS Integers, FiniteSets

CONSTANTS
  Calls,      \* requests the service may be handling at a time
  Ids,        \* row ids; bound: how many rows may be inserted
  Names,      \* key names
  Keys,       \* private keys, each with its public key and address
  NoRow, NoKey,
  Limit,      \* PlanLimits.Keys: below zero for unlimited
  MaxFaults   \* bound: failed statements and requests, and crashes

ASSUME KeyServiceAssumption ==
  /\ IsFiniteSet(Calls) /\ Calls # {}
  /\ IsFiniteSet(Ids)
  /\ NoKey \notin Keys
  /\ NoRow \notin [name : Names, key : Keys, deleted : BOOLEAN]
  /\ Limit \in Int
  /\ MaxFaults \in Nat

VARIABLES
  rows,      \* the keys table
  namespace, \* the namespace exists
  bao,       \* the secrets engine's storage: the key stored under each name
  pc,        \* what each call does next
  name,      \* the OpenBao name the call is about
  held,      \* the key a create or an import has in hand
  id,        \* the row a delete is about
  faults,    \* how much of the bound has been used
  imported   \* history: keys that came from outside

callVars == <<pc, name, held, id>>
vars == <<rows, namespace, bao, callVars, faults, imported>>

Rows == [name : Names, key : Keys, deleted : BOOLEAN]
PCs == {"idle", "create", "import", "put", "insert", "cleanup", "erase", "softdelete"}

Live == {i \in Ids : rows[i] # NoRow /\ ~rows[i].deleted}

\* Calls that have passed the quota check and may still insert a row.
Admitted == {c \in Calls : pc[c] \in {"create", "import", "put", "insert"}}

TypeOK ==
  /\ rows \in [Ids -> Rows \cup {NoRow}]
  /\ namespace \in BOOLEAN
  /\ bao \in [Names -> Keys \cup {NoKey}]
  /\ pc \in [Calls -> PCs]
  /\ name \in [Calls -> Names]
  /\ held \in [Calls -> Keys \cup {NoKey}]
  /\ id \in [Calls -> Ids]
  /\ faults \in 0..MaxFaults
  /\ imported \subseteq Keys

Init ==
  /\ rows = [i \in Ids |-> NoRow]
  /\ namespace = TRUE
  /\ bao = [n \in Names |-> NoKey]
  /\ pc = [c \in Calls |-> "idle"]
  /\ name \in [Calls -> Names]
  /\ held = [c \in Calls |-> NoKey]
  /\ id \in [Calls -> Ids]
  /\ faults = 0
  /\ imported = {}

-----------------------------------------------------------------------------
Goto(c, l) == pc' = [pc EXCEPT ![c] = l]
Hold(c, k) == held' = [held EXCEPT ![c] = k]
\* The call answers, with or without an error.
Respond(c) == Goto(c, "idle") /\ Hold(c, NoKey)

Fails == faults < MaxFaults /\ faults' = faults + 1

\* A request to the secrets engine that should end in effect, and goes on to l if
\* the answer arrives; otherwise it may or may not have been executed.
Request(c, effect, same, l) ==
  \/ effect /\ Goto(c, l) /\ UNCHANGED <<held, faults>>
  \/ Fails /\ (effect \/ same) /\ Respond(c)

\* What the random generator never returns: a key somebody has already.
Taken == {bao[n] : n \in Names} \cup {held[c] : c \in Calls}
           \cup {rows[i].key : i \in {j \in Ids : rows[j] # NoRow}}

-----------------------------------------------------------------------------
(* Create and Import.  CreateBatch runs several creates at once; its own   *)
(* check of the quota only refuses more.                                   *)

\* Bound: there is a row id left for everybody who may need one.
IdLeft == Cardinality(Admitted) < Cardinality({i \in Ids : rows[i] = NoRow})

\* Mutant: the count is compared with > instead of >=.
BeginOffByOne(c, o, n) ==
  /\ pc[c] = "idle"
  /\ Limit >= 0 => Cardinality(Live) <= Limit
  /\ namespace /\ IdLeft
  /\ Goto(c, o)
  /\ name' = [name EXCEPT ![c] = n]
  /\ UNCHANGED <<rows, namespace, bao, held, id, faults, imported>>

\* checkKeyQuota lets the call through, and GetNamespace finds the namespace.
Begin(c, o, n) ==
  /\ pc[c] = "idle"
  /\ Limit >= 0 => Cardinality(Live) < Limit
  /\ namespace /\ IdLeft
  /\ Goto(c, o)
  /\ name' = [name EXCEPT ![c] = n]
  /\ UNCHANGED <<rows, namespace, bao, held, id, faults, imported>>

\* The engine looks whether the name is taken, and generates or decodes a key; or
\* it refuses: the name is taken, the material is no key.
Prepare(c) ==
  /\ pc[c] \in {"create", "import"}
  /\ \/ /\ bao[name[c]] = NoKey
        /\ \/ /\ pc[c] = "create"
              /\ \E k \in Keys \ Taken : Hold(c, k)
              /\ UNCHANGED imported
           \/ /\ pc[c] = "import"
              /\ \E k \in Keys : Hold(c, k) /\ imported' = imported \cup {k}
        /\ Goto(c, "put")
        /\ UNCHANGED faults
     \/ Respond(c) /\ UNCHANGED <<faults, imported>>
  /\ UNCHANGED <<rows, namespace, bao, name, id>>

\* The engine stores it, over whatever has been stored meanwhile.
Put(c) ==
  /\ pc[c] = "put"
  /\ Request(c, bao' = [bao EXCEPT ![name[c]] = held[c]], bao' = bao, "insert")
  /\ UNCHANGED <<rows, namespace, name, id, imported>>

\* The unique indexes over rows that are not deleted.
NameTaken(c) == \E i \in Live : rows[i].name = name[c]
AddressTaken(c) == \E i \in Live : rows[i].key = held[c]

\* Mutant: rows are unique by name alone.
ConflictByName(c) == ~namespace \/ NameTaken(c)

\* The foreign key to the namespace, and the unique indexes.
Conflict(c) == ~namespace \/ NameTaken(c) \/ AddressTaken(c)

\* Mutant: the key is not removed from OpenBao when its row cannot be inserted.
InsertNoCleanup(c) ==
  /\ pc[c] = "insert"
  /\ \/ /\ ~Conflict(c)
        /\ \E i \in Ids :
             /\ rows[i] = NoRow
             /\ rows' = [rows EXCEPT ![i] =
                           [name |-> name[c], key |-> held[c], deleted |-> FALSE]]
        /\ UNCHANGED faults
     \/ Conflict(c) /\ UNCHANGED <<rows, faults>>
     \/ Fails /\ UNCHANGED rows
  /\ Respond(c)
  /\ UNCHANGED <<namespace, bao, name, id, imported>>

\* keyRepo.Create.
Insert(c) ==
  /\ pc[c] = "insert"
  /\ \/ /\ ~Conflict(c)
        /\ \E i \in Ids :
             /\ rows[i] = NoRow
             /\ rows' = [rows EXCEPT ![i] =
                           [name |-> name[c], key |-> held[c], deleted |-> FALSE]]
        /\ Respond(c) /\ UNCHANGED faults
     \/ Conflict(c) /\ Goto(c, "cleanup") /\ UNCHANGED <<rows, held, faults>>
     \/ Fails /\ Goto(c, "cleanup") /\ UNCHANGED <<rows, held>>
  /\ UNCHANGED <<namespace, bao, name, id, imported>>

\* "Cleanup OpenBao key on failure": what is stored under the name goes, the
\* call's own key or another's.
Cleanup(c) ==
  /\ pc[c] = "cleanup"
  /\ Respond(c)
  /\ \/ bao' = [bao EXCEPT ![name[c]] = NoKey] /\ UNCHANGED faults
     \/ Fails /\ UNCHANGED bao
  /\ UNCHANGED <<rows, namespace, name, id, imported>>

-----------------------------------------------------------------------------
(* Delete.                                                                 *)

\* GetByID also returns rows that are deleted already.
BeginDelete(c, i) ==
  /\ pc[c] = "idle"
  /\ rows[i] # NoRow
  /\ Goto(c, "erase")
  /\ id' = [id EXCEPT ![c] = i]
  /\ name' = [name EXCEPT ![c] = rows[i].name]
  /\ UNCHANGED <<rows, namespace, bao, held, faults, imported>>

\* Mutant: an error of OpenBao does not end the deletion.
EraseLenient(c) ==
  /\ pc[c] = "erase"
  /\ \/ bao' = [bao EXCEPT ![name[c]] = NoKey] /\ UNCHANGED faults
     \/ Fails /\ UNCHANGED bao
  /\ Goto(c, "softdelete")
  /\ UNCHANGED <<rows, namespace, name, held, id, imported>>

\* baoKeyring.Delete, which also succeeds when there is no such key.
Erase(c) ==
  /\ pc[c] = "erase"
  /\ Request(c, bao' = [bao EXCEPT ![name[c]] = NoKey], bao' = bao, "softdelete")
  /\ UNCHANGED <<rows, namespace, name, id, imported>>

Deleted(row) == [name |-> row.name, key |-> row.key, deleted |-> TRUE]

\* UPDATE ... WHERE deleted_at IS NULL: an error if there is no such row.
SoftDelete(c) ==
  /\ pc[c] = "softdelete"
  /\ Respond(c)
  /\ \/ rows[id[c]] # NoRow /\ UNCHANGED faults
        /\ rows' = [rows EXCEPT ![id[c]] = Deleted(@)]
     \/ rows[id[c]] = NoRow /\ UNCHANGED <<rows, faults>>
     \/ Fails /\ UNCHANGED rows
  /\ UNCHANGED <<namespace, bao, name, id, imported>>

-----------------------------------------------------------------------------
\* The namespace, or the organization, is deleted, and its rows with it (ON DELETE
\* CASCADE); nobody tells OpenBao.
DeleteNamespace ==
  /\ namespace
  /\ namespace' = FALSE
  /\ rows' = [i \in Ids |-> NoRow]
  /\ UNCHANGED <<bao, callVars, faults, imported>>

\* The service dies between two steps of whatever it is doing.
Crash ==
  /\ Fails
  /\ pc' = [c \in Calls |-> "idle"]
  /\ held' = [c \in Calls |-> NoKey]
  /\ UNCHANGED <<rows, namespace, bao, name, id, imported>>

Handle(c) ==
  \/ Prepare(c) \/ Put(c) \/ Insert(c) \/ Cleanup(c) \/ Erase(c) \/ SoftDelete(c)

Next ==
  \/ \E c \in Calls : \/ \E o \in {"create", "import"}, n \in Names : Begin(c, o, n)
                      \/ \E i \in Ids : BeginDelete(c, i)
                      \/ Handle(c)
  \/ DeleteNamespace \/ Crash

Spec == Init /\ [][Next]_vars

-----------------------------------------------------------------------------
(* Properties.                                                             *)

\* The key of a deleted row is gone from OpenBao for good: no interleaving of
\* creates, clean-ups, deletions, failures and crashes leaves or brings it back.
\* A key that came from outside may be imported again.
DeletedKeyIsGone ==
  \A i \in Ids : rows[i] # NoRow /\ rows[i].deleted /\ rows[i].key \notin imported
    => \A n \in Names : bao[n] # rows[i].key

Quiet == \A c \in Calls : pc[c] = "idle"

\* Unless something failed or the namespace was deleted, OpenBao ends up with no
\* key the database does not know: such a key could be neither listed nor deleted,
\* and its name not reused.
NoOrphanKey ==
  faults = 0 /\ Quiet /\ namespace =>
    \A n \in Names : bao[n] # NoKey =>
      \E i \in Live : rows[i].name = n /\ rows[i].key = bao[n]

\* The quota is checked long before the row is inserted; the plan's limit is
\* overrun by less than the number of requests handled at a time.
OverrunIsBounded == Limit >= 0 => Cardinality(Live) < Limit + Cardinality(Calls)

Books == INSTANCE Ledger WITH open <- namespace, vault <- bao, known <- imported

\* Table and storage together are what Ledger says, though no transaction holds
\* them together: a generated key is stored under one name before it has its only
\* row, and is gone from every name before that row is marked deleted; live rows
\* differ in name and in key; what is entered, is entered while the namespace exists.
KeepsALedger == Books!Spec

(* What the repository says of itself and the code does not do.            *)

\* "This allows reusing key names after deletion": when nothing failed and
\* nothing is going on, every key that is not deleted has its private key, so a
\* name that has been used before is as good as a new one.
LiveKeyIsStored ==
  faults = 0 /\ Quiet => \A i \in Live : bao[rows[i].name] = rows[i].key
=============================================================================
