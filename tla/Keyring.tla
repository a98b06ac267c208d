-------------------------------- MODULE Keyring --------------------------------
(***************************************************************************)
(* The keyring library: one process in which several goroutines use a      *)
(* BaoKeyring, its metadata store (a map, a lock and a file), OpenBao,     *)
(* which holds the private keys, and the local keyring that the migration  *)
(* package moves keys from and to.                                         *)
(*                                                                         *)
(* Steps: each request to OpenBao, or the engine's check and its storage   *)
(* write where they are apart; each part of a store operation before the   *)
(* file, the writing of the temporary file, and its renaming.  A request   *)
(* whose answer is lost may have been executed; a keyring that was told    *)
(* of an error does nothing with its late effects, so a request that is    *)
(* executed late is one that is answered late.                             *)
(***************************************************************************)
EXTENDS Integers, FiniteSets

CONSTANTS
  Calls,      \* calls of the keyring under way at a time
  Uids,       \* names of keys
  Keys,       \* private keys, each with its public key and address
  Exportable, \* those created or imported with the exportable option
  NoKey, NoCall, NoFile,
  MaxFaults   \* bound: failed requests and writes, and crashes

ASSUME KeyringAssumption ==
  /\ Exportable \subseteq Keys
  /\ NoKey \notin Keys
  /\ NoCall \notin Calls
  /\ NoFile \notin [Uids -> Keys \cup {NoKey}]
  /\ MaxFaults \in Nat

VARIABLES
  mem,       \* BaoStore.data.Keys: the key each uid stands for
  dirty,     \* BaoStore.dirty
  file,      \* the store's file
  tmp,       \* its temporary file
  lock,      \* the call that holds BaoStore.mu for writing
  bao,       \* the engine's storage: the key under each uid
  local,     \* the keys of the local keyring
  pc,        \* what each call does next
  op,        \* the operation it is part of
  uid,       \* the uid it is about
  held,      \* the key it has in hand: created, imported or exported
  faults,    \* how much of the bound has been used
  disturbed  \* history: uids that two calls changed at once, that were
             \* renamed, that a fault hit half-way, or whose exported copy
             \* was moved on before the export ended

storeVars == <<mem, dirty, file, tmp, lock>>
callVars == <<pc, op, uid, held>>
vars == <<storeVars, bao, local, callVars, faults, disturbed>>

Table == [Uids -> Keys \cup {NoKey}]
PCs == {"idle", "check", "put", "save", "write", "swap", "cleanup", "erase",
        "forget", "verify", "drop", "read", "store"}
Ops == {"create", "import", "delete", "rename", "export", "sync"}

TypeOK ==
  /\ mem \in Table /\ file \in Table /\ bao \in Table
  /\ tmp \in Table \cup {NoFile}
  /\ dirty \in BOOLEAN
  /\ lock \in Calls \cup {NoCall}
  /\ local \subseteq Keys
  /\ pc \in [Calls -> PCs]
  /\ op \in [Calls -> Ops]
  /\ uid \in [Calls -> Uids]
  /\ held \in [Calls -> Keys \cup {NoKey}]
  /\ faults \in 0..MaxFaults
  /\ disturbed \subseteq Uids

\* A first start: no file, nothing in OpenBao; any keys in the local keyring.
Init ==
  /\ mem = [u \in Uids |-> NoKey]
  /\ file = mem /\ bao = mem
  /\ tmp = NoFile
  /\ dirty = FALSE
  /\ lock = NoCall
  /\ local \in SUBSET Keys
  /\ pc = [c \in Calls |-> "idle"]
  /\ op \in [Calls -> {"sync"}]
  /\ uid \in [Calls -> Uids]
  /\ held = [c \in Calls |-> NoKey]
  /\ faults = 0
  /\ disturbed = {}

-----------------------------------------------------------------------------
(* Helpers. *)

Goto(c, l) == pc' = [pc EXCEPT ![c] = l]

\* The calls that work on u.
Users(u) == {c \in Calls : pc[c] # "idle" /\ op[c] # "sync" /\ uid[c] = u}

\* Calls that have begun to change something and have not ended.
HalfWay == {c \in Calls : pc[c] \in {"put", "save", "write", "swap", "cleanup", "erase", "forget"}}

Begin(c, o, u, k, l) ==
  /\ pc[c] = "idle"
  /\ Goto(c, l)
  /\ op' = [op EXCEPT ![c] = o]
  /\ uid' = [uid EXCEPT ![c] = u]
  /\ held' = [held EXCEPT ![c] = k]
  /\ disturbed' = disturbed \cup (IF Users(u) = {} THEN {} ELSE {u})
  /\ UNCHANGED <<storeVars, bao, local, faults>>

\* An error the caller is told of that leaves c's uid half-way.
Fault(c, l) ==
  /\ faults < MaxFaults
  /\ faults' = faults + 1
  /\ disturbed' = disturbed \cup (IF op[c] = "sync" THEN {} ELSE {uid[c]})
  /\ Goto(c, l)
  /\ UNCHANGED <<op, uid, held>>

\* RLock: readers wait for a writer.
Readable == lock = NoCall

\* The store's locked section up to the file: c takes the lock and changes mem.
Mutate(c, m) ==
  /\ lock = NoCall /\ lock' = c
  /\ mem' = m
  /\ dirty' = TRUE
  /\ Goto(c, "write")
  /\ UNCHANGED <<file, tmp>>
-----------------------------------------------------------------------------
(* Creating and importing: BaoKeyring.NewAccount, NewAccountWithOptions,   *)
(* CreateBatch (each key a call of its own), ImportKey.                    *)

\* Has(uid), and the key that will come into being: keys are never reused.
Create(c, u, k) ==
  /\ Readable /\ mem[u] = NoKey
  /\ k \notin local
  /\ \A v \in Uids : k \notin {mem[v], file[v], bao[v]}
  /\ \A d \in Calls : pc[d] # "idle" => held[d] # k
  /\ Begin(c, "create", u, k, "check")

\* migration.Import: the key is read from the local keyring.
Import(c, u, k) ==
  /\ Readable /\ mem[u] = NoKey
  /\ k \in local
  /\ Begin(c, "import", u, k, "check")

\* The engine refuses a name it has.
Check(c) ==
  /\ pc[c] = "check"
  /\ Goto(c, IF bao[uid[c]] = NoKey THEN "put" ELSE "idle")
  /\ UNCHANGED <<storeVars, bao, local, op, uid, held, faults, disturbed>>

Put(c) ==
  /\ pc[c] = "put"
  /\ bao' = [bao EXCEPT ![uid[c]] = held[c]]
  /\ Goto(c, "save")
  /\ UNCHANGED <<storeVars, local, op, uid, held, faults, disturbed>>

\* The engine stored the key and the keyring is told of an error.
LosePut(c) ==
  /\ pc[c] = "put"
  /\ bao' = [bao EXCEPT ![uid[c]] = held[c]]
  /\ Fault(c, "idle")
  /\ UNCHANGED <<storeVars, local>>

\* BaoStore.Save: an entry of another address is not replaced.
Save(c) ==
  /\ pc[c] = "save"
  /\ \/ /\ mem[uid[c]] \in {NoKey, held[c]}
        /\ Mutate(c, [mem EXCEPT ![uid[c]] = held[c]])
     \/ /\ Readable /\ mem[uid[c]] \notin {NoKey, held[c]}
        /\ Goto(c, "cleanup")
        /\ UNCHANGED storeVars
  /\ UNCHANGED <<bao, local, op, uid, held, faults, disturbed>>

\* The key of a create that could not be saved is deleted again.
Cleanup(c) ==
  /\ pc[c] = "cleanup"
  /\ bao' = [bao EXCEPT ![uid[c]] = NoKey]
  /\ Goto(c, "idle")
  /\ UNCHANGED <<storeVars, local, op, uid, held, faults, disturbed>>

LoseCleanup(c) ==
  /\ pc[c] = "cleanup"
  /\ Fault(c, "idle")
  /\ UNCHANGED <<storeVars, bao, local>>
-----------------------------------------------------------------------------
(* The store's file: BaoStore.syncLocked. *)

Write(c) ==
  /\ pc[c] = "write"
  /\ tmp' = mem
  /\ Goto(c, "swap")
  /\ UNCHANGED <<mem, dirty, file, lock, bao, local, op, uid, held, faults, disturbed>>

\* What a call does after its store operation succeeded; an import may have
\* been asked to verify the key, to delete the local one, both or neither.
AfterStore(c) == IF op[c] = "import" THEN {"idle", "verify", "drop"} ELSE {"idle"}

Swap(c) ==
  /\ pc[c] = "swap"
  /\ file' = tmp /\ tmp' = NoFile
  /\ dirty' = FALSE
  /\ lock' = NoCall
  /\ \E l \in AfterStore(c) : Goto(c, l)
  /\ UNCHANGED <<mem, bao, local, op, uid, held, faults, disturbed>>

\* Mutant: dirty is reset before the file is written.
FailSyncClean(c) ==
  /\ pc[c] \in {"write", "swap"}
  /\ tmp' = NoFile
  /\ lock' = NoCall
  /\ dirty' = FALSE
  /\ Fault(c, IF op[c] \in {"create", "import"} THEN "cleanup" ELSE "idle")
  /\ UNCHANGED <<mem, file, bao, local>>

\* An error anywhere in syncLocked: the temporary file is removed, the map
\* stays as it was changed, and dirty stays set.
FailSync(c) ==
  /\ pc[c] \in {"write", "swap"}
  /\ tmp' = NoFile
  /\ lock' = NoCall
  /\ Fault(c, IF op[c] \in {"create", "import"} THEN "cleanup" ELSE "idle")
  /\ UNCHANGED <<mem, dirty, file, bao, local>>

\* BaoStore.Sync and Close.
Sync(c) ==
  /\ pc[c] = "idle"
  /\ dirty /\ lock = NoCall
  /\ lock' = c
  /\ Goto(c, "write")
  /\ op' = [op EXCEPT ![c] = "sync"]
  /\ UNCHANGED <<mem, dirty, file, tmp, bao, local, uid, held, faults, disturbed>>
-----------------------------------------------------------------------------
(* Deleting and renaming. *)

\* BaoKeyring.Delete asks OpenBao first, whatever the store knows.
Delete(c, u) == Begin(c, "delete", u, NoKey, "erase")

\* Mutant: Delete returns when OpenBao has deleted the key.
EraseOnly(c) ==
  /\ pc[c] = "erase"
  /\ bao' = [bao EXCEPT ![uid[c]] = NoKey]
  /\ Goto(c, "idle")
  /\ UNCHANGED <<storeVars, local, op, uid, held, faults, disturbed>>

Erase(c) ==
  /\ pc[c] = "erase"
  /\ bao' = [bao EXCEPT ![uid[c]] = NoKey]
  /\ Goto(c, "forget")
  /\ UNCHANGED <<storeVars, local, op, uid, held, faults, disturbed>>

\* The request failed, before or after the engine deleted the key.
LoseErase(c) ==
  /\ pc[c] = "erase"
  /\ bao' \in {bao, [bao EXCEPT ![uid[c]] = NoKey]}
  /\ Fault(c, "idle")
  /\ UNCHANGED <<storeVars, local>>

\* BaoStore.Delete.
Forget(c) ==
  /\ pc[c] = "forget"
  /\ \/ /\ mem[uid[c]] # NoKey
        /\ Mutate(c, [mem EXCEPT ![uid[c]] = NoKey])
     \/ /\ Readable /\ mem[uid[c]] = NoKey
        /\ Goto(c, "idle")
        /\ UNCHANGED storeVars
  /\ UNCHANGED <<bao, local, op, uid, held, faults, disturbed>>

\* BaoKeyring.Rename: the store alone; OpenBao keeps the key under u.
Rename(c, u, v) ==
  /\ pc[c] = "idle" /\ u # v
  /\ mem[u] # NoKey /\ mem[v] = NoKey
  /\ Mutate(c, [mem EXCEPT ![v] = mem[u], ![u] = NoKey])
  /\ op' = [op EXCEPT ![c] = "rename"]
  /\ uid' = [uid EXCEPT ![c] = v]
  /\ held' = [held EXCEPT ![c] = mem[u]]
  /\ disturbed' = disturbed \cup {u, v}
  /\ UNCHANGED <<bao, local, faults>>
-----------------------------------------------------------------------------
(* The rest of the migrations.  Signing changes nothing and is not modelled *)
(* but for the test signature of an import.                                *)

\* verifyImportedKey: a signature by any key under the uid will do.
Verify(c) ==
  /\ pc[c] = "verify"
  /\ Readable
  /\ IF mem[uid[c]] # NoKey /\ bao[uid[c]] # NoKey
     THEN \E l \in {"idle", "drop"} : Goto(c, l)
     ELSE Goto(c, "idle")
  /\ UNCHANGED <<storeVars, bao, local, op, uid, held, faults, disturbed>>

\* Import deletes the local key and ignores an error; an export that counts on
\* that copy is disturbed.
Drop(c) ==
  /\ pc[c] = "drop"
  /\ \/ UNCHANGED <<local, disturbed>>
     \/ /\ local' = local \ {held[c]}
        /\ disturbed' = disturbed \cup
             {uid[d] : d \in {d \in Calls : /\ pc[d] = "erase" /\ op[d] = "export"
                                           /\ held[d] = held[c]}}
  /\ Goto(c, "idle")
  /\ UNCHANGED <<storeVars, bao, op, uid, held, faults>>

\* migration.Export: the metadata says whether the key may leave.
Export(c, u) ==
  /\ Readable /\ mem[u] \in Exportable
  /\ Begin(c, "export", u, NoKey, "read")

\* Mutant: the engine exports an entry it has not found, or not looked at.
ReadUnchecked(c) ==
  /\ pc[c] = "read"
  /\ Goto(c, "store")
  /\ held' = [held EXCEPT ![c] = bao[uid[c]]]
  /\ UNCHANGED <<storeVars, bao, local, op, uid, faults, disturbed>>

\* The engine looks at its own entry.
Read(c) ==
  /\ pc[c] = "read"
  /\ IF bao[uid[c]] \in Exportable
     THEN Goto(c, "store") /\ held' = [held EXCEPT ![c] = bao[uid[c]]]
     ELSE Goto(c, "idle") /\ UNCHANGED held
  /\ UNCHANGED <<storeVars, bao, local, op, uid, faults, disturbed>>

\* Mutant: an export goes on although the local keyring refused the key.
StoreUnchecked(c) ==
  /\ pc[c] = "store"
  /\ \E kept \in {local, local \cup {held[c]}} : local' = kept
  /\ \E l \in {"idle", "erase"} : Goto(c, l)
  /\ UNCHANGED <<storeVars, bao, op, uid, held, faults, disturbed>>

\* ImportPrivKey may refuse the key; after it Export verifies and deletes from
\* OpenBao, or not.
Store(c) ==
  /\ pc[c] = "store"
  /\ \/ Goto(c, "idle") /\ UNCHANGED local
     \/ /\ local' = local \cup {held[c]}
        /\ \E l \in {"idle", "erase"} : Goto(c, l)
  /\ UNCHANGED <<storeVars, bao, op, uid, held, faults, disturbed>>
-----------------------------------------------------------------------------
\* The process ends and starts again; what OpenBao had begun is finished or not.
Crash ==
  /\ faults < MaxFaults
  /\ faults' = faults + 1
  /\ mem' = file
  /\ dirty' = FALSE
  /\ lock' = NoCall
  /\ pc' = [c \in Calls |-> "idle"]
  /\ disturbed' = disturbed \cup
       {u \in Uids : Users(u) \cap HalfWay # {}}
  /\ UNCHANGED <<file, tmp, bao, local, op, uid, held>>

Step(c) ==
  \/ \E u \in Uids, k \in Keys : Create(c, u, k) \/ Import(c, u, k)
  \/ \E u \in Uids : Delete(c, u) \/ Export(c, u)
  \/ \E u, v \in Uids : Rename(c, u, v)
  \/ Sync(c)
  \/ Check(c) \/ Put(c) \/ LosePut(c) \/ Save(c) \/ Cleanup(c) \/ LoseCleanup(c)
  \/ Write(c) \/ Swap(c) \/ FailSync(c)
  \/ Erase(c) \/ LoseErase(c) \/ Forget(c)
  \/ Verify(c) \/ Drop(c) \/ Read(c) \/ Store(c)

Next == Crash \/ \E c \in Calls : Step(c)

Spec == Init /\ [][Next]_vars

-----------------------------------------------------------------------------
(* Properties. *)

\* A uid that no call is working on, that was never renamed, never changed by
\* two calls at once and never cut short by a fault stands for the same key in
\* memory, in the file and in OpenBao - or for none in all three.  Failed
\* writes of other uids' entries, and crashes, do not change that.
Settled ==
  \A u \in Uids \ disturbed :
    Users(u) = {} => mem[u] = file[u] /\ mem[u] = bao[u]

\* The store is the persistent map it is meant to be: the file only ever takes
\* the whole map of the moment, whatever fails, and an operation is
\* acknowledged (dirty is reset) only when the file has it.
Promise == INSTANCE DurableMap WITH
  Values <- Keys \cup {NoKey}, map <- mem, saved <- file, clean <- ~dirty
StoreIsDurable == Promise!Spec

\* Where a private key still exists.
Kept(k) == k \in local \/ \E u \in Uids : bao[u] = k

\* A step after which a key is kept nowhere is one of a deletion, or is about a
\* disturbed uid.
Loses ==
  \A k \in Keys : Kept(k) /\ ~Kept(k)' =>
    \E c \in Calls : /\ pc'[c] # pc[c]
                    /\ (op[c] = "delete" \/ uid[c] \in disturbed')

\* The last copy of a private key goes only in a deletion that was asked for:
\* no migration, refused creation, cleanup or crash destroys one, unless its
\* uid had been disturbed before.
OnlyDeletionLoses == [][Loses]_vars
=============================================================================
