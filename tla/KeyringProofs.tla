------------------------------ MODULE KeyringProofs ------------------------------
(***************************************************************************)
(* Proofs about Keyring, for any number of calls, uids, keys and faults.   *)
(***************************************************************************)
EXTENDS Keyring, TLAPS

-----------------------------------------------------------------------------
(* Type correctness.                                                       *)

\* Only the call that holds the lock is at the file, and the map does not change
\* under it: the temporary file is the map.
LockInv ==
  \A c \in Calls :
    /\ pc[c] \in {"write", "swap"} => lock = c
    /\ pc[c] = "swap" => tmp = mem

\* What a call is at belongs to its operation, and it has a key where it needs one.
OpInv ==
  \A c \in Calls :
    /\ pc[c] \in {"check", "put", "save", "cleanup"} => op[c] \in {"create", "import"}
    /\ pc[c] \in {"verify", "drop"} => op[c] = "import"
    /\ pc[c] \in {"erase", "forget"} => op[c] \in {"delete", "export"}
    /\ pc[c] \in {"read", "store"} => op[c] = "export"
    /\ op[c] \in {"create", "import"} => held[c] \in Keys
    /\ pc[c] = "store" => held[c] \in Keys

TypeInv == TypeOK /\ LockInv /\ OpInv

\* Every variable keeps its type.
LEMMA StepType == TypeInv /\ [Next]_vars => TypeInv'
<1>. SUFFICES ASSUME TypeInv, [Next]_vars PROVE TypeInv'
  OBVIOUS
<1>. USE DEF TypeInv, TypeOK, LockInv, OpInv, Table, PCs, Ops
<1>1. ASSUME NEW c \in Calls, NEW u \in Uids, NEW k \in Keys, Create(c, u, k) PROVE TypeInv'
  BY <1>1, KeyringAssumption DEF Create, Begin, Goto, storeVars
<1>2. ASSUME NEW c \in Calls, NEW u \in Uids, NEW k \in Keys, Import(c, u, k) PROVE TypeInv'
  BY <1>2, KeyringAssumption DEF Import, Begin, Goto, storeVars
<1>3. ASSUME NEW c \in Calls, NEW u \in Uids, Delete(c, u) PROVE TypeInv'
  BY <1>3, KeyringAssumption DEF Delete, Begin, Goto, storeVars
<1>4. ASSUME NEW c \in Calls, NEW u \in Uids, Export(c, u) PROVE TypeInv'
  BY <1>4, KeyringAssumption DEF Export, Begin, Goto, storeVars
<1>5. ASSUME NEW c \in Calls, NEW u \in Uids, NEW v \in Uids, Rename(c, u, v) PROVE TypeInv'
  BY <1>5, KeyringAssumption DEF Rename, Mutate, Goto
<1>6. ASSUME NEW c \in Calls, Sync(c) PROVE TypeInv'
  BY <1>6, KeyringAssumption DEF Sync, Goto
<1>7. ASSUME NEW c \in Calls, Check(c) PROVE TypeInv'
  BY <1>7, KeyringAssumption DEF Check, Goto, storeVars
<1>8. ASSUME NEW c \in Calls, Put(c) PROVE TypeInv'
  BY <1>8, KeyringAssumption DEF Put, Goto, storeVars
<1>9. ASSUME NEW c \in Calls, LosePut(c) PROVE TypeInv'
  BY <1>9, KeyringAssumption DEF LosePut, Fault, Goto, storeVars
<1>10. ASSUME NEW c \in Calls, Save(c) PROVE TypeInv'
  <2>1. CASE Mutate(c, [mem EXCEPT ![uid[c]] = held[c]])
    <3>1. mem' \in Table
      BY <2>1 DEF Mutate
    <3>. QED  BY <1>10, <2>1, <3>1, KeyringAssumption DEF Save, Mutate, Goto
  <2>2. CASE Goto(c, "cleanup") /\ UNCHANGED storeVars
    BY <1>10, <2>2, KeyringAssumption DEF Save, Goto, storeVars
  <2>. QED  BY <1>10, <2>1, <2>2 DEF Save
<1>11. ASSUME NEW c \in Calls, Cleanup(c) PROVE TypeInv'
  BY <1>11, KeyringAssumption DEF Cleanup, Goto, storeVars
<1>12. ASSUME NEW c \in Calls, LoseCleanup(c) PROVE TypeInv'
  BY <1>12, KeyringAssumption DEF LoseCleanup, Fault, Goto, storeVars
<1>13. ASSUME NEW c \in Calls, Write(c) PROVE TypeInv'
  BY <1>13, KeyringAssumption DEF Write, Goto
<1>14. ASSUME NEW c \in Calls, Swap(c) PROVE TypeInv'
  <2>1. file' = mem /\ tmp' = NoFile /\ dirty' = FALSE /\ lock' = NoCall
    BY <1>14 DEF Swap
  <2>2. PICK l \in {"idle", "verify", "drop"} : pc' = [pc EXCEPT ![c] = l] /\ (l # "idle" => op[c] = "import")
    BY <1>14 DEF Swap, AfterStore, Goto
  <2>3. UNCHANGED <<mem, bao, local, op, uid, held, faults, disturbed>>
    BY <1>14 DEF Swap
  <2>4. \A d \in Calls : d # c => pc[d] \notin {"write", "swap"}
    BY <1>14 DEF Swap
  <2>. QED  BY <2>1, <2>2, <2>3, <2>4, KeyringAssumption
<1>15. ASSUME NEW c \in Calls, FailSync(c) PROVE TypeInv'
  BY <1>15, KeyringAssumption DEF FailSync, Fault, Goto
<1>16. ASSUME NEW c \in Calls, Erase(c) PROVE TypeInv'
  BY <1>16, KeyringAssumption DEF Erase, Goto, storeVars
<1>17. ASSUME NEW c \in Calls, LoseErase(c) PROVE TypeInv'
  BY <1>17, KeyringAssumption DEF LoseErase, Fault, Goto, storeVars
<1>18. ASSUME NEW c \in Calls, Forget(c) PROVE TypeInv'
  <2>1. CASE Mutate(c, [mem EXCEPT ![uid[c]] = NoKey])
    <3>1. mem' \in Table
      BY <2>1 DEF Mutate
    <3>. QED  BY <1>18, <2>1, <3>1, KeyringAssumption DEF Forget, Mutate, Goto
  <2>2. CASE Goto(c, "idle") /\ UNCHANGED storeVars
    BY <1>18, <2>2, KeyringAssumption DEF Forget, Goto, storeVars
  <2>. QED  BY <1>18, <2>1, <2>2 DEF Forget
<1>19. ASSUME NEW c \in Calls, Verify(c) PROVE TypeInv'
  BY <1>19, KeyringAssumption DEF Verify, Goto, storeVars
<1>20. ASSUME NEW c \in Calls, Drop(c) PROVE TypeInv'
  BY <1>20, KeyringAssumption DEF Drop, Goto, storeVars
<1>21. ASSUME NEW c \in Calls, Read(c) PROVE TypeInv'
  BY <1>21, KeyringAssumption DEF Read, Goto, storeVars
<1>22. ASSUME NEW c \in Calls, Store(c) PROVE TypeInv'
  BY <1>22, KeyringAssumption DEF Store, Goto, storeVars
<1>23. CASE Crash
  <2>1. /\ mem' = file /\ dirty' = FALSE /\ lock' = NoCall /\ faults' \in 0..MaxFaults
        /\ \A c \in Calls : pc'[c] = "idle"
        /\ pc' \in [Calls -> PCs]
    BY <1>23, KeyringAssumption DEF Crash
  <2>2. disturbed' \subseteq Uids
    BY <1>23 DEF Crash
  <2>3. UNCHANGED <<file, tmp, bao, local, op, uid, held>>
    BY <1>23 DEF Crash
  <2>. QED  BY <2>1, <2>2, <2>3, KeyringAssumption
<1>24. CASE UNCHANGED vars
  BY <1>24 DEF vars, storeVars, callVars
<1>. QED  BY <1>1, <1>2, <1>3, <1>4, <1>5, <1>6, <1>7, <1>8, <1>9, <1>10, <1>11, <1>12,
          <1>13, <1>14, <1>15, <1>16, <1>17, <1>18, <1>19, <1>20, <1>21, <1>22, <1>23,
          <1>24 DEF Next, Step

\* It holds in every state.
LEMMA TypeInvariant == Spec => []TypeInv
<1>1. Init => TypeInv
  <2>. SUFFICES ASSUME Init PROVE TypeInv
    OBVIOUS
  <2>1. mem \in Table /\ file \in Table /\ bao \in Table
    BY DEF Init, Table
  <2>2. pc \in [Calls -> PCs] /\ op \in [Calls -> Ops] /\ \A c \in Calls : pc[c] = "idle" /\ op[c] = "sync"
    BY DEF Init, PCs, Ops
  <2>3. uid \in [Calls -> Uids] /\ held \in [Calls -> Keys \cup {NoKey}] /\ local \subseteq Keys
    BY DEF Init
  <2>4. LockInv /\ OpInv
    BY <2>2 DEF LockInv, OpInv
  <2>5. tmp = NoFile /\ dirty = FALSE /\ lock = NoCall /\ faults = 0 /\ disturbed = {}
    BY DEF Init
  <2>6. 0 \in 0..MaxFaults
    BY KeyringAssumption
  <2>. QED  BY <2>1, <2>2, <2>3, <2>4, <2>5, <2>6 DEF TypeInv, TypeOK
<1>2. TypeInv /\ [Next]_vars => TypeInv'
  BY StepType
<1>. QED  BY <1>1, <1>2, PTL DEF Spec

\* Every variable keeps its type, whatever the constants.
THEOREM TypeCorrect == Spec => []TypeOK
<1>1. TypeInv => TypeOK
  BY DEF TypeInv
<1>. QED  BY <1>1, TypeInvariant, PTL

-----------------------------------------------------------------------------
(* The metadata store implements DurableMap.                               *)

\* Every step of the keyring is a step of the durable map, or none.
PromiseStep == [Promise!Next]_(Promise!vars)

\* Every step of the keyring is a step of the durable map, or none.
LEMMA StoreStep == TypeInv /\ [Next]_vars => PromiseStep
<1>. SUFFICES ASSUME TypeInv, [Next]_vars PROVE PromiseStep
  OBVIOUS
<1>. USE DEF TypeInv, TypeOK, LockInv, Table, PromiseStep, Promise!Next, Promise!vars, Promise!Change, Promise!Persist, Promise!Restart
<1>1. ASSUME NEW c \in Calls, NEW u \in Uids, NEW k \in Keys, Create(c, u, k) PROVE PromiseStep
  BY <1>1 DEF Create, Begin, Goto, storeVars
<1>2. ASSUME NEW c \in Calls, NEW u \in Uids, NEW k \in Keys, Import(c, u, k) PROVE PromiseStep
  BY <1>2 DEF Import, Begin, Goto, storeVars
<1>3. ASSUME NEW c \in Calls, NEW u \in Uids, Delete(c, u) PROVE PromiseStep
  BY <1>3 DEF Delete, Begin, Goto, storeVars
<1>4. ASSUME NEW c \in Calls, NEW u \in Uids, Export(c, u) PROVE PromiseStep
  BY <1>4 DEF Export, Begin, Goto, storeVars
<1>5. ASSUME NEW c \in Calls, NEW u \in Uids, NEW v \in Uids, Rename(c, u, v) PROVE PromiseStep
  BY <1>5 DEF Rename, Mutate, Goto
<1>6. ASSUME NEW c \in Calls, Sync(c) PROVE PromiseStep
  BY <1>6 DEF Sync, Goto
<1>7. ASSUME NEW c \in Calls, Check(c) PROVE PromiseStep
  BY <1>7 DEF Check, Goto, storeVars
<1>8. ASSUME NEW c \in Calls, Put(c) PROVE PromiseStep
  BY <1>8 DEF Put, Goto, storeVars
<1>9. ASSUME NEW c \in Calls, LosePut(c) PROVE PromiseStep
  BY <1>9 DEF LosePut, Fault, Goto, storeVars
<1>10. ASSUME NEW c \in Calls, Save(c) PROVE PromiseStep
  BY <1>10 DEF Save, Mutate, Goto, storeVars
<1>11. ASSUME NEW c \in Calls, Cleanup(c) PROVE PromiseStep
  BY <1>11 DEF Cleanup, Goto, storeVars
<1>12. ASSUME NEW c \in Calls, LoseCleanup(c) PROVE PromiseStep
  BY <1>12 DEF LoseCleanup, Fault, Goto, storeVars
<1>13. ASSUME NEW c \in Calls, Write(c) PROVE PromiseStep
  BY <1>13 DEF Write, Goto
<1>14. ASSUME NEW c \in Calls, Swap(c) PROVE PromiseStep
  BY <1>14 DEF Swap, AfterStore, Goto
<1>15. ASSUME NEW c \in Calls, FailSync(c) PROVE PromiseStep
  BY <1>15 DEF FailSync, Fault, Goto
<1>16. ASSUME NEW c \in Calls, Erase(c) PROVE PromiseStep
  BY <1>16 DEF Erase, Goto, storeVars
<1>17. ASSUME NEW c \in Calls, LoseErase(c) PROVE PromiseStep
  BY <1>17 DEF LoseErase, Fault, Goto, storeVars
<1>18. ASSUME NEW c \in Calls, Forget(c) PROVE PromiseStep
  BY <1>18 DEF Forget, Mutate, Goto, storeVars
<1>19. ASSUME NEW c \in Calls, Verify(c) PROVE PromiseStep
  BY <1>19 DEF Verify, Goto, storeVars
<1>20. ASSUME NEW c \in Calls, Drop(c) PROVE PromiseStep
  BY <1>20 DEF Drop, Goto, storeVars
<1>21. ASSUME NEW c \in Calls, Read(c) PROVE PromiseStep
  BY <1>21 DEF Read, Goto, storeVars
<1>22. ASSUME NEW c \in Calls, Store(c) PROVE PromiseStep
  BY <1>22 DEF Store, Goto, storeVars
<1>23. CASE Crash
  BY <1>23 DEF Crash
<1>24. CASE UNCHANGED vars
  BY <1>24 DEF vars, storeVars, callVars
<1>. QED  BY <1>1, <1>2, <1>3, <1>4, <1>5, <1>6, <1>7, <1>8, <1>9, <1>10, <1>11, <1>12,
          <1>13, <1>14, <1>15, <1>16, <1>17, <1>18, <1>19, <1>20, <1>21, <1>22, <1>23,
          <1>24 DEF Next, Step

\* The metadata store is the durable map it is meant to be.
THEOREM StoreImplementsDurableMap == Spec => StoreIsDurable
<1>1. Init => Promise!Init
  BY DEF Init, Promise!Init
<1>2. TypeInv /\ [Next]_vars => [Promise!Next]_(Promise!vars)
  BY StoreStep DEF PromiseStep
<1>. QED  BY <1>1, <1>2, TypeInvariant, PTL DEF Spec, StoreIsDurable, Promise!Spec

-----------------------------------------------------------------------------
(* Memory, file and OpenBao.                                               *)

Same(u) == mem[u] = file[u] /\ mem[u] = bao[u]

\* How far the only call that works on an undisturbed uid has brought it.
Progress(c) ==
  LET u == uid[c] IN
  /\ pc[c] \in {"check", "put"} => Same(u) /\ mem[u] = NoKey
  /\ pc[c] = "save" => mem[u] = NoKey /\ file[u] = NoKey /\ bao[u] = held[c]
  /\ pc[c] = "forget" => mem[u] = file[u] /\ bao[u] = NoKey
  /\ pc[c] \in {"write", "swap"} => mem[u] = bao[u]
  /\ pc[c] \in {"write", "swap", "verify", "drop"} /\ op[c] = "import" => mem[u] = held[c]
  /\ pc[c] \in {"verify", "drop", "erase", "read", "store"} => Same(u)
  /\ pc[c] \in {"store", "erase"} /\ op[c] = "export" => bao[u] = held[c]
  /\ pc[c] = "erase" /\ op[c] = "export" => held[c] \in local
  /\ pc[c] # "cleanup"

Working(c) == pc[c] # "idle" /\ op[c] # "sync"

\* An undisturbed uid is the same everywhere, but for what the one call that
\* works on it has done.
SettledInv ==
  /\ \A u \in Uids \ disturbed : (\A c \in Calls : ~(Working(c) /\ uid[c] = u)) => Same(u)
  /\ \A c \in Calls : Working(c) /\ uid[c] \notin disturbed =>
       /\ Progress(c)
       /\ \A d \in Calls : Working(d) /\ uid[d] = uid[c] => d = c

\* No step of another call, and no fault, makes a difference to an undisturbed uid.
LEMMA SettledStep == TypeInv /\ SettledInv /\ [Next]_vars => SettledInv'
<1>. SUFFICES ASSUME TypeInv, SettledInv, [Next]_vars PROVE SettledInv'
  OBVIOUS
<1>. USE DEF TypeInv, TypeOK, LockInv, OpInv, Table, SettledInv, Same, Progress, Working, Users
<1>1. ASSUME NEW c \in Calls, NEW u \in Uids, NEW k \in Keys, Create(c, u, k) PROVE SettledInv'
  BY <1>1, KeyringAssumption DEF Create, Begin, Goto, storeVars
<1>2. ASSUME NEW c \in Calls, NEW u \in Uids, NEW k \in Keys, Import(c, u, k) PROVE SettledInv'
  BY <1>2, KeyringAssumption DEF Import, Begin, Goto, storeVars
<1>3. ASSUME NEW c \in Calls, NEW u \in Uids, Delete(c, u) PROVE SettledInv'
  BY <1>3, KeyringAssumption DEF Delete, Begin, Goto, storeVars
<1>4. ASSUME NEW c \in Calls, NEW u \in Uids, Export(c, u) PROVE SettledInv'
  BY <1>4, KeyringAssumption DEF Export, Begin, Goto, storeVars
<1>5. ASSUME NEW c \in Calls, NEW u \in Uids, NEW v \in Uids, Rename(c, u, v) PROVE SettledInv'
  BY <1>5, KeyringAssumption DEF Rename, Mutate, Goto
<1>6. ASSUME NEW c \in Calls, Sync(c) PROVE SettledInv'
  BY <1>6, KeyringAssumption DEF Sync, Goto
<1>7. ASSUME NEW c \in Calls, Check(c) PROVE SettledInv'
  BY <1>7, KeyringAssumption DEF Check, Goto, storeVars
<1>8. ASSUME NEW c \in Calls, Put(c) PROVE SettledInv'
  BY <1>8, KeyringAssumption DEF Put, Goto, storeVars
<1>9. ASSUME NEW c \in Calls, LosePut(c) PROVE SettledInv'
  BY <1>9, KeyringAssumption DEF LosePut, Fault, Goto, storeVars
<1>10. ASSUME NEW c \in Calls, Save(c) PROVE SettledInv'
  BY <1>10, KeyringAssumption DEF Save, Mutate, Goto, storeVars
<1>11. ASSUME NEW c \in Calls, Cleanup(c) PROVE SettledInv'
  BY <1>11, KeyringAssumption DEF Cleanup, Goto, storeVars
<1>12. ASSUME NEW c \in Calls, LoseCleanup(c) PROVE SettledInv'
  BY <1>12, KeyringAssumption DEF LoseCleanup, Fault, Goto, storeVars
<1>13. ASSUME NEW c \in Calls, Write(c) PROVE SettledInv'
  BY <1>13, KeyringAssumption DEF Write, Goto
<1>14. ASSUME NEW c \in Calls, Swap(c) PROVE SettledInv'
  BY <1>14, KeyringAssumption DEF Swap, AfterStore, Goto
<1>15. ASSUME NEW c \in Calls, FailSync(c) PROVE SettledInv'
  BY <1>15, KeyringAssumption DEF FailSync, Fault, Goto
<1>16. ASSUME NEW c \in Calls, Erase(c) PROVE SettledInv'
  BY <1>16, KeyringAssumption DEF Erase, Goto, storeVars
<1>17. ASSUME NEW c \in Calls, LoseErase(c) PROVE SettledInv'
  BY <1>17, KeyringAssumption DEF LoseErase, Fault, Goto, storeVars
<1>18. ASSUME NEW c \in Calls, Forget(c) PROVE SettledInv'
  BY <1>18, KeyringAssumption DEF Forget, Mutate, Goto, storeVars
<1>19. ASSUME NEW c \in Calls, Verify(c) PROVE SettledInv'
  BY <1>19, KeyringAssumption DEF Verify, Goto, storeVars
<1>20. ASSUME NEW c \in Calls, Drop(c) PROVE SettledInv'
  BY <1>20, KeyringAssumption DEF Drop, Goto, storeVars
<1>21. ASSUME NEW c \in Calls, Read(c) PROVE SettledInv'
  BY <1>21, KeyringAssumption DEF Read, Goto, storeVars
<1>22. ASSUME NEW c \in Calls, Store(c) PROVE SettledInv'
  BY <1>22, KeyringAssumption DEF Store, Goto, storeVars
<1>23. CASE Crash
  <2>1. mem' = file /\ UNCHANGED <<file, bao, op, uid>> /\ \A c \in Calls : pc'[c] = "idle"
    BY <1>23 DEF Crash
  <2>2. disturbed \subseteq disturbed'
        /\ \A u \in Uids \ disturbed' : \A c \in Calls : Working(c) /\ uid[c] = u => c \notin HalfWay
    BY <1>23 DEF Crash
  <2>3. ASSUME NEW u \in Uids \ disturbed' PROVE file[u] = bao[u]
    <3>1. CASE \E c \in Calls : Working(c) /\ uid[c] = u
      BY <2>2, <2>3, <3>1 DEF HalfWay, PCs
    <3>2. CASE \A c \in Calls : ~(Working(c) /\ uid[c] = u)
      BY <2>2, <2>3, <3>2
    <3>. QED  BY <3>1, <3>2
  <2>. QED  BY <2>1, <2>2, <2>3
<1>24. CASE UNCHANGED vars
  BY <1>24 DEF vars, storeVars, callVars
<1>. QED  BY <1>1, <1>2, <1>3, <1>4, <1>5, <1>6, <1>7, <1>8, <1>9, <1>10, <1>11, <1>12,
          <1>13, <1>14, <1>15, <1>16, <1>17, <1>18, <1>19, <1>20, <1>21, <1>22, <1>23,
          <1>24 DEF Next, Step

\* It holds in every state.
LEMMA SettledInvariant == Spec => []SettledInv
<1>1. Init => SettledInv
  BY DEF Init, SettledInv, Same, Working
<1>2. TypeInv /\ SettledInv /\ [Next]_vars => SettledInv'
  BY SettledStep
<1>. QED  BY <1>1, <1>2, TypeInvariant, PTL DEF Spec

\* An undisturbed uid that no call works on stands for the same key everywhere.
THEOREM AlwaysSettled == Spec => []Settled
<1>1. SettledInv => Settled
  BY DEF SettledInv, Settled, Same, Working, Users
<1>. QED  BY <1>1, SettledInvariant, PTL

\* What a step removes is kept elsewhere, unless it was to be deleted.
LEMMA LosesStep == TypeInv /\ SettledInv /\ [Next]_vars => Loses
<1>. SUFFICES ASSUME TypeInv, SettledInv, [Next]_vars PROVE Loses
  OBVIOUS
<1>. USE DEF TypeInv, TypeOK, OpInv, Table, SettledInv, Same, Progress, Working, Loses, Kept
<1>1. ASSUME NEW c \in Calls, NEW u \in Uids, NEW k \in Keys, Create(c, u, k) PROVE Loses
  BY <1>1, KeyringAssumption DEF Create, Begin, Goto, storeVars
<1>2. ASSUME NEW c \in Calls, NEW u \in Uids, NEW k \in Keys, Import(c, u, k) PROVE Loses
  BY <1>2, KeyringAssumption DEF Import, Begin, Goto, storeVars
<1>3. ASSUME NEW c \in Calls, NEW u \in Uids, Delete(c, u) PROVE Loses
  BY <1>3, KeyringAssumption DEF Delete, Begin, Goto, storeVars
<1>4. ASSUME NEW c \in Calls, NEW u \in Uids, Export(c, u) PROVE Loses
  BY <1>4, KeyringAssumption DEF Export, Begin, Goto, storeVars
<1>5. ASSUME NEW c \in Calls, NEW u \in Uids, NEW v \in Uids, Rename(c, u, v) PROVE Loses
  BY <1>5, KeyringAssumption DEF Rename, Mutate, Goto
<1>6. ASSUME NEW c \in Calls, Sync(c) PROVE Loses
  BY <1>6, KeyringAssumption DEF Sync, Goto
<1>7. ASSUME NEW c \in Calls, Check(c) PROVE Loses
  BY <1>7, KeyringAssumption DEF Check, Goto, storeVars
<1>8. ASSUME NEW c \in Calls, Put(c) PROVE Loses
  BY <1>8, KeyringAssumption DEF Put, Goto, storeVars
<1>9. ASSUME NEW c \in Calls, LosePut(c) PROVE Loses
  BY <1>9, KeyringAssumption DEF LosePut, Fault, Goto, storeVars
<1>10. ASSUME NEW c \in Calls, Save(c) PROVE Loses
  BY <1>10, KeyringAssumption DEF Save, Mutate, Goto, storeVars
<1>11. ASSUME NEW c \in Calls, Cleanup(c) PROVE Loses
  BY <1>11, KeyringAssumption DEF Cleanup, Goto, storeVars
<1>12. ASSUME NEW c \in Calls, LoseCleanup(c) PROVE Loses
  BY <1>12, KeyringAssumption DEF LoseCleanup, Fault, Goto, storeVars
<1>13. ASSUME NEW c \in Calls, Write(c) PROVE Loses
  BY <1>13, KeyringAssumption DEF Write, Goto
<1>14. ASSUME NEW c \in Calls, Swap(c) PROVE Loses
  BY <1>14, KeyringAssumption DEF Swap, AfterStore, Goto
<1>15. ASSUME NEW c \in Calls, FailSync(c) PROVE Loses
  BY <1>15, KeyringAssumption DEF FailSync, Fault, Goto
<1>16. ASSUME NEW c \in Calls, Erase(c) PROVE Loses
  BY <1>16, KeyringAssumption DEF Erase, Goto, storeVars
<1>17. ASSUME NEW c \in Calls, LoseErase(c) PROVE Loses
  BY <1>17, KeyringAssumption DEF LoseErase, Fault, Goto, storeVars
<1>18. ASSUME NEW c \in Calls, Forget(c) PROVE Loses
  BY <1>18, KeyringAssumption DEF Forget, Mutate, Goto, storeVars
<1>19. ASSUME NEW c \in Calls, Verify(c) PROVE Loses
  BY <1>19, KeyringAssumption DEF Verify, Goto, storeVars
<1>20. ASSUME NEW c \in Calls, Drop(c) PROVE Loses
  BY <1>20, KeyringAssumption DEF Drop, Goto, storeVars
<1>21. ASSUME NEW c \in Calls, Read(c) PROVE Loses
  BY <1>21, KeyringAssumption DEF Read, Goto, storeVars
<1>22. ASSUME NEW c \in Calls, Store(c) PROVE Loses
  BY <1>22, KeyringAssumption DEF Store, Goto, storeVars
<1>23. CASE Crash
  BY <1>23, KeyringAssumption DEF Crash
<1>24. CASE UNCHANGED vars
  BY <1>24 DEF vars, storeVars, callVars
<1>. QED  BY <1>1, <1>2, <1>3, <1>4, <1>5, <1>6, <1>7, <1>8, <1>9, <1>10, <1>11, <1>12,
          <1>13, <1>14, <1>15, <1>16, <1>17, <1>18, <1>19, <1>20, <1>21, <1>22, <1>23,
          <1>24 DEF Next, Step

\* No migration, refused creation, cleanup or crash destroys the last copy of a
\* key whose uid was not disturbed before.
THEOREM OnlyDeletionAlwaysLoses == Spec => OnlyDeletionLoses
<1>1. TypeInv /\ SettledInv /\ [Next]_vars => [Loses]_vars
  BY LosesStep
<1>. QED  BY <1>1, TypeInvariant, SettledInvariant, PTL DEF Spec, OnlyDeletionLoses

=============================================================================
