---------------------------- MODULE KeyEngineProofs ----------------------------
(***************************************************************************)
(* Proofs about KeyEngine, for any number of requests, names and keys.     *)
(***************************************************************************)
EXTENDS KeyEngine, TLAPS

-----------------------------------------------------------------------------
(* Type correctness.                                                       *)

\* Every operation begins at a place of the program.
LEMMA FirstStep ==
  ASSUME NEW o \in Ops
  PROVE  (CASE o = "import" -> "check" [] o = "delete" -> "erase" [] OTHER -> "lookup") \in PCs
  BY DEF PCs

\* Every variable keeps its type.
LEMMA StepType == TypeOK /\ [Next]_vars => TypeOK'
<1>. SUFFICES ASSUME TypeOK, [Next]_vars PROVE TypeOK'
  OBVIOUS
<1>. USE DEF TypeOK, PCs, Entries
<1>1. ASSUME NEW r \in Requests, Lookup(r) PROVE TypeOK'
  BY <1>1 DEF Lookup, Goto, Take, histVars
<1>2. ASSUME NEW r \in Requests, Fetch(r) PROVE TypeOK'
  BY <1>2 DEF Fetch, Goto, Take, Respond, histVars
<1>3. ASSUME NEW r \in Requests, Fill(r) PROVE TypeOK'
  BY <1>3 DEF Fill, Goto, histVars
<1>4. ASSUME NEW r \in Requests, Serve(r) PROVE TypeOK'
  BY <1>4 DEF Serve, Goto, Take, Respond
<1>5. ASSUME NEW r \in Requests, Check(r) PROVE TypeOK'
  BY <1>5 DEF Check, Goto, Take, Respond, histVars
<1>6. ASSUME NEW r \in Requests, Put(r) PROVE TypeOK'
  BY <1>6 DEF Put, Goto, Respond, Store, Take
<1>7. ASSUME NEW r \in Requests, CacheNew(r) PROVE TypeOK'
  BY <1>7 DEF CacheNew, Respond, histVars, Goto, Take
<1>8. ASSUME NEW r \in Requests, Erase(r) PROVE TypeOK'
  BY <1>8 DEF Erase, Goto, Respond, Store, Take
<1>9. ASSUME NEW r \in Requests, Uncache(r) PROVE TypeOK'
  BY <1>9 DEF Uncache, Respond, Drop, Goto, Take
<1>10. ASSUME NEW r \in Requests, NEW o \in Ops, NEW n \in Names, Begin(r, o, n) PROVE TypeOK'
  BY <1>10, FirstStep DEF Begin, Goto, histVars
<1>11. ASSUME NEW n \in Names, ForeignWrite(n) PROVE TypeOK'
  BY <1>11 DEF ForeignWrite, Store, reqVars
<1>12. ASSUME NEW n \in Names, Invalidate(n) PROVE TypeOK'
  BY <1>12 DEF Invalidate, Drop, reqVars
<1>13. CASE Restart
  BY <1>13 DEF Restart
<1>14. CASE UNCHANGED vars
  BY <1>14 DEF vars, reqVars, histVars
<1>. QED  BY <1>1, <1>2, <1>3, <1>4, <1>5, <1>6, <1>7, <1>8, <1>9, <1>10, <1>11, <1>12,
          <1>13, <1>14 DEF Next, Handle

\* Every variable keeps its type, whatever the number of requests, names and keys.
THEOREM TypeCorrect == Spec => []TypeOK
<1>1. Init => TypeOK
  BY DEF Init, TypeOK, PCs, Ops
<1>2. TypeOK /\ [Next]_vars => TypeOK'
  BY StepType
<1>. QED  BY <1>1, <1>2, PTL DEF Spec

-----------------------------------------------------------------------------
(* What clients are answered.                                              *)

\* Whatever is in storage, in the cache or on its way to either was stored; what
\* is still to be stored is held by a request between its check and its write.
StoredInv ==
  /\ \A n \in Names : storage[n] # NoEntry => <<n, storage[n]>> \in stored
  /\ \A n \in Names : cache[n] # NoEntry => <<n, cache[n]>> \in stored
  /\ \A r \in Requests : pc[r] \in {"fill", "serve", "cachenew"} /\ held[r] # NoEntry
       => <<name[r], held[r]>> \in stored

\* No step breaks it.
LEMMA StoredStep == TypeOK /\ StoredInv /\ [Next]_vars => StoredInv'
<1>. SUFFICES ASSUME TypeOK, StoredInv, [Next]_vars PROVE StoredInv'
  OBVIOUS
<1>. USE DEF TypeOK, StoredInv
<1>1. ASSUME NEW r \in Requests, Lookup(r) PROVE StoredInv'
  BY <1>1 DEF Lookup, Goto, Take, histVars
<1>2. ASSUME NEW r \in Requests, Fetch(r) PROVE StoredInv'
  BY <1>2 DEF Fetch, Goto, Take, Respond, histVars
<1>3. ASSUME NEW r \in Requests, Fill(r) PROVE StoredInv'
  BY <1>3 DEF Fill, Goto, histVars
<1>4. ASSUME NEW r \in Requests, Serve(r) PROVE StoredInv'
  BY <1>4 DEF Serve, Goto, Take, Respond
<1>5. ASSUME NEW r \in Requests, Check(r) PROVE StoredInv'
  BY <1>5 DEF Check, Goto, Take, Respond, histVars
<1>6. ASSUME NEW r \in Requests, Put(r) PROVE StoredInv'
  BY <1>6 DEF Put, Goto, Respond, Store, Take
<1>7. ASSUME NEW r \in Requests, CacheNew(r) PROVE StoredInv'
  BY <1>7 DEF CacheNew, Respond, histVars, Goto, Take
<1>8. ASSUME NEW r \in Requests, Erase(r) PROVE StoredInv'
  BY <1>8 DEF Erase, Goto, Respond, Store, Take
<1>9. ASSUME NEW r \in Requests, Uncache(r) PROVE StoredInv'
  BY <1>9 DEF Uncache, Respond, Drop, Goto, Take
<1>10. ASSUME NEW r \in Requests, NEW o \in Ops, NEW n \in Names, Begin(r, o, n) PROVE StoredInv'
  BY <1>10, FirstStep DEF Begin, Goto, histVars
<1>11. ASSUME NEW n \in Names, ForeignWrite(n) PROVE StoredInv'
  BY <1>11 DEF ForeignWrite, Store, reqVars
<1>12. ASSUME NEW n \in Names, Invalidate(n) PROVE StoredInv'
  BY <1>12 DEF Invalidate, Drop, reqVars
<1>13. CASE Restart
  BY <1>13 DEF Restart
<1>14. CASE UNCHANGED vars
  BY <1>14 DEF vars, reqVars, histVars
<1>. QED  BY <1>1, <1>2, <1>3, <1>4, <1>5, <1>6, <1>7, <1>8, <1>9, <1>10, <1>11, <1>12,
          <1>13, <1>14 DEF Next, Handle

\* No client is answered with a key that was not durably stored.
THEOREM OnlyStoredKeysAreAlwaysServed == Spec => []OnlyStoredKeysAreServed
<1>1. Init => StoredInv
  BY DEF Init, StoredInv
<1>2. TypeOK /\ StoredInv /\ [Next]_vars => StoredInv'
  BY StoredStep
<1>3. StoredInv => OnlyStoredKeysAreServed
  BY DEF StoredInv, OnlyStoredKeysAreServed
<1>. QED  BY <1>1, <1>2, <1>3, TypeCorrect, PTL DEF Spec

\* Nothing but an export of a stored, exportable entry adds to what was exported.
LEMMA ExportStep == TypeOK /\ StoredInv /\ OnlyExportableIsExported /\ [Next]_vars
                     => OnlyExportableIsExported'
<1>. SUFFICES ASSUME TypeOK, StoredInv, OnlyExportableIsExported, [Next]_vars
               PROVE  OnlyExportableIsExported'
  OBVIOUS
<1>. USE DEF TypeOK, OnlyExportableIsExported
<1>1. ASSUME NEW r \in Requests, Lookup(r) PROVE OnlyExportableIsExported'
  BY <1>1 DEF Lookup, Goto, Take, histVars
<1>2. ASSUME NEW r \in Requests, Fetch(r) PROVE OnlyExportableIsExported'
  BY <1>2 DEF Fetch, Goto, Take, Respond, histVars
<1>3. ASSUME NEW r \in Requests, Fill(r) PROVE OnlyExportableIsExported'
  BY <1>3 DEF Fill, Goto, histVars
<1>4. ASSUME NEW r \in Requests, Serve(r) PROVE OnlyExportableIsExported'
  <2>1. stored' = stored
    BY <1>4 DEF Serve
  <2>2. CASE exported' = exported
    BY <2>1, <2>2
  <2>3. CASE held[r] # NoEntry /\ held[r].exportable /\ exported' = exported \cup {held[r].key}
    <3>1. <<name[r], held[r]>> \in stored
      BY <1>4, <2>3 DEF Serve, StoredInv
    <3>2. held[r] = [key |-> held[r].key, exportable |-> TRUE]
      BY <2>3 DEF Entries
    <3>. QED  BY <2>1, <2>3, <3>1, <3>2
  <2>. QED  BY <1>4, <2>2, <2>3 DEF Serve
<1>5. ASSUME NEW r \in Requests, Check(r) PROVE OnlyExportableIsExported'
  BY <1>5 DEF Check, Goto, Take, Respond, histVars
<1>6. ASSUME NEW r \in Requests, Put(r) PROVE OnlyExportableIsExported'
  BY <1>6 DEF Put, Goto, Respond, Store, Take
<1>7. ASSUME NEW r \in Requests, CacheNew(r) PROVE OnlyExportableIsExported'
  BY <1>7 DEF CacheNew, Respond, histVars, Goto, Take
<1>8. ASSUME NEW r \in Requests, Erase(r) PROVE OnlyExportableIsExported'
  BY <1>8 DEF Erase, Goto, Respond, Store, Take
<1>9. ASSUME NEW r \in Requests, Uncache(r) PROVE OnlyExportableIsExported'
  BY <1>9 DEF Uncache, Respond, Drop, Goto, Take
<1>10. ASSUME NEW r \in Requests, NEW o \in Ops, NEW n \in Names, Begin(r, o, n)
       PROVE  OnlyExportableIsExported'
  BY <1>10, FirstStep DEF Begin, Goto, histVars
<1>11. ASSUME NEW n \in Names, ForeignWrite(n) PROVE OnlyExportableIsExported'
  BY <1>11 DEF ForeignWrite, Store, reqVars
<1>12. ASSUME NEW n \in Names, Invalidate(n) PROVE OnlyExportableIsExported'
  BY <1>12 DEF Invalidate, Drop, reqVars
<1>13. CASE Restart
  BY <1>13 DEF Restart
<1>14. CASE UNCHANGED vars
  BY <1>14 DEF vars, reqVars, histVars
<1>. QED  BY <1>1, <1>2, <1>3, <1>4, <1>5, <1>6, <1>7, <1>8, <1>9, <1>10, <1>11, <1>12,
          <1>13, <1>14 DEF Next, Handle

\* A private key leaves the engine only if it was stored as exportable.
THEOREM OnlyExportableIsEverExported == Spec => []OnlyExportableIsExported
<1>1. Init => StoredInv /\ OnlyExportableIsExported
  BY DEF Init, StoredInv, OnlyExportableIsExported
<1>2. TypeOK /\ StoredInv /\ [Next]_vars => StoredInv'
  BY StoredStep
<1>3. TypeOK /\ StoredInv /\ OnlyExportableIsExported /\ [Next]_vars => OnlyExportableIsExported'
  BY ExportStep
<1>. QED  BY <1>1, <1>2, <1>3, TypeCorrect, PTL DEF Spec

-----------------------------------------------------------------------------
(* The cache and the storage.                                              *)

\* A request about to cache an entry holds the stored one, unless storage was
\* written under it.
CachingInv ==
  \A r \in Requests : pc[r] \in {"fill", "cachenew"} =>
    held[r] = storage[name[r]] \/ name[r] \in raced

\* No step makes the cache and the storage disagree for another reason.
LEMMA CoherentStep == TypeOK /\ CachingInv /\ Coherent /\ [Next]_vars => CachingInv' /\ Coherent'
<1>. DEFINE Inv == CachingInv /\ Coherent
<1>. SUFFICES ASSUME TypeOK, Inv, [Next]_vars PROVE Inv'
  OBVIOUS
<1>. USE DEF TypeOK, CachingInv, Coherent
<1>1. ASSUME NEW r \in Requests, Lookup(r) PROVE Inv'
  BY <1>1 DEF Lookup, Goto, Take, histVars
<1>2. ASSUME NEW r \in Requests, Fetch(r) PROVE Inv'
  BY <1>2 DEF Fetch, Goto, Take, Respond, histVars
<1>3. ASSUME NEW r \in Requests, Fill(r) PROVE Inv'
  BY <1>3 DEF Fill, Goto, histVars
<1>4. ASSUME NEW r \in Requests, Serve(r) PROVE Inv'
  BY <1>4 DEF Serve, Goto, Take, Respond
<1>5. ASSUME NEW r \in Requests, Check(r) PROVE Inv'
  BY <1>5 DEF Check, Goto, Take, Respond, histVars
<1>6. ASSUME NEW r \in Requests, Put(r) PROVE Inv'
  BY <1>6 DEF Put, Goto, Respond, Store, Take, Caching
<1>7. ASSUME NEW r \in Requests, CacheNew(r) PROVE Inv'
  BY <1>7 DEF CacheNew, Respond, histVars, Goto, Take
<1>8. ASSUME NEW r \in Requests, Erase(r) PROVE Inv'
  BY <1>8 DEF Erase, Goto, Respond, Store, Take, Caching
<1>9. ASSUME NEW r \in Requests, Uncache(r) PROVE Inv'
  BY <1>9 DEF Uncache, Respond, Drop, Goto, Take, Caching
<1>10. ASSUME NEW r \in Requests, NEW o \in Ops, NEW n \in Names, Begin(r, o, n) PROVE Inv'
  BY <1>10, FirstStep DEF Begin, Goto, histVars
<1>11. ASSUME NEW n \in Names, ForeignWrite(n) PROVE Inv'
  BY <1>11 DEF ForeignWrite, Store, reqVars, Caching
<1>12. ASSUME NEW n \in Names, Invalidate(n) PROVE Inv'
  BY <1>12 DEF Invalidate, Drop, reqVars, Caching
<1>13. CASE Restart
  BY <1>13 DEF Restart
<1>14. CASE UNCHANGED vars
  BY <1>14 DEF vars, reqVars, histVars
<1>. QED  BY <1>1, <1>2, <1>3, <1>4, <1>5, <1>6, <1>7, <1>8, <1>9, <1>10, <1>11, <1>12,
          <1>13, <1>14 DEF Next, Handle

\* The cache disagrees with the storage only as long, and for the reasons, that
\* Coherent names.
THEOREM AlwaysCoherent == Spec => []Coherent
<1>1. Init => CachingInv /\ Coherent
  BY DEF Init, CachingInv, Coherent
<1>2. TypeOK /\ CachingInv /\ Coherent /\ [Next]_vars => CachingInv' /\ Coherent'
  BY CoherentStep
<1>. QED  BY <1>1, <1>2, TypeCorrect, PTL DEF Spec
=============================================================================
