------------------------------- MODULE KeyEngine -------------------------------
(***************************************************************************)
(* The secp256k1 secrets engine (plugin/secp256k1): its storage, the cache *)
(* it keeps in front of it, and the requests that run concurrently over    *)
(* both.  The cache lock protects single reads and writes of the map, and  *)
(* nothing is held across a storage call, so every storage call and every  *)
(* access to the cache is a step of its own.                               *)
(*                                                                         *)
(* A private key is a model value; what a signature or an address is made  *)
(* of is left out, which key it is made with is not.                       *)
(***************************************************************************)
EXTENDS Naturals, FiniteSets

CONSTANTS
  Requests,    \* requests the plugin may be handling at a time
  Names,       \* key names
  Keys,        \* private keys; bound: how many may be generated
  NoEntry,     \* nothing stored, cached or held
  Clustered    \* whether other nodes write the same storage

Entries == [key : Keys, exportable : BOOLEAN]

ASSUME KeyEngineAssumption == NoEntry \notin Entries /\ Clustered \in BOOLEAN

VARIABLES
  storage,   \* keys/<name>: the entry stored
  cache,     \* keyCache: the entry cached
  pc,        \* what each request does next
  op,        \* its operation
  name,      \* the name it is about
  held,      \* the entry it has in hand
  foreign,   \* names another node has written since their last invalidation
  stored,    \* history: every entry ever stored, with its name
  exported,  \* history: the keys handed out by export
  raced      \* history: names written in storage under a request about to cache them

reqVars == <<pc, op, name, held>>
histVars == <<stored, exported, raced>>
vars == <<storage, cache, reqVars, foreign, histVars>>

Ops == {"create", "import", "use", "export", "delete"}
PCs == {"idle", "lookup", "fetch", "fill", "serve", "check", "put", "cachenew",
        "erase", "uncache"}

TypeOK ==
  /\ storage \in [Names -> Entries \cup {NoEntry}]
  /\ cache \in [Names -> Entries \cup {NoEntry}]
  /\ pc \in [Requests -> PCs]
  /\ op \in [Requests -> Ops]
  /\ name \in [Requests -> Names]
  /\ held \in [Requests -> Entries \cup {NoEntry}]
  /\ foreign \subseteq Names
  /\ stored \subseteq Names \X Entries
  /\ exported \subseteq Keys
  /\ raced \subseteq Names

Init ==
  /\ storage = [n \in Names |-> NoEntry]
  /\ cache = [n \in Names |-> NoEntry]
  /\ pc = [r \in Requests |-> "idle"]
  /\ op \in [Requests -> {"use"}] /\ name \in [Requests -> Names]
  /\ held = [r \in Requests |-> NoEntry]
  /\ foreign = {} /\ stored = {} /\ exported = {} /\ raced = {}

-----------------------------------------------------------------------------
Goto(r, l) == pc' = [pc EXCEPT ![r] = l]
Take(r, e) == held' = [held EXCEPT ![r] = e]
\* The answer is sent: the request lets go of what it held.
Respond(r) == Goto(r, "idle") /\ Take(r, NoEntry)

\* Requests about to write into the cache what they read or stored before.
Caching(n) == {r \in Requests : name[r] = n /\ pc[r] \in {"fill", "cachenew"}}

\* A write to storage; a request r that makes it is not itself one it races with.
Store(n, e, own) ==
  /\ storage' = [storage EXCEPT ![n] = e]
  /\ stored' = IF e = NoEntry THEN stored ELSE stored \cup {<<n, e>>}
  /\ raced' = IF Caching(n) \subseteq own THEN raced ELSE raced \cup {n}

\* The entry of a name is dropped from the cache, and with it what a past race
\* left there, unless somebody is about to write it again.
Drop(n) ==
  /\ cache' = [cache EXCEPT ![n] = NoEntry]
  /\ raced' = IF Caching(n) = {} THEN raced \ {n} ELSE raced

\* A private key nobody has seen.
Fresh(k) == /\ \A s \in stored : s[2].key # k
            /\ \A r \in Requests : held[r] # NoEntry => held[r].key # k

-----------------------------------------------------------------------------
\* The framework runs the existence check, that is getKey, before a create; an
\* import has none.  Reading, signing, verifying and listing only differ in what
\* they compute from the entry.
Begin(r, o, n) ==
  /\ pc[r] = "idle"
  /\ op' = [op EXCEPT ![r] = o]
  /\ name' = [name EXCEPT ![r] = n]
  /\ Goto(r, CASE o = "import" -> "check" [] o = "delete" -> "erase" [] OTHER -> "lookup")
  /\ UNCHANGED <<storage, cache, held, foreign, histVars>>

(* getKey.                                                                 *)

\* getKeyFromCache.
Lookup(r) ==
  /\ pc[r] = "lookup"
  /\ Take(r, cache[name[r]])
  /\ Goto(r, IF cache[name[r]] = NoEntry THEN "fetch" ELSE "serve")
  /\ UNCHANGED <<storage, cache, op, name, foreign, histVars>>

\* Load from storage; an error ends the request.
Fetch(r) ==
  /\ pc[r] = "fetch"
  /\ \/ Take(r, storage[name[r]])
        /\ Goto(r, IF storage[name[r]] = NoEntry THEN "serve" ELSE "fill")
     \/ Respond(r)
  /\ UNCHANGED <<storage, cache, op, name, foreign, histVars>>

\* setKeyInCache, whatever has happened to the name since.
Fill(r) ==
  /\ pc[r] = "fill"
  /\ cache' = [cache EXCEPT ![name[r]] = held[r]]
  /\ Goto(r, "serve")
  /\ UNCHANGED <<storage, op, name, held, foreign, histVars>>

\* Mutant: export does not look at the flag.
ServeAnyExport(r) ==
  /\ pc[r] = "serve" /\ Respond(r)
  /\ exported' = IF op[r] = "export" /\ held[r] # NoEntry
                   THEN exported \cup {held[r].key} ELSE exported
  /\ UNCHANGED <<storage, cache, op, name, foreign, stored, raced>>

\* What a handler does with the entry getKey returned.
Serve(r) ==
  /\ pc[r] = "serve"
  /\ \/ op[r] = "create" /\ Goto(r, "check") /\ Take(r, NoEntry) /\ UNCHANGED exported
     \/ op[r] = "use" /\ Respond(r) /\ UNCHANGED exported
     \/ op[r] = "export" /\ Respond(r)
        /\ exported' = IF held[r] # NoEntry /\ held[r].exportable
                         THEN exported \cup {held[r].key} ELSE exported
  /\ UNCHANGED <<storage, cache, op, name, foreign, stored, raced>>

-----------------------------------------------------------------------------
(* pathKeyCreate, pathKeyImport and pathKeyDelete.                         *)

\* "key already exists", a storage error, or a new entry to store: a generated
\* key, or the one imported.
Check(r) ==
  /\ pc[r] = "check"
  /\ \/ storage[name[r]] = NoEntry
        /\ \E e \in Entries : (op[r] = "create" => Fresh(e.key)) /\ Take(r, e)
        /\ Goto(r, "put")
     \/ Respond(r)
  /\ UNCHANGED <<storage, cache, op, name, foreign, histVars>>

\* Mutant: the entry is cached although it could not be stored.
PutUnchecked(r) ==
  /\ pc[r] = "put"
  /\ \/ Store(name[r], held[r], {r})
     \/ UNCHANGED <<storage, stored, raced>>
  /\ Goto(r, "cachenew") /\ UNCHANGED held
  /\ UNCHANGED <<cache, op, name, foreign, exported>>

\* Storage.Put, without another look at what is there.
Put(r) ==
  /\ pc[r] = "put"
  /\ \/ Store(name[r], held[r], {r}) /\ Goto(r, "cachenew") /\ UNCHANGED held
     \/ Respond(r) /\ UNCHANGED <<storage, stored, raced>>
  /\ UNCHANGED <<cache, op, name, foreign, exported>>

\* The new entry goes into the cache, and the answer to the client.
CacheNew(r) ==
  /\ pc[r] = "cachenew"
  /\ cache' = [cache EXCEPT ![name[r]] = held[r]]
  /\ Respond(r)
  /\ UNCHANGED <<storage, op, name, foreign, histVars>>

\* Mutant: a delete does not touch the cache.
EraseOnly(r) ==
  /\ pc[r] = "erase"
  /\ Store(name[r], NoEntry, {r}) \/ UNCHANGED <<storage, stored, raced>>
  /\ Respond(r)
  /\ UNCHANGED <<cache, op, name, foreign, exported>>

\* Storage.Delete; an error leaves the cache alone.
Erase(r) ==
  /\ pc[r] = "erase"
  /\ \/ Store(name[r], NoEntry, {r}) /\ Goto(r, "uncache") /\ UNCHANGED held
     \/ Respond(r) /\ UNCHANGED <<storage, stored, raced>>
  /\ UNCHANGED <<cache, op, name, foreign, exported>>

\* The entry is dropped; a request that has it in hand goes on with it.
Uncache(r) ==
  /\ pc[r] = "uncache"
  /\ Drop(name[r])
  /\ Respond(r)
  /\ UNCHANGED <<storage, op, name, foreign, stored, exported>>

-----------------------------------------------------------------------------
(* Other nodes and the life of the plugin.                                 *)

\* Another node of the cluster stores or deletes a key under this name.
ForeignWrite(n) ==
  /\ Clustered
  /\ \E e \in Entries \cup {NoEntry} :
       /\ e # storage[n] /\ (e # NoEntry => Fresh(e.key))
       /\ Store(n, e, {})
  /\ foreign' = foreign \cup {n}
  /\ UNCHANGED <<cache, reqVars, exported>>

\* Mutant: the prefix "keys/" is not trimmed, so an entry is kept under the path.
InvalidateUntrimmed(n) ==
  /\ n \in foreign
  /\ foreign' = foreign \ {n}
  /\ cache' = [m \in Names \cup {"keys/"} |-> IF m \in Names THEN cache[m] ELSE NoEntry]
  /\ UNCHANGED <<storage, reqVars, histVars>>

\* ... and OpenBao calls invalidate("keys/<name>") on this one, which drops its entry too.
Invalidate(n) ==
  /\ n \in foreign
  /\ foreign' = foreign \ {n}
  /\ Drop(n)
  /\ UNCHANGED <<storage, reqVars, stored, exported>>

\* The plugin stops, cleanly (cleanup) or not, with whatever it was doing, and is
\* started again with an empty cache.
Restart ==
  /\ cache' = [n \in Names |-> NoEntry]
  /\ pc' = [r \in Requests |-> "idle"]
  /\ held' = [r \in Requests |-> NoEntry]
  /\ foreign' = {} /\ raced' = {}
  /\ UNCHANGED <<storage, op, name, stored, exported>>

Handle(r) ==
  \/ Lookup(r) \/ Fetch(r) \/ Fill(r) \/ Serve(r)
  \/ Check(r) \/ Put(r) \/ CacheNew(r) \/ Erase(r) \/ Uncache(r)

Next ==
  \/ \E r \in Requests : Handle(r) \/ \E o \in Ops, n \in Names : Begin(r, o, n)
  \/ \E n \in Names : ForeignWrite(n) \/ Invalidate(n)
  \/ Restart

Spec == Init /\ [][Next]_vars

-----------------------------------------------------------------------------
(* Properties.                                                             *)

\* The cache and storage disagree about a name only while a write of it is on
\* its way to the cache (from this node or another), or when storage was written
\* under a request that had read the old entry and was about to cache it.
Coherent ==
  \A n \in Names : cache[n] \notin {NoEntry, storage[n]} =>
    \/ n \in foreign \cup raced
    \/ \E r \in Requests : name[r] = n /\ pc[r] \in {"cachenew", "uncache"}

\* No client is ever answered with a key that was not durably stored under the
\* name it asked for: not from the cache, not from a create whose write failed.
OnlyStoredKeysAreServed ==
  \A r \in Requests : pc[r] \in {"serve", "cachenew"} /\ held[r] # NoEntry
    => <<name[r], held[r]>> \in stored

\* A private key leaves the engine only if it was stored as exportable.
OnlyExportableIsExported ==
  \A k \in exported : \E n \in Names : <<n, [key |-> k, exportable |-> TRUE]>> \in stored

(* What the repository says of itself and the code does not do.            *)

\* "key should not be in cache after delete": when nothing is in flight, a name
\* with nothing in storage has nothing in the cache, so a deleted key cannot sign.
NoGhostKey ==
  (\A r \in Requests : pc[r] = "idle") /\ foreign = {} =>
    \A n \in Names : storage[n] = NoEntry => cache[n] = NoEntry
=============================================================================
