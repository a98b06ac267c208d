------------------------------ MODULE Credentials ------------------------------
(***************************************************************************)
(* What lets a caller in: the password and the sessions of one user, and   *)
(* the API key that the bootstrap orchestrator keeps for the deployments   *)
(* of one organization.  The password, the sessions and the API keys are   *)
(* rows of PostgreSQL, the orchestrator's copy of its key is a secret of   *)
(* OpenBao; a request is a sequence of statements on them, none of which   *)
(* is in a transaction, and any of which may fail.                         *)
(***************************************************************************)
EXTENDS Integers, FiniteSets

CONSTANTS
  Sessions,   \* ids of sessions; the id of a deleted one may be drawn again
  Keys,       \* ids of API keys, each drawn once
  Calls,      \* requests and deployments under way at a time
  MaxChanges, \* bound: changes of the password
  NoSession, ByProvider, NoHash, NoKey

Passwords == 0..MaxChanges

ASSUME CredentialsAssumption ==
  /\ MaxChanges \in Nat
  /\ {NoSession, ByProvider, NoHash} \cap Passwords = {}
  /\ NoSession # ByProvider /\ NoHash # ByProvider
  /\ NoKey \notin Keys

VARIABLES
  password, \* the user's password_hash, as the number of changes before it
  session,  \* of each row of sessions: the password it was opened with
  expired,  \* the sessions whose expires_at has passed
  spared,   \* history: sessions a change of the password could not close:
            \* opened by a login that read the hash before it, or left by a
            \* DeleteAllForUser that failed
  row,      \* of each API key for deployments: unused, live, or dead (revoked
            \* or deleted)
  stored,   \* the key under orgs/<id>/deployment-api-key in OpenBao
  astray,   \* history: keys that were not stored because the write failed, and
            \* keys removed from OpenBao or overwritten by a deployment whose
            \* own look at it was out of date
  pc,       \* what each call does next
  hash,     \* the hash it has read
  held,     \* the API key it has read or created
  late      \* history: calls that failed to read the stored key or to check it,
            \* or have been overtaken: another one has stored a key since

userVars == <<password, session, expired, spared>>
keyVars == <<row, stored, astray>>
vars == <<userVars, keyVars, pc, hash, held, late>>

Live == {k \in Keys : row[k] = "live"}

TypeOK ==
  /\ password \in Passwords
  /\ session \in [Sessions -> Passwords \cup {ByProvider, NoSession}]
  /\ expired \subseteq {s \in Sessions : session[s] # NoSession}
  /\ spared \subseteq Sessions
  /\ row \in [Keys -> {"unused", "live", "dead"}]
  /\ stored \in {k \in Keys : row[k] # "unused"} \cup {NoKey}
  /\ astray \subseteq Keys
  /\ pc \in [Calls -> {"idle", "insert", "update", "purge",
                       "validate", "forget", "create", "store"}]
  /\ hash \in [Calls -> Passwords \cup {ByProvider, NoHash}]
  /\ held \in [Calls -> Keys \cup {NoKey}]
  /\ late \subseteq Calls

Init ==
  /\ password = 0
  /\ session = [s \in Sessions |-> NoSession]
  /\ expired = {} /\ spared = {}
  /\ row = [k \in Keys |-> "unused"]
  /\ stored = NoKey /\ astray = {}
  /\ pc = [c \in Calls |-> "idle"]
  /\ hash = [c \in Calls |-> NoHash]
  /\ held = [c \in Calls |-> NoKey]
  /\ late = {}

-----------------------------------------------------------------------------
Goto(c, l) == pc' = [pc EXCEPT ![c] = l]

Reads(c, h, k, l) ==
  /\ Goto(c, l)
  /\ hash' = [hash EXCEPT ![c] = h]
  /\ held' = [held EXCEPT ![c] = k]

\* c ends: it answers, fails or crashes, and forgets what it has read.
Return(c) == Reads(c, NoHash, NoKey, "idle")

Close(S) ==
  /\ session' = [s \in Sessions |-> IF s \in S THEN NoSession ELSE session[s]]
  /\ expired' = expired \ S
  /\ spared' = spared \ S

Opened == {s \in Sessions : session[s] # NoSession}

-----------------------------------------------------------------------------
(* The user: authService and oauthService. *)

Admit(c, h) ==
  /\ pc[c] = "idle"
  /\ Reads(c, h, NoKey, "insert")
  /\ UNCHANGED <<userVars, keyVars, late>>

\* Login, up to the check of the password, and HandleCallback, up to the user.
Login(c) == Admit(c, password)
HandleCallback(c) == Admit(c, ByProvider)

\* createSession.
CreateSession(c, s) ==
  /\ pc[c] = "insert" /\ s \notin Opened
  /\ session' = [session EXCEPT ![s] = hash[c]]
  /\ spared' = IF hash[c] \in {password, ByProvider} THEN spared ELSE spared \cup {s}
  /\ Return(c)
  /\ UNCHANGED <<password, expired, keyVars, late>>

\* ChangePassword, up to the check of the old password.
ChangePassword(c) ==
  /\ pc[c] = "idle"
  /\ Reads(c, password, NoKey, "update")
  /\ UNCHANGED <<userVars, keyVars, late>>

\* Mutant: a new password leaves the sessions open.
UpdatePasswordOnly(c) ==
  /\ pc[c] = "update" /\ password < MaxChanges
  /\ password' = password + 1
  /\ Return(c)
  /\ UNCHANGED <<session, expired, spared, keyVars, late>>

\* The statement does not ask for the hash that was checked.
UpdatePassword(c) ==
  /\ pc[c] = "update" /\ password < MaxChanges
  /\ password' = password + 1
  /\ Goto(c, "purge")
  /\ UNCHANGED <<session, expired, spared, keyVars, hash, held, late>>

\* The error of DeleteAllForUser is ignored.
DeleteAllForUser(c) ==
  /\ pc[c] = "purge"
  /\ Return(c)
  /\ \/ Close(Sessions)
     \/ spared' = spared \cup Opened /\ UNCHANGED <<session, expired>>
  /\ UNCHANGED <<password, keyVars, late>>

LogoutAll == Close(Sessions) /\ UNCHANGED <<password, keyVars, pc, hash, held, late>>

Logout(s) ==
  /\ session[s] # NoSession
  /\ Close({s})
  /\ UNCHANGED <<password, keyVars, pc, hash, held, late>>

Expire(s) ==
  /\ session[s] # NoSession
  /\ expired' = expired \cup {s}
  /\ UNCHANGED <<password, session, spared, keyVars, pc, hash, held, late>>

\* A session that has expired is deleted when it is used.
ValidateSession(s) == s \in expired /\ Logout(s)

-----------------------------------------------------------------------------
(* The key for deployments: DefaultAPIKeyManager and apiKeyService. *)

\* Mutant: the stored key is not looked for.
AlwaysCreateForDeployment(c) ==
  /\ pc[c] = "idle"
  /\ Reads(c, NoHash, NoKey, "create")
  /\ late' = late \ {c}
  /\ UNCHANGED <<userVars, keyVars>>

\* getStoredKey; a failed read counts as no key.
GetOrCreateForDeployment(c) ==
  /\ pc[c] = "idle"
  /\ \/ /\ Reads(c, NoHash, stored, IF stored = NoKey THEN "create" ELSE "validate")
        /\ late' = late \ {c}
     \/ /\ Reads(c, NoHash, NoKey, "create")
        /\ late' = late \cup {c}
  /\ UNCHANGED <<userVars, keyVars>>

\* A failed look-up counts as a dead key.
Validate(c) ==
  /\ pc[c] = "validate"
  /\ \/ row[held[c]] = "live" /\ Return(c) /\ UNCHANGED late
     \/ row[held[c]] = "dead" /\ Goto(c, "forget") /\ UNCHANGED <<hash, held, late>>
     \/ Goto(c, "forget") /\ late' = late \cup {c} /\ UNCHANGED <<hash, held>>
  /\ UNCHANGED <<userVars, keyVars>>

\* What c takes out of OpenBao, if it may know no better.
Displaced(c) == IF c \in late THEN {stored} \ {NoKey} ELSE {}

\* deleteStoredKey, whose error is ignored.
DeleteStoredKey(c) ==
  /\ pc[c] = "forget"
  /\ Goto(c, "create")
  /\ \/ stored' = NoKey /\ astray' = astray \cup Displaced(c)
     \/ UNCHANGED <<stored, astray>>
  /\ UNCHANGED <<userVars, row, hash, held, late>>

\* Mutant: an error of the insertion is ignored.
CreateLenient(c, k) ==
  /\ pc[c] = "create" /\ row[k] = "unused"
  /\ \/ row' = [row EXCEPT ![k] = "live"]
     \/ UNCHANGED row
  /\ Reads(c, NoHash, k, "store")
  /\ UNCHANGED <<userVars, stored, astray, late>>

Create(c, k) ==
  /\ pc[c] = "create" /\ row[k] = "unused"
  /\ row' = [row EXCEPT ![k] = "live"]
  /\ Reads(c, NoHash, k, "store")
  /\ UNCHANGED <<userVars, stored, astray, late>>

\* A failure to store the key is only logged.
StoreKey(c) ==
  /\ pc[c] = "store"
  /\ \/ /\ stored' = held[c]
        /\ astray' = astray \cup Displaced(c)
        /\ late' = late \cup (Calls \ {c})
     \/ astray' = astray \cup {held[c]} /\ UNCHANGED <<stored, late>>
  /\ Return(c)
  /\ UNCHANGED <<userVars, row>>

\* An administrator's Revoke or Delete.
Revoke(k) ==
  /\ row[k] = "live"
  /\ row' = [row EXCEPT ![k] = "dead"]
  /\ UNCHANGED <<userVars, stored, astray, pc, hash, held, late>>

\* The statement that comes next fails, or the process ends.  A key that was
\* created is then not stored.
Fail(c) ==
  /\ pc[c] \notin {"idle", "purge", "store"}
  /\ Return(c)
  /\ UNCHANGED <<userVars, keyVars, late>>

Next ==
  \/ \E c \in Calls :
       \/ Login(c) \/ HandleCallback(c)
       \/ \E s \in Sessions : CreateSession(c, s)
       \/ ChangePassword(c) \/ UpdatePassword(c) \/ DeleteAllForUser(c)
       \/ GetOrCreateForDeployment(c) \/ Validate(c) \/ DeleteStoredKey(c)
       \/ \E k \in Keys : Create(c, k)
       \/ StoreKey(c)
       \/ Fail(c)
  \/ LogoutAll
  \/ \E s \in Sessions : Logout(s) \/ Expire(s) \/ ValidateSession(s)
  \/ \E k \in Keys : Revoke(k)

Spec == Init /\ [][Next]_vars

-----------------------------------------------------------------------------
\* ChangePassword: a new password closes the sessions of the old ones.  One that
\* is still open was opened by a login that had read the old hash, or was left by
\* a DeleteAllForUser that failed, or is about to be closed.
OldPasswordIsOut ==
  \A s \in Opened :
    \/ session[s] \in {password, ByProvider}
    \/ s \in spared
    \/ \E c \in Calls : pc[c] = "purge"

\* GetOrCreateForDeployment keeps one key for an organization: a live key that
\* OpenBao does not hold is about to be stored, or went astray for one of the
\* reasons the history names.  So if nothing fails and no two deployments ask
\* at a time, no more than one key is live.
OrphansAreExplained ==
  \A k \in Live : k = stored \/ k \in astray \/ \E c \in Calls : pc[c] = "store" /\ held[c] = k
=============================================================================
