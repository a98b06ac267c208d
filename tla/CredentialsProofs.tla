--------------------------- MODULE CredentialsProofs ---------------------------
(***************************************************************************)
(* Proofs about Credentials, for any number of calls, sessions, keys and   *)
(* changes of the password.                                                *)
(***************************************************************************)
EXTENDS Credentials, TLAPS

-----------------------------------------------------------------------------
(* Type correctness.                                                       *)

\* What a call is about to use it has read: a login the hash, a deployment the
\* key; and a key it has read was drawn.
ReadInv ==
  \A c \in Calls :
    /\ pc[c] = "insert" => hash[c] # NoHash
    /\ pc[c] \in {"validate", "store"} => held[c] # NoKey
    /\ held[c] # NoKey => row[held[c]] # "unused"

TypeInv == TypeOK /\ ReadInv

\* Every variable keeps its type.
LEMMA StepType == TypeInv /\ [Next]_vars => TypeInv'
<1>. SUFFICES ASSUME TypeInv, [Next]_vars PROVE TypeInv'
  OBVIOUS
<1>. USE DEF TypeInv, TypeOK, ReadInv, Passwords
<1>1. ASSUME NEW c \in Calls, Login(c) \/ HandleCallback(c) PROVE TypeInv'
  BY <1>1, CredentialsAssumption DEF Login, HandleCallback, Admit, Reads, Goto, userVars, keyVars
<1>2. ASSUME NEW c \in Calls, NEW s \in Sessions, CreateSession(c, s) PROVE TypeInv'
  BY <1>2, CredentialsAssumption DEF CreateSession, Return, Reads, Goto, Opened, keyVars
<1>3. ASSUME NEW c \in Calls, ChangePassword(c) PROVE TypeInv'
  BY <1>3, CredentialsAssumption DEF ChangePassword, Reads, Goto, userVars, keyVars
<1>4. ASSUME NEW c \in Calls, UpdatePassword(c) PROVE TypeInv'
  BY <1>4, CredentialsAssumption DEF UpdatePassword, Goto, keyVars
<1>5. ASSUME NEW c \in Calls, DeleteAllForUser(c) PROVE TypeInv'
  BY <1>5, CredentialsAssumption
     DEF DeleteAllForUser, Return, Reads, Goto, Close, Opened, keyVars
<1>6. ASSUME NEW c \in Calls, GetOrCreateForDeployment(c) PROVE TypeInv'
  BY <1>6, CredentialsAssumption DEF GetOrCreateForDeployment, Reads, Goto, userVars, keyVars
<1>7. ASSUME NEW c \in Calls, Validate(c) PROVE TypeInv'
  BY <1>7, CredentialsAssumption DEF Validate, Return, Reads, Goto, userVars, keyVars
<1>8. ASSUME NEW c \in Calls, DeleteStoredKey(c) PROVE TypeInv'
  BY <1>8, CredentialsAssumption DEF DeleteStoredKey, Displaced, Goto, userVars
<1>9. ASSUME NEW c \in Calls, NEW k \in Keys, Create(c, k) PROVE TypeInv'
  BY <1>9, CredentialsAssumption DEF Create, Reads, Goto, userVars
<1>10. ASSUME NEW c \in Calls, StoreKey(c) PROVE TypeInv'
  BY <1>10, CredentialsAssumption DEF StoreKey, Displaced, Return, Reads, Goto, userVars
<1>11. ASSUME NEW c \in Calls, Fail(c) PROVE TypeInv'
  BY <1>11, CredentialsAssumption DEF Fail, Return, Reads, Goto, userVars, keyVars
<1>12. CASE LogoutAll
  BY <1>12, CredentialsAssumption DEF LogoutAll, Close, keyVars
<1>13. ASSUME NEW s \in Sessions, Logout(s) PROVE TypeInv'
  BY <1>13, CredentialsAssumption DEF Logout, Close, keyVars
<1>14. ASSUME NEW s \in Sessions, Expire(s) PROVE TypeInv'
  BY <1>14, CredentialsAssumption DEF Expire, keyVars
<1>15. ASSUME NEW s \in Sessions, ValidateSession(s) PROVE TypeInv'
  BY <1>15, CredentialsAssumption DEF ValidateSession, Logout, Close, keyVars
<1>16. ASSUME NEW k \in Keys, Revoke(k) PROVE TypeInv'
  BY <1>16, CredentialsAssumption DEF Revoke, userVars
<1>17. CASE UNCHANGED vars
  BY <1>17 DEF vars, userVars, keyVars
<1>. QED  BY <1>1, <1>2, <1>3, <1>4, <1>5, <1>6, <1>7, <1>8, <1>9, <1>10, <1>11, <1>12,
          <1>13, <1>14, <1>15, <1>16, <1>17 DEF Next

\* It holds in every state.
LEMMA TypeInvariant == Spec => []TypeInv
<1>1. Init => TypeInv
  BY CredentialsAssumption DEF Init, TypeInv, TypeOK, ReadInv, Passwords
<1>2. TypeInv /\ [Next]_vars => TypeInv'
  BY StepType
<1>. QED  BY <1>1, <1>2, PTL DEF Spec

\* Every variable keeps its type, whatever the number of calls, sessions, keys
\* and changes of the password.
THEOREM TypeCorrect == Spec => []TypeOK
<1>1. TypeInv => TypeOK
  BY DEF TypeInv
<1>. QED  BY <1>1, TypeInvariant, PTL

-----------------------------------------------------------------------------
(* Sessions.                                                               *)

\* A step opens a session with an old password only through a login that is late.
LEMMA SessionStep == TypeInv /\ OldPasswordIsOut /\ [Next]_vars => OldPasswordIsOut'
<1>. SUFFICES ASSUME TypeInv, OldPasswordIsOut, [Next]_vars PROVE OldPasswordIsOut'
  OBVIOUS
<1>. USE DEF TypeInv, TypeOK, ReadInv, Passwords, OldPasswordIsOut, Opened
<1>1. ASSUME NEW c \in Calls, Login(c) \/ HandleCallback(c) PROVE OldPasswordIsOut'
  BY <1>1, CredentialsAssumption DEF Login, HandleCallback, Admit, Reads, Goto, userVars, keyVars
<1>2. ASSUME NEW c \in Calls, NEW s \in Sessions, CreateSession(c, s) PROVE OldPasswordIsOut'
  BY <1>2, CredentialsAssumption DEF CreateSession, Return, Reads, Goto, Opened, keyVars
<1>3. ASSUME NEW c \in Calls, ChangePassword(c) PROVE OldPasswordIsOut'
  BY <1>3, CredentialsAssumption DEF ChangePassword, Reads, Goto, userVars, keyVars
<1>4. ASSUME NEW c \in Calls, UpdatePassword(c) PROVE OldPasswordIsOut'
  BY <1>4, CredentialsAssumption DEF UpdatePassword, Goto, keyVars
<1>5. ASSUME NEW c \in Calls, DeleteAllForUser(c) PROVE OldPasswordIsOut'
  BY <1>5, CredentialsAssumption
     DEF DeleteAllForUser, Return, Reads, Goto, Close, Opened, keyVars
<1>6. ASSUME NEW c \in Calls, GetOrCreateForDeployment(c) PROVE OldPasswordIsOut'
  BY <1>6, CredentialsAssumption DEF GetOrCreateForDeployment, Reads, Goto, userVars, keyVars
<1>7. ASSUME NEW c \in Calls, Validate(c) PROVE OldPasswordIsOut'
  BY <1>7, CredentialsAssumption DEF Validate, Return, Reads, Goto, userVars, keyVars
<1>8. ASSUME NEW c \in Calls, DeleteStoredKey(c) PROVE OldPasswordIsOut'
  BY <1>8, CredentialsAssumption DEF DeleteStoredKey, Displaced, Goto, userVars
<1>9. ASSUME NEW c \in Calls, NEW k \in Keys, Create(c, k) PROVE OldPasswordIsOut'
  BY <1>9, CredentialsAssumption DEF Create, Reads, Goto, userVars
<1>10. ASSUME NEW c \in Calls, StoreKey(c) PROVE OldPasswordIsOut'
  BY <1>10, CredentialsAssumption DEF StoreKey, Displaced, Return, Reads, Goto, userVars
<1>11. ASSUME NEW c \in Calls, Fail(c) PROVE OldPasswordIsOut'
  BY <1>11, CredentialsAssumption DEF Fail, Return, Reads, Goto, userVars, keyVars
<1>12. CASE LogoutAll
  BY <1>12, CredentialsAssumption DEF LogoutAll, Close, keyVars
<1>13. ASSUME NEW s \in Sessions, Logout(s) PROVE OldPasswordIsOut'
  BY <1>13, CredentialsAssumption DEF Logout, Close, keyVars
<1>14. ASSUME NEW s \in Sessions, Expire(s) PROVE OldPasswordIsOut'
  BY <1>14, CredentialsAssumption DEF Expire, keyVars
<1>15. ASSUME NEW s \in Sessions, ValidateSession(s) PROVE OldPasswordIsOut'
  BY <1>15, CredentialsAssumption DEF ValidateSession, Logout, Close, keyVars
<1>16. ASSUME NEW k \in Keys, Revoke(k) PROVE OldPasswordIsOut'
  BY <1>16, CredentialsAssumption DEF Revoke, userVars
<1>17. CASE UNCHANGED vars
  BY <1>17 DEF vars, userVars, keyVars
<1>. QED  BY <1>1, <1>2, <1>3, <1>4, <1>5, <1>6, <1>7, <1>8, <1>9, <1>10, <1>11, <1>12,
          <1>13, <1>14, <1>15, <1>16, <1>17 DEF Next

\* A change of the password closes the sessions of the old ones, except those a
\* login opens that read the old hash, and those a failed statement leaves.
THEOREM OldPasswordIsAlwaysOut == Spec => []OldPasswordIsOut
<1>1. Init => OldPasswordIsOut
  BY DEF Init, OldPasswordIsOut, Opened
<1>2. TypeInv /\ OldPasswordIsOut /\ [Next]_vars => OldPasswordIsOut'
  BY SessionStep
<1>. QED  BY <1>1, <1>2, TypeInvariant, PTL DEF Spec

-----------------------------------------------------------------------------
(* The key for deployments.                                                *)

\* A deployment that nothing has made late knows what OpenBao holds: no key, a
\* dead one, or the one it is about to look up.
NotLateInv ==
  \A c \in Calls \ late :
    /\ pc[c] = "validate" => stored \in {held[c], NoKey}
    /\ pc[c] \in {"forget", "create", "store"} => stored = NoKey \/ row[stored] = "dead"

\* What it knows stays true until another deployment stores a key.
LEMMA NotLateStep == TypeInv /\ NotLateInv /\ [Next]_vars => NotLateInv'
<1>. SUFFICES ASSUME TypeInv, NotLateInv, [Next]_vars PROVE NotLateInv'
  OBVIOUS
<1>. USE DEF TypeInv, TypeOK, ReadInv, NotLateInv
<1>1. ASSUME NEW c \in Calls, Login(c) \/ HandleCallback(c) PROVE NotLateInv'
  BY <1>1, CredentialsAssumption DEF Login, HandleCallback, Admit, Reads, Goto, userVars, keyVars
<1>2. ASSUME NEW c \in Calls, NEW s \in Sessions, CreateSession(c, s) PROVE NotLateInv'
  BY <1>2, CredentialsAssumption DEF CreateSession, Return, Reads, Goto, Opened, keyVars
<1>3. ASSUME NEW c \in Calls, ChangePassword(c) PROVE NotLateInv'
  BY <1>3, CredentialsAssumption DEF ChangePassword, Reads, Goto, userVars, keyVars
<1>4. ASSUME NEW c \in Calls, UpdatePassword(c) PROVE NotLateInv'
  BY <1>4, CredentialsAssumption DEF UpdatePassword, Goto, keyVars
<1>5. ASSUME NEW c \in Calls, DeleteAllForUser(c) PROVE NotLateInv'
  BY <1>5, CredentialsAssumption
     DEF DeleteAllForUser, Return, Reads, Goto, Close, Opened, keyVars
<1>6. ASSUME NEW c \in Calls, GetOrCreateForDeployment(c) PROVE NotLateInv'
  BY <1>6, CredentialsAssumption DEF GetOrCreateForDeployment, Reads, Goto, userVars, keyVars
<1>7. ASSUME NEW c \in Calls, Validate(c) PROVE NotLateInv'
  BY <1>7, CredentialsAssumption DEF Validate, Return, Reads, Goto, userVars, keyVars
<1>8. ASSUME NEW c \in Calls, DeleteStoredKey(c) PROVE NotLateInv'
  BY <1>8, CredentialsAssumption DEF DeleteStoredKey, Displaced, Goto, userVars
<1>9. ASSUME NEW c \in Calls, NEW k \in Keys, Create(c, k) PROVE NotLateInv'
  BY <1>9, CredentialsAssumption DEF Create, Reads, Goto, userVars
<1>10. ASSUME NEW c \in Calls, StoreKey(c) PROVE NotLateInv'
  BY <1>10, CredentialsAssumption DEF StoreKey, Displaced, Return, Reads, Goto, userVars
<1>11. ASSUME NEW c \in Calls, Fail(c) PROVE NotLateInv'
  BY <1>11, CredentialsAssumption DEF Fail, Return, Reads, Goto, userVars, keyVars
<1>12. CASE LogoutAll
  BY <1>12, CredentialsAssumption DEF LogoutAll, Close, keyVars
<1>13. ASSUME NEW s \in Sessions, Logout(s) PROVE NotLateInv'
  BY <1>13, CredentialsAssumption DEF Logout, Close, keyVars
<1>14. ASSUME NEW s \in Sessions, Expire(s) PROVE NotLateInv'
  BY <1>14, CredentialsAssumption DEF Expire, keyVars
<1>15. ASSUME NEW s \in Sessions, ValidateSession(s) PROVE NotLateInv'
  BY <1>15, CredentialsAssumption DEF ValidateSession, Logout, Close, keyVars
<1>16. ASSUME NEW k \in Keys, Revoke(k) PROVE NotLateInv'
  BY <1>16, CredentialsAssumption DEF Revoke, userVars
<1>17. CASE UNCHANGED vars
  BY <1>17 DEF vars, userVars, keyVars
<1>. QED  BY <1>1, <1>2, <1>3, <1>4, <1>5, <1>6, <1>7, <1>8, <1>9, <1>10, <1>11, <1>12,
          <1>13, <1>14, <1>15, <1>16, <1>17 DEF Next

\* A live key leaves OpenBao only by a deployment that is late.
LEMMA OrphanStep == TypeInv /\ NotLateInv /\ OrphansAreExplained /\ [Next]_vars => OrphansAreExplained'
<1>. SUFFICES ASSUME TypeInv, NotLateInv, OrphansAreExplained, [Next]_vars PROVE OrphansAreExplained'
  OBVIOUS
<1>. USE DEF TypeInv, TypeOK, ReadInv, NotLateInv, OrphansAreExplained, Live
<1>1. ASSUME NEW c \in Calls, Login(c) \/ HandleCallback(c) PROVE OrphansAreExplained'
  BY <1>1, CredentialsAssumption DEF Login, HandleCallback, Admit, Reads, Goto, userVars, keyVars
<1>2. ASSUME NEW c \in Calls, NEW s \in Sessions, CreateSession(c, s) PROVE OrphansAreExplained'
  BY <1>2, CredentialsAssumption DEF CreateSession, Return, Reads, Goto, Opened, keyVars
<1>3. ASSUME NEW c \in Calls, ChangePassword(c) PROVE OrphansAreExplained'
  BY <1>3, CredentialsAssumption DEF ChangePassword, Reads, Goto, userVars, keyVars
<1>4. ASSUME NEW c \in Calls, UpdatePassword(c) PROVE OrphansAreExplained'
  BY <1>4, CredentialsAssumption DEF UpdatePassword, Goto, keyVars
<1>5. ASSUME NEW c \in Calls, DeleteAllForUser(c) PROVE OrphansAreExplained'
  BY <1>5, CredentialsAssumption
     DEF DeleteAllForUser, Return, Reads, Goto, Close, Opened, keyVars
<1>6. ASSUME NEW c \in Calls, GetOrCreateForDeployment(c) PROVE OrphansAreExplained'
  BY <1>6, CredentialsAssumption DEF GetOrCreateForDeployment, Reads, Goto, userVars, keyVars
<1>7. ASSUME NEW c \in Calls, Validate(c) PROVE OrphansAreExplained'
  BY <1>7, CredentialsAssumption DEF Validate, Return, Reads, Goto, userVars, keyVars
<1>8. ASSUME NEW c \in Calls, DeleteStoredKey(c) PROVE OrphansAreExplained'
  BY <1>8, CredentialsAssumption DEF DeleteStoredKey, Displaced, Goto, userVars
<1>9. ASSUME NEW c \in Calls, NEW k \in Keys, Create(c, k) PROVE OrphansAreExplained'
  BY <1>9, CredentialsAssumption DEF Create, Reads, Goto, userVars
<1>10. ASSUME NEW c \in Calls, StoreKey(c) PROVE OrphansAreExplained'
  BY <1>10, CredentialsAssumption DEF StoreKey, Displaced, Return, Reads, Goto, userVars
<1>11. ASSUME NEW c \in Calls, Fail(c) PROVE OrphansAreExplained'
  BY <1>11, CredentialsAssumption DEF Fail, Return, Reads, Goto, userVars, keyVars
<1>12. CASE LogoutAll
  BY <1>12, CredentialsAssumption DEF LogoutAll, Close, keyVars
<1>13. ASSUME NEW s \in Sessions, Logout(s) PROVE OrphansAreExplained'
  BY <1>13, CredentialsAssumption DEF Logout, Close, keyVars
<1>14. ASSUME NEW s \in Sessions, Expire(s) PROVE OrphansAreExplained'
  BY <1>14, CredentialsAssumption DEF Expire, keyVars
<1>15. ASSUME NEW s \in Sessions, ValidateSession(s) PROVE OrphansAreExplained'
  BY <1>15, CredentialsAssumption DEF ValidateSession, Logout, Close, keyVars
<1>16. ASSUME NEW k \in Keys, Revoke(k) PROVE OrphansAreExplained'
  BY <1>16, CredentialsAssumption DEF Revoke, userVars
<1>17. CASE UNCHANGED vars
  BY <1>17 DEF vars, userVars, keyVars
<1>. QED  BY <1>1, <1>2, <1>3, <1>4, <1>5, <1>6, <1>7, <1>8, <1>9, <1>10, <1>11, <1>12,
          <1>13, <1>14, <1>15, <1>16, <1>17 DEF Next

\* A live key that OpenBao does not hold is about to be stored, or went astray.
THEOREM OrphansAreAlwaysExplained == Spec => []OrphansAreExplained
<1>1. Init => NotLateInv /\ OrphansAreExplained
  BY DEF Init, NotLateInv, OrphansAreExplained, Live
<1>2. TypeInv /\ NotLateInv /\ [Next]_vars => NotLateInv'
  BY NotLateStep
<1>3. TypeInv /\ NotLateInv /\ OrphansAreExplained /\ [Next]_vars => OrphansAreExplained'
  BY OrphanStep
<1>. QED  BY <1>1, <1>2, <1>3, TypeInvariant, PTL DEF Spec

=============================================================================
