------------------------------ MODULE Organization ------------------------------
(***************************************************************************)
(* One organization: its members with their roles, its invitations, and    *)
(* the requests of the organization service.  A request is a sequence of   *)
(* reads and one write, each a statement of its own; only the acceptance   *)
(* of an invitation is a transaction, at READ COMMITTED, which does not    *)
(* lock what it has read.  A request that is refused changes nothing and   *)
(* ends; a request may also never go on (a failed statement, a crash),     *)
(* which is no step here, since it leaves nothing half-done.               *)
(* One organization may be the shared one: the configuration names its     *)
(* slug, everybody who logs in joins it, and owners follow the             *)
(* configuration at every login.                                           *)
(***************************************************************************)
EXTENDS Integers, FiniteSets

CONSTANTS
  Users, Founder, \* Founder created the organization
  Lower,          \* the roles below admin: operator and viewer
  Invitations,    \* ids of invitations that can be open
  Guests,         \* bound: the users that invitations are for
  Calls,          \* requests under way at a time
  TeamMembers,    \* the limit of the plan it was created with
  Configured,     \* auth.owner_emails: who owns the shared organization
  DefaultRole,    \* auth.default_role: what everybody else joins it as
  NoRole, NoUser, NoInvitation

ASSUME OrganizationAssumption ==
  /\ Founder \in Users /\ NoUser \notin Users
  /\ {"owner", "admin", NoRole} \cap Lower = {} /\ NoRole \notin {"owner", "admin"}
  /\ NoInvitation \notin Invitations
  /\ NoInvitation \notin [user : Users, role : {"admin"} \cup Lower]
  /\ TeamMembers \in Nat \ {0}
  /\ Guests \subseteq Users /\ Configured \subseteq Users /\ DefaultRole \in {"admin"} \cup Lower
  /\ IsFiniteSet(Users) /\ IsFiniteSet(Invitations) /\ IsFiniteSet(Calls) /\ Calls # {}

VARIABLES
  shared,  \* auth.shared_org is set, and is this organization's slug
  exists,  \* the organization's row
  role,    \* org_members: the role of each user
  open,    \* of each invitation that is pending: for whom, and which role
  pc,      \* what each request does next
  actor, target, wanted, \* whose request it is, as long as that matters, about whom,
           \* and which role it gives; NoRole removes
  chosen,  \* the invitation it is about
  tally,   \* CountMembers, as it read it
  seen,    \* the target's role, as it read it
  power,   \* the actor's role, as it read it
  barred,  \* history: users that were removed when no invitation of theirs was
           \* pending or being accepted and no login under way, and that were
           \* not invited and did not log in since
  current, \* history: requests since whose CountMembers nobody was invited or
           \* joined
  uncounted \* history: users invited last by a request that was not current, or
           \* who joined with an invitation that was no longer pending, as long as
           \* there is a limit

orgVars == <<shared, exists>>
callVars == <<pc, actor, target, wanted, chosen, tally, seen, power>>
histVars == <<barred, current, uncounted>>
vars == <<orgVars, role, open, callVars, histVars>>

Offers == {"admin"} \cup Lower
Roles == {"owner"} \cup Offers

Members == {u \in Users : role[u] # NoRole}
Pending == {i \in Invitations : open[i] # NoInvitation}
Terms == [user : Users, role : Offers]

TypeOK ==
  /\ shared \in BOOLEAN /\ exists \in BOOLEAN
  /\ role \in [Users -> Roles \cup {NoRole}]
  /\ open \in [Invitations -> Terms \cup {NoInvitation}]
  /\ pc \in [Calls -> {"idle", "count", "pending", "member", "invited", "insert", "accept",
                       "target", "actor", "write", "cancel", "delete",
                       "own", "add", "align"}]
  /\ actor \in [Calls -> Users \cup {NoUser}]
  /\ target \in [Calls -> Users \cup {NoUser}]
  /\ wanted \in [Calls -> Roles \cup {NoRole}]
  /\ chosen \in [Calls -> Invitations \cup {NoInvitation}]
  /\ tally \in [Calls -> 0..Cardinality(Users)]
  /\ seen \in [Calls -> Roles \cup {NoRole}]
  /\ power \in [Calls -> Roles \cup {NoRole}]
  /\ barred \subseteq Users /\ current \subseteq Calls /\ uncounted \subseteq Users

\* Create is one transaction: the organization, its owner, a namespace.  The shared
\* organization's founder is who logged in first; their login has gone on to raise
\* the plan to Enterprise, as every login does before it joins.
Init ==
  /\ shared \in BOOLEAN /\ exists = TRUE
  /\ role = [u \in Users |-> IF u = Founder THEN "owner" ELSE NoRole]
  /\ open = [i \in Invitations |-> NoInvitation]
  /\ pc = [c \in Calls |-> "idle"]
  /\ actor = [c \in Calls |-> NoUser]
  /\ target = [c \in Calls |-> NoUser]
  /\ wanted = [c \in Calls |-> NoRole]
  /\ chosen = [c \in Calls |-> NoInvitation]
  /\ tally = [c \in Calls |-> 0]
  /\ seen = [c \in Calls |-> NoRole]
  /\ power = [c \in Calls |-> NoRole]
  /\ barred = {} /\ current = {} /\ uncounted = {}

-----------------------------------------------------------------------------
Goto(c, l) == pc' = [pc EXCEPT ![c] = l]

\* CheckAccess with RoleAdmin.
MayManage(u) == role[u] \in {"owner", "admin"}

\* c starts for user a, about user t, role r and invitation i.
Begin(c, a, t, r, i, l) ==
  /\ pc[c] = "idle"
  /\ Goto(c, l)
  /\ actor' = [actor EXCEPT ![c] = a]
  /\ target' = [target EXCEPT ![c] = t]
  /\ wanted' = [wanted EXCEPT ![c] = r]
  /\ chosen' = [chosen EXCEPT ![c] = i]
  /\ UNCHANGED <<orgVars, role, open, tally, seen, power, current, uncounted>>
  /\ barred' = IF l = "own" THEN barred \ {t} ELSE barred

\* c answers and forgets what it has read.
Return(c) ==
  /\ Goto(c, "idle")
  /\ actor' = [actor EXCEPT ![c] = NoUser]
  /\ target' = [target EXCEPT ![c] = NoUser]
  /\ wanted' = [wanted EXCEPT ![c] = NoRole]
  /\ chosen' = [chosen EXCEPT ![c] = NoInvitation]
  /\ tally' = [tally EXCEPT ![c] = 0]
  /\ seen' = [seen EXCEPT ![c] = NoRole]
  /\ power' = [power EXCEPT ![c] = NoRole]

\* A read that lets c go on to l, without the count, or ends it.
ReadThen(c, here, goOn, l) ==
  /\ pc[c] = here
  /\ \/ /\ goOn /\ Goto(c, l)
        /\ tally' = [tally EXCEPT ![c] = 0]
        /\ UNCHANGED <<actor, target, wanted, chosen, seen, power, current>>
     \/ ~goOn /\ Return(c) /\ current' = current \ {c}
  /\ UNCHANGED <<orgVars, role, open, barred, uncounted>>

-----------------------------------------------------------------------------
(* InviteMember. *)

\* Mutant: the role of an invitation is not checked.
InviteAsAnything(c, a, t, r) ==
  MayManage(a) /\ \E q \in Roles :
    Begin(c, NoUser, t, q, NoInvitation, IF shared THEN "member" ELSE "count")

\* The shared organization's plan has no limit: what is counted is of no
\* consequence there.
InviteMember(c, a, t, r) ==
  /\ MayManage(a) /\ r \in Offers
  /\ Begin(c, NoUser, t, r, NoInvitation, IF shared THEN "member" ELSE "count")

CountMembers(c) ==
  /\ pc[c] = "count"
  /\ tally' = [tally EXCEPT ![c] = Cardinality(Members)]
  /\ current' = current \cup {c}
  /\ Goto(c, "pending")
  /\ UNCHANGED <<orgVars, role, open, actor, target, wanted, chosen, seen, power, barred,
                 uncounted>>

\* Mutant: only members count.
CountPendingIgnored(c) == ReadThen(c, "pending", tally[c] < TeamMembers, "member")

CountPending(c) ==
  ReadThen(c, "pending", tally[c] + Cardinality(Pending) < TeamMembers, "member")

CheckMember(c) == ReadThen(c, "member", role[target[c]] = NoRole, "invited")

CheckInvited(c) ==
  ReadThen(c, "invited", \A i \in Pending : open[i].user # target[c], "insert")

\* A new id, and a new token.  The row refers to the organization, which has to
\* be there still.
Insert(c) ==
  /\ pc[c] = "insert"
  /\ \/ /\ exists
        /\ \E i \in Invitations \ (Pending \cup {chosen[d] : d \in Calls}) :
             open' = [open EXCEPT ![i] = [user |-> target[c], role |-> wanted[c]]]
        /\ barred' = barred \ {target[c]}
        /\ current' = {}
        /\ uncounted' = IF c \in current \/ shared THEN uncounted \ {target[c]}
                        ELSE uncounted \cup {target[c]}
     \/ ~exists /\ current' = current \ {c} /\ UNCHANGED <<open, barred, uncounted>>
  /\ Return(c)
  /\ UNCHANGED <<orgVars, role>>

-----------------------------------------------------------------------------
(* The ends of an invitation.  Once accepted, expired or deleted it is never *)
(* pending again.                                                            *)

Close(i) == open' = [open EXCEPT ![i] = NoInvitation]

\* AcceptInvitation, up to the SELECT of its transaction, which repeats the
\* checks the service has made before.
AcceptInvitation(c, i) ==
  /\ i \in Pending
  /\ Begin(c, open[i].user, open[i].user, open[i].role, i, "accept")

\* UPDATE invitations, INSERT ... ON CONFLICT DO NOTHING, COMMIT.  The UPDATE
\* may find no row any more; nobody looks.
Commit(c) ==
  /\ pc[c] = "accept"
  /\ \/ /\ exists
        /\ Close(chosen[c])
        /\ role' = [role EXCEPT ![actor[c]] = IF @ = NoRole THEN wanted[c] ELSE @]
        /\ current' = {}
        /\ uncounted' = IF chosen[c] \in Pending \/ shared THEN uncounted
                        ELSE uncounted \cup {actor[c]}
     \/ ~exists /\ UNCHANGED <<open, role, current, uncounted>>
  /\ Return(c)
  /\ UNCHANGED <<orgVars, barred>>

\* Of an invitation that is no longer pending, the deletion changes nothing.
CancelInvitation(c, a, i) ==
  /\ MayManage(a) /\ i \in Pending
  /\ Begin(c, NoUser, NoUser, NoRole, i, "cancel")

DeleteInvitation(c) ==
  /\ pc[c] = "cancel"
  /\ Close(chosen[c])
  /\ Return(c)
  /\ UNCHANGED <<orgVars, role, histVars>>

Expire(i) ==
  /\ i \in Pending
  /\ Close(i)
  /\ UNCHANGED <<orgVars, role, callVars, histVars>>

-----------------------------------------------------------------------------
(* RemoveMember and UpdateMemberRole. *)

RemoveMember(c, a, t) == MayManage(a) /\ Begin(c, a, t, NoRole, NoInvitation, "target")

UpdateMemberRole(c, a, t, r) ==
  MayManage(a) /\ r \in Offers /\ Begin(c, a, t, r, NoInvitation, "target")

\* Mutant: the owner is a member like the others.
GetAnyMember(c) ==
  /\ pc[c] = "target"
  /\ \/ /\ role[target[c]] # NoRole
        /\ seen' = [seen EXCEPT ![c] = role[target[c]]]
        /\ Goto(c, "actor")
        /\ UNCHANGED <<actor, target, wanted, chosen, tally, power>>
     \/ role[target[c]] = NoRole /\ Return(c)
  /\ UNCHANGED <<orgVars, role, open, histVars>>

\* GetMember of the target; the owner is left alone.
GetMember(c) ==
  /\ pc[c] = "target"
  /\ \/ /\ role[target[c]] \in Offers
        /\ seen' = [seen EXCEPT ![c] = role[target[c]]]
        /\ Goto(c, "actor")
        /\ UNCHANGED <<actor, target, wanted, chosen, tally, power>>
     \/ role[target[c]] \notin Offers /\ Return(c)
  /\ UNCHANGED <<orgVars, role, open, histVars>>

\* Mutant: an admin may change any member who is not made one.
MayChangeMost(c) ==
  \/ role[actor[c]] = "owner"
  \/ role[actor[c]] # NoRole /\ wanted[c] # "admin"

\* Only the owner touches admins or makes them.
MayChange(c) ==
  \/ role[actor[c]] = "owner"
  \/ role[actor[c]] # NoRole /\ "admin" \notin {seen[c], wanted[c]}

\* GetMemberRole of the actor.
GetMemberRole(c) ==
  /\ pc[c] = "actor"
  /\ \/ /\ MayChange(c)
        /\ power' = [power EXCEPT ![c] = role[actor[c]]]
        /\ actor' = [actor EXCEPT ![c] = NoUser]
        /\ Goto(c, "write")
        /\ UNCHANGED <<target, wanted, chosen, tally, seen>>
     \/ ~MayChange(c) /\ Return(c)
  /\ UNCHANGED <<orgVars, role, open, histVars>>

\* Users for whom an invitation is pending or being accepted, or a login may still
\* insert a row.
Awaited ==
  {open[i].user : i \in Pending}
  \cup {actor[c] : c \in {c \in Calls : pc[c] \in {"accept", "own", "add"}}}

\* DELETE, or UPDATE ... SET role: of the member's row as it is now.
Write(c) ==
  /\ pc[c] = "write"
  /\ role' = [role EXCEPT ![target[c]] = IF @ = NoRole THEN @ ELSE wanted[c]]
  /\ barred' = IF wanted[c] = NoRole THEN barred \cup ({target[c]} \ Awaited) ELSE barred
  /\ Return(c)
  /\ UNCHANGED <<orgVars, open, current, uncounted>>

-----------------------------------------------------------------------------
(* joinSharedOrg, at every login.  Once the organization is gone a login finds  *)
(* nothing under the slug and creates another one.                              *)

RoleFor(u) == IF u \in Configured THEN "owner" ELSE DefaultRole

\* Up to GetBySlug and the plan, which is Enterprise.
JoinSharedOrg(c, u) ==
  /\ shared /\ exists
  /\ Begin(c, u, u, RoleFor(u), NoInvitation, "own")

\* Mutant: every role follows the configuration.
ReadOwnAligningAll(c) ==
  /\ pc[c] = "own"
  /\ LET mine == role[target[c]] IN
     \/ /\ mine # wanted[c]
        /\ Goto(c, IF mine = NoRole THEN "add" ELSE "align")
        /\ seen' = [seen EXCEPT ![c] = mine]
        /\ UNCHANGED <<actor, target, wanted, chosen, tally, power>>
     \/ mine = wanted[c] /\ Return(c)
  /\ UNCHANGED <<orgVars, role, open, histVars>>

\* GetMember: who is no member joins, and a member's role is aligned when one of it
\* and the configured one is the owner's and the other is not.
ReadOwn(c) ==
  /\ pc[c] = "own"
  /\ LET mine == role[target[c]]
         off == (wanted[c] = "owner") # (mine = "owner")
     IN \/ /\ mine = NoRole \/ off
           /\ Goto(c, IF mine = NoRole THEN "add" ELSE "align")
           /\ seen' = [seen EXCEPT ![c] = mine]
           /\ UNCHANGED <<actor, target, wanted, chosen, tally, power>>
        \/ mine # NoRole /\ ~off /\ Return(c)
  /\ UNCHANGED <<orgVars, role, open, histVars>>

\* A plain INSERT: it fails when there is a row already, or no organization.
AddMember(c) ==
  /\ pc[c] = "add"
  /\ role' = [role EXCEPT ![target[c]] = IF exists /\ @ = NoRole THEN wanted[c] ELSE @]
  /\ Return(c)
  /\ UNCHANGED <<orgVars, open, histVars>>

\* Mutant: the role is written as an upsert.
AlignUpsert(c) ==
  /\ pc[c] = "align"
  /\ role' = [role EXCEPT ![target[c]] = wanted[c]]
  /\ Return(c)
  /\ UNCHANGED <<orgVars, open, histVars>>

\* UPDATE ... SET role, of the row as it is now.
AlignRole(c) ==
  /\ pc[c] = "align"
  /\ role' = [role EXCEPT ![target[c]] = IF @ = NoRole THEN @ ELSE wanted[c]]
  /\ Return(c)
  /\ UNCHANGED <<orgVars, open, histVars>>

-----------------------------------------------------------------------------
(* Delete: the organization with everything that refers to it. *)

Delete(c, a) == role[a] = "owner" /\ Begin(c, NoUser, NoUser, NoRole, NoInvitation, "delete")

DeleteAll(c) ==
  /\ pc[c] = "delete"
  /\ exists' = FALSE /\ UNCHANGED shared
  /\ role' = [u \in Users |-> NoRole]
  /\ open' = [i \in Invitations |-> NoInvitation]
  /\ Return(c)
  /\ UNCHANGED histVars
-----------------------------------------------------------------------------
Step(c) ==
  \/ \E a, t \in Users : RemoveMember(c, a, t)
  \/ \E a, t \in Users, r \in Offers : UpdateMemberRole(c, a, t, r)
  \/ \E a \in Users, t \in Guests, r \in Offers : InviteMember(c, a, t, r)
  \/ \E i \in Invitations : AcceptInvitation(c, i) \/ \E a \in Users : CancelInvitation(c, a, i)
  \/ \E a \in Users : Delete(c, a)
  \/ CountMembers(c) \/ CountPending(c) \/ CheckMember(c) \/ CheckInvited(c) \/ Insert(c)
  \/ Commit(c) \/ DeleteInvitation(c)
  \/ GetMember(c) \/ GetMemberRole(c) \/ Write(c)
  \/ \E u \in Users : JoinSharedOrg(c, u)
  \/ ReadOwn(c) \/ AddMember(c) \/ AlignRole(c)
  \/ DeleteAll(c)

Next == (\E c \in Calls : Step(c)) \/ (\E i \in Invitations : Expire(i))

Spec == Init /\ [][Next]_vars

-----------------------------------------------------------------------------
(* Properties. *)

Owners == {u \in Users : role[u] = "owner"}

\* As long as it exists the founder, and nobody else, owns an organization that is
\* not the shared one, and nobody but its founder and the configured owners owns
\* the shared one, whatever requests race: roles are read, and rows written, at
\* different times.  Nobody is a member, and no invitation is open, of one that is
\* gone, whoever logs in meanwhile.
OwnersAreNamed ==
  IF exists THEN IF shared THEN Owners \subseteq Configured \cup {Founder} ELSE Owners = {Founder}
  ELSE Members = {} /\ Pending = {}

\* A step after which an owner is none, or an admin neither admin nor owner.
RankFalls ==
  \A u \in Users :
    exists' /\ role[u] \in {"owner", "admin"} /\ role'[u] \notin {"owner", role[u]} =>
      \E c \in Calls :
        /\ pc[c] \in {"write", "align"} /\ pc'[c] = "idle" /\ target[c] = u
        /\ \/ seen[c] # role[u]
           \/ pc[c] = "write" /\ role[u] = "admin" /\ power[c] = "owner"
           \/ pc[c] = "align" /\ role[u] = "owner" /\ u \notin Configured

\* An admin is removed or demoted by an owner only, never by a login; an owner is
\* never removed, and demoted only by their own login when the configuration does
\* not name them.  The exception is a request or a login that had read another role,
\* before the member got this one.
RanksFallByRight == [][RankFalls]_vars

\* Who holds a seat: members, and users with a pending invitation.
Seats == Members \cup {open[i].user : i \in Pending}

\* Members and invited users exceed the plan's limit only by users whose
\* invitation came late or was gone: the two counts are read at different moments,
\* before the row is inserted, and an invitation may be deleted or expire, and
\* make room for another, while it is being accepted.  A request that nobody
\* overtook never adds a seat beyond the limit, whatever happened before it.  The
\* shared organization has no limit.
LimitHolds == shared \/ Cardinality(Seats \ uncounted) <= TeamMembers

\* A removed member stays out until they are invited again, or until their next
\* login when the organization is the shared one: an invitation they used, or that
\* was cancelled or expired, does not let them in a second time, and neither does a
\* login that had found them a member.
RemovedStaysOut == \A u \in barred : role[u] = NoRole

\* Who may still join, or get an owner's rank: by a pending invitation, by one they
\* are accepting, or by a login under way.
Joining == {c \in Calls : pc[c] \in {"accept", "own", "add", "align"}}
Outstanding ==
  {<<open[i].user, open[i].role>> : i \in Pending} \cup {<<actor[c], wanted[c]>> : c \in Joining}

\* What a login makes of each user.
Entry == [u \in Users |-> IF shared THEN RoleFor(u) ELSE NoRole]

Service == INSTANCE Membership WITH
  People <- Users, Owner <- Founder, Ranks <- Offers, OwnerRank <- "owner",
  Outside <- NoRole, standing <- exists, rank <- role, offers <- Outstanding,
  entry <- Entry

\* OrganizationService and joinSharedOrg, whose requests read and write at different
\* moments, do in one moment each what Membership says: everybody but the founder
\* joins by an invitation, also when it is cancelled, expires or is overtaken
\* meanwhile, or by a login, with the role that the one names or the other gives;
\* the owner's rank is given and taken by logins only, as the configuration says,
\* except that a request that is late may take it from somebody the configuration
\* gives it back to; and nobody comes back when the organization is gone.
ServesMembership == Service!Spec
=============================================================================
