--------------------------- MODULE OrganizationProofs ---------------------------
(***************************************************************************)
(* Proofs about Organization, for any number of users, invitations and     *)
(* requests and any limit.                                                 *)
(***************************************************************************)
EXTENDS Organization, FiniteSetTheorems, FunctionTheorems, TLAPS

-----------------------------------------------------------------------------
(* Type correctness.                                                       *)

\* What a request is about, while it is under way.
CallInv ==
  \A c \in Calls :
    /\ pc[c] \in {"member", "invited", "insert", "target", "actor", "write"} => target[c] \in Users
    /\ pc[c] \in {"count", "pending"} => target[c] \in Users
    /\ pc[c] \in {"target", "actor", "accept"} => actor[c] \in Users
    /\ pc[c] \in {"count", "pending", "member", "invited", "insert", "accept"} => wanted[c] \in Offers
    /\ pc[c] \in {"target", "actor", "write"} => wanted[c] \in Offers \cup {NoRole}
    /\ pc[c] \in {"own", "add", "align"} =>
         shared /\ target[c] \in Users /\ actor[c] = target[c] /\ wanted[c] = RoleFor(target[c])
    /\ pc[c] \in {"accept", "cancel"} => chosen[c] \in Invitations
    /\ pc[c] \in {"actor", "write"} => seen[c] \in Offers

TypeInv == TypeOK /\ CallInv

\* The users are finitely many, and so are the members.
LEMMA MembersAreCounted == Cardinality(Members) \in 0..Cardinality(Users)
<1>1. Members \in SUBSET Users
  BY DEF Members
<1>2. IsFiniteSet(Members) /\ Cardinality(Members) <= Cardinality(Users) /\ Cardinality(Users) \in Nat
  BY <1>1, FS_Subset, FS_CardinalityType, OrganizationAssumption
<1>3. Cardinality(Members) \in Nat
  BY <1>2, FS_CardinalityType
<1>. QED  BY <1>2, <1>3

\* The configuration stays.
LEMMA SharedStays == [Next]_vars => shared' = shared
BY DEF Next, Step, RemoveMember, InviteMember, UpdateMemberRole, AcceptInvitation,
       CancelInvitation, Delete, Begin, CountMembers, CountPending, CheckMember, CheckInvited,
       ReadThen, Insert, Commit, DeleteInvitation, GetMember, GetMemberRole, Write, JoinSharedOrg,
       ReadOwn, AddMember, AlignRole, DeleteAll, Expire, vars, orgVars

\* A read of an invitation's checks keeps the types.
LEMMA ReadThenType ==
  ASSUME TypeInv, NEW c \in Calls, NEW goOn, NEW here, NEW l, ReadThen(c, here, goOn, l),
         here \in {"pending", "member", "invited"}, l \in {"member", "invited", "insert"}
  PROVE  TypeInv'
<1>0. 0 \in 0..Cardinality(Users)
  BY FS_CardinalityType, OrganizationAssumption
<1>1. CASE tally' = [tally EXCEPT ![c] = 0] /\ Goto(c, l)
           /\ UNCHANGED <<actor, target, wanted, chosen, seen, power, current>>
  BY <1>0, <1>1 DEF ReadThen, Goto, TypeInv, TypeOK, CallInv, Offers, Roles, Terms, orgVars
<1>2. CASE Return(c) /\ current' = current \ {c}
  BY <1>0, <1>2 DEF ReadThen, Return, Goto, TypeInv, TypeOK, CallInv, Offers, Roles, Terms, orgVars
<1>. QED  BY <1>1, <1>2 DEF ReadThen, Goto, TypeInv, TypeOK

\* Every variable keeps its type.
LEMMA StepType == TypeInv /\ [Next]_vars => TypeInv'
<1>. SUFFICES ASSUME TypeInv, [Next]_vars PROVE TypeInv'
  OBVIOUS
<1>0. 0 \in 0..Cardinality(Users)
  BY FS_CardinalityType, OrganizationAssumption
<1>. USE DEF TypeInv, TypeOK, CallInv, Offers, Roles, Terms, Pending, orgVars
<1>1. ASSUME NEW c \in Calls, NEW a \in Users, NEW t \in Users, RemoveMember(c, a, t)
      PROVE TypeInv'
  BY <1>1, OrganizationAssumption, <1>0 DEF RemoveMember, Begin, Goto, histVars
<1>2. ASSUME NEW c \in Calls, NEW a \in Users, NEW t \in Guests, NEW r \in Offers, InviteMember(c, a, t, r)
      PROVE TypeInv'
  BY <1>2, OrganizationAssumption, <1>0 DEF InviteMember, Begin, Goto, histVars
<1>3. ASSUME NEW c \in Calls, NEW a \in Users, NEW t \in Users, NEW r \in Offers, UpdateMemberRole(c, a, t, r)
      PROVE TypeInv'
  BY <1>3, OrganizationAssumption, <1>0 DEF UpdateMemberRole, Begin, Goto, histVars
<1>4. ASSUME NEW c \in Calls, NEW i \in Invitations, AcceptInvitation(c, i) PROVE TypeInv'
  BY <1>4, OrganizationAssumption, <1>0 DEF AcceptInvitation, Begin, Goto, histVars
<1>5. ASSUME NEW c \in Calls, NEW a \in Users, NEW i \in Invitations, CancelInvitation(c, a, i)
      PROVE TypeInv'
  BY <1>5, OrganizationAssumption, <1>0 DEF CancelInvitation, Begin, Goto, histVars
<1>6. ASSUME NEW c \in Calls, NEW a \in Users, Delete(c, a) PROVE TypeInv'
  BY <1>6, OrganizationAssumption, <1>0 DEF Delete, Begin, Goto, histVars
<1>7. ASSUME NEW c \in Calls, CountMembers(c) PROVE TypeInv'
  BY <1>7, OrganizationAssumption, <1>0, MembersAreCounted DEF CountMembers, Goto
<1>8. ASSUME NEW c \in Calls, CountPending(c) PROVE TypeInv'
  <2>. HIDE DEF TypeInv, TypeOK, CallInv
  <2>. QED  BY <1>8, ReadThenType DEF CountPending
<1>9. ASSUME NEW c \in Calls, CheckMember(c) PROVE TypeInv'
  <2>. HIDE DEF TypeInv, TypeOK, CallInv
  <2>. QED  BY <1>9, ReadThenType DEF CheckMember
<1>10. ASSUME NEW c \in Calls, CheckInvited(c) PROVE TypeInv'
  <2>. HIDE DEF TypeInv, TypeOK, CallInv
  <2>. QED  BY <1>10, ReadThenType DEF CheckInvited
<1>11. ASSUME NEW c \in Calls, Insert(c) PROVE TypeInv'
  BY <1>11, OrganizationAssumption, <1>0 DEF Insert, Return, Goto
<1>12. ASSUME NEW c \in Calls, Commit(c) PROVE TypeInv'
  BY <1>12, OrganizationAssumption, <1>0 DEF Commit, Close, Return, Goto
<1>13. ASSUME NEW c \in Calls, DeleteInvitation(c) PROVE TypeInv'
  BY <1>13, OrganizationAssumption, <1>0 DEF DeleteInvitation, Close, Return, Goto, histVars
<1>14. ASSUME NEW c \in Calls, GetMember(c) PROVE TypeInv'
  BY <1>14, OrganizationAssumption, <1>0 DEF GetMember, Return, Goto, histVars
<1>15. ASSUME NEW c \in Calls, GetMemberRole(c) PROVE TypeInv'
  BY <1>15, OrganizationAssumption, <1>0 DEF GetMemberRole, MayChange, Return, Goto, histVars
<1>16. ASSUME NEW c \in Calls, Write(c) PROVE TypeInv'
  BY <1>16, OrganizationAssumption, <1>0 DEF Write, Return, Goto
<1>17. ASSUME NEW c \in Calls, DeleteAll(c) PROVE TypeInv'
  BY <1>17, OrganizationAssumption, <1>0 DEF DeleteAll, Return, Goto, histVars
<1>18. ASSUME NEW i \in Invitations, Expire(i) PROVE TypeInv'
  BY <1>18, OrganizationAssumption, <1>0 DEF Expire, Close, callVars, histVars
<1>19. CASE UNCHANGED vars
  BY <1>19 DEF vars, callVars, histVars
<1>20. ASSUME NEW c \in Calls, NEW u \in Users, JoinSharedOrg(c, u) PROVE TypeInv'
  BY <1>20, OrganizationAssumption, <1>0 DEF JoinSharedOrg, RoleFor, Begin, Goto
<1>21. ASSUME NEW c \in Calls, ReadOwn(c) PROVE TypeInv'
  BY <1>21, OrganizationAssumption, <1>0 DEF ReadOwn, RoleFor, Return, Goto, histVars
<1>22. ASSUME NEW c \in Calls, AddMember(c) PROVE TypeInv'
  BY <1>22, OrganizationAssumption, <1>0 DEF AddMember, RoleFor, Return, Goto, histVars
<1>23. ASSUME NEW c \in Calls, AlignRole(c) PROVE TypeInv'
  BY <1>23, OrganizationAssumption, <1>0 DEF AlignRole, RoleFor, Return, Goto, histVars
<1>. QED  BY <1>1, <1>2, <1>3, <1>4, <1>5, <1>6, <1>7, <1>8, <1>9, <1>10, <1>11, <1>12,
          <1>13, <1>14, <1>15, <1>16, <1>17, <1>18, <1>19, <1>20, <1>21, <1>22, <1>23
          DEF Next, Step

\* It holds in every state.
LEMMA TypeInvariant == Spec => []TypeInv
<1>1. Init => TypeInv
  <2>1. 0 \in 0..Cardinality(Users)
    BY FS_CardinalityType, OrganizationAssumption
  <2>. QED  BY <2>1, OrganizationAssumption
     DEF Init, TypeInv, TypeOK, CallInv, Offers, Roles, Terms
<1>2. TypeInv /\ [Next]_vars => TypeInv'
  BY StepType
<1>. QED  BY <1>1, <1>2, PTL DEF Spec

\* Every variable keeps its type, whatever the constants.
THEOREM TypeCorrect == Spec => []TypeOK
<1>1. TypeInv => TypeOK
  BY DEF TypeInv
<1>. QED  BY <1>1, TypeInvariant, PTL

-----------------------------------------------------------------------------
(* Roles.                                                                  *)

\* A request that has read the target's role is about an owner only when the
\* configuration made them one since; one that has read the actor's is an owner's or
\* about a member it saw below the admins; and a login that writes a role has seen
\* the owner's and gives another, or the other way round.
RoleInv ==
  /\ OwnersAreNamed
  /\ \A c \in Calls :
       /\ pc[c] \in {"actor", "write"} /\ role[target[c]] = "owner" =>
            shared /\ target[c] \in Configured
       /\ pc[c] = "write" => power[c] = "owner" \/ seen[c] \in Lower
       /\ pc[c] = "align" => (wanted[c] = "owner") # (seen[c] = "owner")

\* No step makes another owner but a login, and no other lets the founder go.
LEMMA RoleStep == TypeInv /\ RoleInv /\ [Next]_vars => RoleInv'
<1>. SUFFICES ASSUME TypeInv, RoleInv, [Next]_vars PROVE RoleInv'
  OBVIOUS
<1>. USE DEF TypeInv, TypeOK, CallInv, Offers, Roles, Terms, Pending, Members, RoleInv, OwnersAreNamed, Owners, orgVars
<1>1. ASSUME NEW c \in Calls, NEW a \in Users, NEW t \in Users, RemoveMember(c, a, t)
      PROVE RoleInv'
  BY <1>1, OrganizationAssumption DEF RemoveMember, Begin, Goto, histVars
<1>2. ASSUME NEW c \in Calls, NEW a \in Users, NEW t \in Guests, NEW r \in Offers, InviteMember(c, a, t, r)
      PROVE RoleInv'
  BY <1>2, OrganizationAssumption DEF InviteMember, Begin, Goto, histVars
<1>3. ASSUME NEW c \in Calls, NEW a \in Users, NEW t \in Users, NEW r \in Offers, UpdateMemberRole(c, a, t, r)
      PROVE RoleInv'
  BY <1>3, OrganizationAssumption DEF UpdateMemberRole, Begin, Goto, histVars
<1>4. ASSUME NEW c \in Calls, NEW i \in Invitations, AcceptInvitation(c, i) PROVE RoleInv'
  BY <1>4, OrganizationAssumption DEF AcceptInvitation, Begin, Goto, histVars
<1>5. ASSUME NEW c \in Calls, NEW a \in Users, NEW i \in Invitations, CancelInvitation(c, a, i)
      PROVE RoleInv'
  BY <1>5, OrganizationAssumption DEF CancelInvitation, Begin, Goto, histVars
<1>6. ASSUME NEW c \in Calls, NEW a \in Users, Delete(c, a) PROVE RoleInv'
  BY <1>6, OrganizationAssumption DEF Delete, Begin, Goto, histVars
<1>7. ASSUME NEW c \in Calls, CountMembers(c) PROVE RoleInv'
  BY <1>7, OrganizationAssumption DEF CountMembers, Goto
<1>8. ASSUME NEW c \in Calls, CountPending(c) PROVE RoleInv'
  BY <1>8, OrganizationAssumption DEF CountPending, ReadThen, Return, Goto
<1>9. ASSUME NEW c \in Calls, CheckMember(c) PROVE RoleInv'
  BY <1>9, OrganizationAssumption DEF CheckMember, ReadThen, Return, Goto
<1>10. ASSUME NEW c \in Calls, CheckInvited(c) PROVE RoleInv'
  BY <1>10, OrganizationAssumption DEF CheckInvited, ReadThen, Return, Goto
<1>11. ASSUME NEW c \in Calls, Insert(c) PROVE RoleInv'
  BY <1>11, OrganizationAssumption DEF Insert, Return, Goto
<1>12. ASSUME NEW c \in Calls, Commit(c) PROVE RoleInv'
  BY <1>12, OrganizationAssumption DEF Commit, Close, Return, Goto
<1>13. ASSUME NEW c \in Calls, DeleteInvitation(c) PROVE RoleInv'
  BY <1>13, OrganizationAssumption DEF DeleteInvitation, Close, Return, Goto, histVars
<1>14. ASSUME NEW c \in Calls, GetMember(c) PROVE RoleInv'
  BY <1>14, OrganizationAssumption DEF GetMember, Return, Goto, histVars
<1>15. ASSUME NEW c \in Calls, GetMemberRole(c) PROVE RoleInv'
  BY <1>15, OrganizationAssumption DEF GetMemberRole, MayChange, Return, Goto, histVars
<1>16. ASSUME NEW c \in Calls, Write(c) PROVE RoleInv'
  BY <1>16, OrganizationAssumption DEF Write, Return, Goto
<1>17. ASSUME NEW c \in Calls, DeleteAll(c) PROVE RoleInv'
  BY <1>17, OrganizationAssumption DEF DeleteAll, Return, Goto, histVars
<1>18. ASSUME NEW i \in Invitations, Expire(i) PROVE RoleInv'
  BY <1>18, OrganizationAssumption DEF Expire, Close, callVars, histVars
<1>19. CASE UNCHANGED vars
  BY <1>19 DEF vars, callVars, histVars
<1>20. ASSUME NEW c \in Calls, NEW u \in Users, JoinSharedOrg(c, u) PROVE RoleInv'
  BY <1>20, OrganizationAssumption DEF JoinSharedOrg, RoleFor, Begin, Goto
<1>21. ASSUME NEW c \in Calls, ReadOwn(c) PROVE RoleInv'
  BY <1>21, OrganizationAssumption DEF ReadOwn, RoleFor, Return, Goto, histVars
<1>22. ASSUME NEW c \in Calls, AddMember(c) PROVE RoleInv'
  BY <1>22, OrganizationAssumption DEF AddMember, RoleFor, Return, Goto, histVars
<1>23. ASSUME NEW c \in Calls, AlignRole(c) PROVE RoleInv'
  BY <1>23, OrganizationAssumption DEF AlignRole, RoleFor, Return, Goto, histVars
<1>. QED  BY <1>1, <1>2, <1>3, <1>4, <1>5, <1>6, <1>7, <1>8, <1>9, <1>10, <1>11, <1>12,
          <1>13, <1>14, <1>15, <1>16, <1>17, <1>18, <1>19, <1>20, <1>21, <1>22, <1>23
          DEF Next, Step

\* It holds in every state.
LEMMA RoleInvariant == Spec => []RoleInv
<1>1. Init => RoleInv
  BY OrganizationAssumption DEF Init, RoleInv, OwnersAreNamed, Owners, orgVars
<1>2. TypeInv /\ RoleInv /\ [Next]_vars => RoleInv'
  BY RoleStep
<1>. QED  BY <1>1, <1>2, TypeInvariant, PTL DEF Spec

\* Nobody owns the organization but its founder and, when it is the shared one, those
\* the configuration names.
THEOREM OwnersAlwaysAreNamed == Spec => []OwnersAreNamed
<1>1. RoleInv => OwnersAreNamed
  BY DEF RoleInv
<1>. QED  BY <1>1, RoleInvariant, PTL

\* Only a write takes a role away.
LEMMA RankStep == TypeInv /\ RoleInv /\ [Next]_vars => RankFalls
<1>. SUFFICES ASSUME TypeInv, RoleInv, [Next]_vars PROVE RankFalls
  OBVIOUS
<1>. USE DEF TypeInv, TypeOK, CallInv, RoleInv, RankFalls, Offers, Roles, orgVars
<1>1. ASSUME NEW c \in Calls, NEW a \in Users, NEW t \in Users, RemoveMember(c, a, t)
      PROVE RankFalls
  BY <1>1, OrganizationAssumption DEF RemoveMember, Begin, Goto, histVars
<1>2. ASSUME NEW c \in Calls, NEW a \in Users, NEW t \in Guests, NEW r \in Offers, InviteMember(c, a, t, r)
      PROVE RankFalls
  BY <1>2, OrganizationAssumption DEF InviteMember, Begin, Goto, histVars
<1>3. ASSUME NEW c \in Calls, NEW a \in Users, NEW t \in Users, NEW r \in Offers, UpdateMemberRole(c, a, t, r)
      PROVE RankFalls
  BY <1>3, OrganizationAssumption DEF UpdateMemberRole, Begin, Goto, histVars
<1>4. ASSUME NEW c \in Calls, NEW i \in Invitations, AcceptInvitation(c, i) PROVE RankFalls
  BY <1>4, OrganizationAssumption DEF AcceptInvitation, Begin, Goto, histVars
<1>5. ASSUME NEW c \in Calls, NEW a \in Users, NEW i \in Invitations, CancelInvitation(c, a, i)
      PROVE RankFalls
  BY <1>5, OrganizationAssumption DEF CancelInvitation, Begin, Goto, histVars
<1>6. ASSUME NEW c \in Calls, NEW a \in Users, Delete(c, a) PROVE RankFalls
  BY <1>6, OrganizationAssumption DEF Delete, Begin, Goto, histVars
<1>7. ASSUME NEW c \in Calls, CountMembers(c) PROVE RankFalls
  BY <1>7, OrganizationAssumption DEF CountMembers, Goto
<1>8. ASSUME NEW c \in Calls, CountPending(c) PROVE RankFalls
  BY <1>8, OrganizationAssumption DEF CountPending, ReadThen, Return, Goto
<1>9. ASSUME NEW c \in Calls, CheckMember(c) PROVE RankFalls
  BY <1>9, OrganizationAssumption DEF CheckMember, ReadThen, Return, Goto
<1>10. ASSUME NEW c \in Calls, CheckInvited(c) PROVE RankFalls
  BY <1>10, OrganizationAssumption DEF CheckInvited, ReadThen, Return, Goto
<1>11. ASSUME NEW c \in Calls, Insert(c) PROVE RankFalls
  BY <1>11, OrganizationAssumption DEF Insert, Return, Goto
<1>12. ASSUME NEW c \in Calls, Commit(c) PROVE RankFalls
  BY <1>12, OrganizationAssumption DEF Commit, Close, Return, Goto
<1>13. ASSUME NEW c \in Calls, DeleteInvitation(c) PROVE RankFalls
  BY <1>13, OrganizationAssumption DEF DeleteInvitation, Close, Return, Goto, histVars
<1>14. ASSUME NEW c \in Calls, GetMember(c) PROVE RankFalls
  BY <1>14, OrganizationAssumption DEF GetMember, Return, Goto, histVars
<1>15. ASSUME NEW c \in Calls, GetMemberRole(c) PROVE RankFalls
  BY <1>15, OrganizationAssumption DEF GetMemberRole, MayChange, Return, Goto, histVars
<1>16. ASSUME NEW c \in Calls, Write(c) PROVE RankFalls
  BY <1>16, OrganizationAssumption DEF Write, Return, Goto
<1>17. ASSUME NEW c \in Calls, DeleteAll(c) PROVE RankFalls
  BY <1>17, OrganizationAssumption DEF DeleteAll, Return, Goto, histVars
<1>18. ASSUME NEW i \in Invitations, Expire(i) PROVE RankFalls
  BY <1>18, OrganizationAssumption DEF Expire, Close, callVars, histVars
<1>19. CASE UNCHANGED vars
  BY <1>19 DEF vars, callVars, histVars
<1>20. ASSUME NEW c \in Calls, NEW u \in Users, JoinSharedOrg(c, u) PROVE RankFalls
  BY <1>20, OrganizationAssumption DEF JoinSharedOrg, RoleFor, Begin, Goto
<1>21. ASSUME NEW c \in Calls, ReadOwn(c) PROVE RankFalls
  BY <1>21, OrganizationAssumption DEF ReadOwn, RoleFor, Return, Goto, histVars
<1>22. ASSUME NEW c \in Calls, AddMember(c) PROVE RankFalls
  BY <1>22, OrganizationAssumption DEF AddMember, RoleFor, Return, Goto, histVars
<1>23. ASSUME NEW c \in Calls, AlignRole(c) PROVE RankFalls
  BY <1>23, OrganizationAssumption DEF AlignRole, RoleFor, Return, Goto, histVars
<1>. QED  BY <1>1, <1>2, <1>3, <1>4, <1>5, <1>6, <1>7, <1>8, <1>9, <1>10, <1>11, <1>12,
          <1>13, <1>14, <1>15, <1>16, <1>17, <1>18, <1>19, <1>20, <1>21, <1>22, <1>23
          DEF Next, Step

\* An admin is removed or demoted by an owner only, an owner by their own login when
\* they are not configured, and both by what had read another role before.
THEOREM RanksAlwaysFallByRight == Spec => RanksFallByRight
<1>1. TypeInv /\ RoleInv /\ [Next]_vars => [RankFalls]_vars
  BY RankStep
<1>. QED  BY <1>1, TypeInvariant, RoleInvariant, PTL DEF Spec, RanksFallByRight

-----------------------------------------------------------------------------
(* The service implements Membership.                                      *)

\* Nobody is invited but by what is pending already.
LEMMA NobodyInvited ==
  ASSUME \A i \in Invitations : open'[i] = open[i] \/ open'[i] = NoInvitation,
         \A c \in Calls : c \in Joining' =>
            \/ c \in Joining /\ actor'[c] = actor[c] /\ wanted'[c] = wanted[c]
            \/ \E i \in Pending : actor'[c] = open[i].user /\ wanted'[c] = open[i].role
  PROVE  Outstanding' \subseteq Outstanding
BY DEF Outstanding, Pending, Joining

\* Requests that are not about to join come and go unnoticed.
LEMMA SameInvited ==
  ASSUME open' = open,
         \A c \in Calls : /\ c \in Joining' <=> c \in Joining
                          /\ c \in Joining => actor'[c] = actor[c] /\ wanted'[c] = wanted[c]
  PROVE  Outstanding' = Outstanding
BY DEF Outstanding, Pending, Joining

\* An insertion offers, a commit lets in who was invited, a write changes a member's
\* rank, a login offers, lets in or aligns, the deletion dissolves, and all other steps at most withdraw offers.
LEMMA ServiceStep == TypeInv /\ RoleInv /\ [Next]_vars => [Service!Next]_(Service!vars)
<1>. SUFFICES ASSUME TypeInv, RoleInv, [Next]_vars PROVE [Service!Next]_(Service!vars)
  OBVIOUS
<1>. USE DEF TypeInv, TypeOK, CallInv, orgVars
<1>0. Entry' = Entry
  BY SharedStays DEF Entry
<1>1. ASSUME UNCHANGED <<exists, role>>, Outstanding' \subseteq Outstanding
      PROVE [Service!Next]_(Service!vars)
  BY <1>0, <1>1 DEF Service!Next, Service!Withdraw, Service!Fewer
<1>2. ASSUME NEW c \in Calls, NEW a, NEW t, NEW r, NEW i, NEW l,
             Begin(c, a, t, r, i, l), l \notin {"own", "add", "align"},
             l = "accept" => \E j \in Pending : a = open[j].user /\ r = open[j].role
      PROVE [Service!Next]_(Service!vars)
  <2>1. Outstanding' \subseteq Outstanding
    BY <1>2, NobodyInvited DEF Begin, Goto, Joining
  <2>. QED  BY <1>1, <1>2, <2>1 DEF Begin
<1>3. ASSUME NEW c \in Calls, Return(c), c \notin Joining
      PROVE  \A d \in Calls : /\ d \in Joining' <=> d \in Joining
                              /\ d \in Joining => actor'[d] = actor[d] /\ wanted'[d] = wanted[d]
  BY <1>3 DEF Return, Goto, Joining
<1>4. ASSUME NEW c \in Calls, NEW here, NEW goOn, NEW l, ReadThen(c, here, goOn, l),
             {here, l} \cap {"accept", "own", "add", "align"} = {}
      PROVE [Service!Next]_(Service!vars)
  <2>1. \A d \in Calls : /\ d \in Joining' <=> d \in Joining
                         /\ d \in Joining => actor'[d] = actor[d] /\ wanted'[d] = wanted[d]
    BY <1>3, <1>4 DEF ReadThen, Goto, Joining
  <2>. QED  BY <1>1, <1>4, <2>1, SameInvited DEF ReadThen
<1>5. ASSUME NEW c \in Calls,
             \/ \E a, t \in Users : RemoveMember(c, a, t)
             \/ \E a, t \in Users, r \in Offers : UpdateMemberRole(c, a, t, r)
             \/ \E a \in Users, t \in Guests, r \in Offers : InviteMember(c, a, t, r)
             \/ \E i \in Invitations :
                  AcceptInvitation(c, i) \/ \E a \in Users : CancelInvitation(c, a, i)
             \/ \E a \in Users : Delete(c, a)
      PROVE [Service!Next]_(Service!vars)
  BY <1>2, <1>5 DEF RemoveMember, InviteMember, UpdateMemberRole, AcceptInvitation,
                    CancelInvitation, Delete
<1>6. ASSUME NEW c \in Calls,
             CountPending(c) \/ CheckMember(c) \/ CheckInvited(c)
      PROVE [Service!Next]_(Service!vars)
  BY <1>4, <1>6 DEF CountPending, CheckMember, CheckInvited
<1>7. ASSUME NEW c \in Calls, CountMembers(c) PROVE [Service!Next]_(Service!vars)
  <2>1. Outstanding' \subseteq Outstanding
    BY <1>7, SameInvited DEF CountMembers, Goto, Joining
  <2>. QED  BY <1>1, <1>7, <2>1 DEF CountMembers
<1>8. ASSUME NEW c \in Calls, GetMember(c) \/ GetMemberRole(c) PROVE [Service!Next]_(Service!vars)
  <2>1. \A d \in Calls : /\ d \in Joining' <=> d \in Joining
                         /\ d \in Joining => actor'[d] = actor[d] /\ wanted'[d] = wanted[d]
    BY <1>3, <1>8 DEF GetMember, GetMemberRole, Goto, Joining
  <2>. QED  BY <1>1, <1>8, <2>1, SameInvited DEF GetMember, GetMemberRole
<1>9. ASSUME NEW c \in Calls, DeleteInvitation(c) PROVE [Service!Next]_(Service!vars)
  <2>1. Outstanding' \subseteq Outstanding
    BY <1>3, <1>9, NobodyInvited DEF DeleteInvitation, Close, Joining
  <2>. QED  BY <1>1, <1>9, <2>1 DEF DeleteInvitation
<1>10. ASSUME NEW i \in Invitations, Expire(i) PROVE [Service!Next]_(Service!vars)
  <2>1. Outstanding' \subseteq Outstanding
    BY <1>10, NobodyInvited DEF Expire, Close, callVars, Joining
  <2>. QED  BY <1>1, <1>10, <2>1 DEF Expire
<1>11. ASSUME NEW c \in Calls, Insert(c) PROVE [Service!Next]_(Service!vars)
  <2>1. CASE exists
    <3>1. PICK i \in Invitations \ Pending :
            open' = [open EXCEPT ![i] = [user |-> target[c], role |-> wanted[c]]]
      BY <1>11, <2>1 DEF Insert
    <3>2. open'[i] # NoInvitation
      BY <1>11, <3>1, OrganizationAssumption DEF Insert, Offers
    <3>3. Pending' = Pending \cup {i}
      BY <3>1, <3>2 DEF Pending
    <3>4. \A d \in Calls : /\ d \in Joining' <=> d \in Joining
                           /\ d \in Joining => actor'[d] = actor[d] /\ wanted'[d] = wanted[d]
      BY <1>3, <1>11 DEF Insert, Joining
    <3>5. Outstanding' = Outstanding \cup {<<target[c], wanted[c]>>}
      <4>1. {<<open'[j].user, open'[j].role>> : j \in Pending'} =
               {<<open[j].user, open[j].role>> : j \in Pending} \cup {<<target[c], wanted[c]>>}
        <5>1. i \notin Pending
          BY <3>1
        <5>2. <<open'[i].user, open'[i].role>> = <<target[c], wanted[c]>>
          BY <3>1
        <5>3. \A j \in Pending : open'[j] = open[j]
          BY <3>1, <5>1 DEF Pending
        <5>. QED  BY <3>3, <5>2, <5>3
      <4>2. {<<actor'[d], wanted'[d]>> : d \in Joining'} =
               {<<actor[d], wanted[d]>> : d \in Joining}
        <5>1. Joining' = Joining
          BY <3>4 DEF Joining
        <5>2. \A d \in Joining : actor'[d] = actor[d] /\ wanted'[d] = wanted[d]
          BY <3>4 DEF Joining
        <5>. QED  BY <5>1, <5>2
      <4>. QED  BY <4>1, <4>2 DEF Outstanding
    <3>6. Service!Offer(target[c], wanted[c])
      BY <1>0, <1>11, <2>1, <3>5 DEF Insert, Service!Offer
    <3>. QED  BY <1>11, <3>6 DEF Insert, Service!Next
  <2>2. CASE ~exists
    <3>1. Outstanding' = Outstanding
      BY <1>3, <1>11, <2>2, SameInvited DEF Insert, Joining
    <3>. QED  BY <1>1, <1>11, <2>2, <3>1 DEF Insert
  <2>. QED  BY <2>1, <2>2
<1>12. ASSUME NEW c \in Calls, Commit(c) PROVE [Service!Next]_(Service!vars)
  <2>1. Outstanding' \subseteq Outstanding
    BY <1>12, NobodyInvited DEF Commit, Close, Return, Goto, Joining
  <2>2. CASE exists /\ role[actor[c]] = NoRole
    <3>1. role' = [role EXCEPT ![actor[c]] = wanted[c]] /\ UNCHANGED exists
      BY <1>12, <2>2 DEF Commit
    <3>2. <<actor[c], wanted[c]>> \in Outstanding
      BY <1>12 DEF Commit, Outstanding, Joining
    <3>3. actor[c] \in Users /\ wanted[c] \in Offers
      BY <1>12 DEF Commit
    <3>4. Service!Join(actor[c], wanted[c])
      BY <1>0, <2>1, <2>2, <3>1, <3>2 DEF Service!Join, Service!Fewer
    <3>. QED  BY <3>3, <3>4 DEF Service!Next
  <2>3. CASE ~(exists /\ role[actor[c]] = NoRole)
    <3>1. UNCHANGED <<exists, role>>
      BY <1>12, <2>3 DEF Commit
    <3>. QED  BY <1>1, <2>1, <3>1
  <2>. QED  BY <2>2, <2>3
<1>13. ASSUME NEW c \in Calls, Write(c) PROVE [Service!Next]_(Service!vars)
  <2>1. Outstanding' = Outstanding
    BY <1>3, <1>13, SameInvited DEF Write, Joining
  <2>2. target[c] \in Users /\ wanted[c] \in Offers \cup {NoRole}
    BY <1>13 DEF Write
  <2>3. CASE role[target[c]] = NoRole
    BY <1>1, <1>13, <2>1, <2>3 DEF Write
  <2>4. CASE role[target[c]] # NoRole
    <3>1. role[target[c]] = "owner" => Entry[target[c]] = "owner"
      BY <1>13, <2>2 DEF Write, RoleInv, Entry, RoleFor
    <3>2. Service!Change(target[c], wanted[c])
      BY <1>0, <1>13, <2>1, <2>2, <2>4, <3>1 DEF Write, Service!Change, Roles
    <3>. QED  BY <2>2, <3>2 DEF Service!Next
  <2>. QED  BY <2>3, <2>4
<1>14. ASSUME NEW c \in Calls, DeleteAll(c) PROVE [Service!Next]_(Service!vars)
  <2>1. Outstanding' \subseteq Outstanding
    BY <1>3, <1>14, NobodyInvited DEF DeleteAll, Joining
  <2>. QED  BY <1>0, <1>14, <2>1 DEF DeleteAll, Service!Next, Service!Dissolve, Service!Fewer
<1>15. CASE UNCHANGED vars
  <2>1. Outstanding' = Outstanding
    BY <1>15 DEF vars, callVars, Outstanding, Pending, Joining
  <2>. QED  BY <1>1, <1>15, <2>1 DEF vars
<1>16. ASSUME NEW c \in Calls, NEW u \in Users, JoinSharedOrg(c, u)
       PROVE [Service!Next]_(Service!vars)
  <2>1. Outstanding' = Outstanding \cup {<<u, RoleFor(u)>>}
    <3>1. Joining' = Joining \cup {c} /\ c \notin Joining
      BY <1>16 DEF JoinSharedOrg, Begin, Goto, Joining
    <3>2. \A d \in Joining : actor'[d] = actor[d] /\ wanted'[d] = wanted[d]
      BY <1>16, <3>1 DEF JoinSharedOrg, Begin, Joining
    <3>3. <<actor'[c], wanted'[c]>> = <<u, RoleFor(u)>>
      BY <1>16 DEF JoinSharedOrg, Begin
    <3>4. {<<actor'[d], wanted'[d]>> : d \in Joining'} =
            {<<actor[d], wanted[d]>> : d \in Joining} \cup {<<u, RoleFor(u)>>}
      <4>1. ASSUME NEW x \in {<<actor'[d], wanted'[d]>> : d \in Joining'}
            PROVE  x \in {<<actor[d], wanted[d]>> : d \in Joining} \cup {<<u, RoleFor(u)>>}
        <5>1. PICK d \in Joining \cup {c} : x = <<actor'[d], wanted'[d]>>
          BY <3>1, <4>1
        <5>2. d \in Joining => x = <<actor[d], wanted[d]>>
          BY <3>2, <5>1
        <5>. QED  BY <3>3, <5>1, <5>2
      <4>2. ASSUME NEW x \in {<<actor[d], wanted[d]>> : d \in Joining}
            PROVE  x \in {<<actor'[d], wanted'[d]>> : d \in Joining'}
        <5>1. PICK d \in Joining : x = <<actor[d], wanted[d]>>
          BY <4>2
        <5>2. d \in Joining' /\ x = <<actor'[d], wanted'[d]>>
          BY <3>1, <3>2, <5>1
        <5>. QED  BY <5>2
      <4>3. <<u, RoleFor(u)>> \in {<<actor'[d], wanted'[d]>> : d \in Joining'}
        BY <3>1, <3>3
      <4>. QED  BY <4>1, <4>2, <4>3
    <3>5. open' = open
      BY <1>16 DEF JoinSharedOrg, Begin
    <3>. QED  BY <3>4, <3>5 DEF Outstanding, Pending
  <2>2. shared /\ exists /\ UNCHANGED <<exists, role>>
    BY <1>16 DEF JoinSharedOrg, Begin
  <2>3. Entry[u] = RoleFor(u) /\ RoleFor(u) \in Offers \cup {"owner"}
    BY <2>2, OrganizationAssumption DEF Entry, RoleFor, Offers
  <2>4. Service!Offer(u, RoleFor(u))
    BY <1>0, <2>1, <2>2, <2>3 DEF Service!Offer
  <2>. QED  BY <2>3, <2>4 DEF Service!Next
<1>17. ASSUME NEW c \in Calls, ReadOwn(c) \/ AddMember(c) \/ AlignRole(c)
       PROVE  /\ Outstanding' \subseteq Outstanding
              /\ c \in Joining /\ <<target[c], wanted[c]>> \in Outstanding
              /\ shared /\ target[c] \in Users /\ wanted[c] = RoleFor(target[c])
              /\ wanted[c] \in Offers \cup {"owner"} /\ Entry[target[c]] = wanted[c]
  <2>1. pc[c] \in {"own", "add", "align"} /\ open' = open
    BY <1>17 DEF ReadOwn, AddMember, AlignRole
  <2>2. shared /\ target[c] \in Users /\ actor[c] = target[c] /\ wanted[c] = RoleFor(target[c])
    BY <2>1
  <2>3. wanted[c] \in Offers \cup {"owner"} /\ Entry[target[c]] = wanted[c]
    BY <2>2, OrganizationAssumption DEF RoleFor, Offers, Entry
  <2>4. c \in Joining /\ <<target[c], wanted[c]>> \in Outstanding
    BY <2>1, <2>2 DEF Joining, Outstanding
  <2>5. \A d \in Calls : d \in Joining' =>
          d \in Joining /\ actor'[d] = actor[d] /\ wanted'[d] = wanted[d]
    BY <1>17, <2>1 DEF ReadOwn, AddMember, AlignRole, Return, Goto, Joining
  <2>6. Outstanding' \subseteq Outstanding
    BY <2>1, <2>5, NobodyInvited
  <2>. QED  BY <2>2, <2>3, <2>4, <2>6
<1>18. ASSUME NEW c \in Calls, ReadOwn(c) PROVE [Service!Next]_(Service!vars)
  <2>1. UNCHANGED <<exists, role>>
    BY <1>18 DEF ReadOwn
  <2>. QED  BY <1>1, <1>17, <1>18, <2>1
<1>19. ASSUME NEW c \in Calls, AddMember(c) PROVE [Service!Next]_(Service!vars)
  <2>1. UNCHANGED exists
    BY <1>19 DEF AddMember
  <2>2. CASE exists /\ role[target[c]] = NoRole
    <3>1. role' = [role EXCEPT ![target[c]] = wanted[c]]
      BY <1>19, <2>2 DEF AddMember
    <3>2. Service!Join(target[c], wanted[c])
      BY <1>0, <1>17, <1>19, <2>1, <2>2, <3>1 DEF Service!Join, Service!Fewer
    <3>. QED  BY <1>17, <1>19, <3>2 DEF Service!Next
  <2>3. CASE ~(exists /\ role[target[c]] = NoRole)
    <3>1. role' = role
      BY <1>19, <2>3 DEF AddMember
    <3>. QED  BY <1>1, <1>17, <1>19, <2>1, <3>1
  <2>. QED  BY <2>2, <2>3
<1>20. ASSUME NEW c \in Calls, AlignRole(c) PROVE [Service!Next]_(Service!vars)
  <2>1. UNCHANGED exists
    BY <1>20 DEF AlignRole
  <2>2. CASE role[target[c]] # NoRole
    <3>1. role' = [role EXCEPT ![target[c]] = wanted[c]]
      BY <1>20, <2>2 DEF AlignRole
    <3>2. Service!Align(target[c])
      BY <1>0, <1>17, <1>20, <2>1, <2>2, <3>1 DEF Service!Align, Service!Fewer
    <3>. QED  BY <1>17, <1>20, <3>2 DEF Service!Next
  <2>3. CASE role[target[c]] = NoRole
    <3>1. role' = role
      BY <1>20, <2>3 DEF AlignRole
    <3>. QED  BY <1>1, <1>17, <1>20, <2>1, <3>1
  <2>. QED  BY <2>2, <2>3
<1>. QED  BY <1>5, <1>6, <1>7, <1>8, <1>9, <1>10, <1>11, <1>12, <1>13, <1>14, <1>15,
          <1>16, <1>18, <1>19, <1>20
          DEF Next, Step

\* Whatever requests race, the service does what Membership says: everybody but the
\* founder joins by an invitation or a login and with the role it gives, the owner's
\* rank follows the configuration, and the end of the organization is the end.
THEOREM ServiceIsMembership == Spec => ServesMembership
<1>1. Init => Service!Init
  <2>1. Init => Pending = {}
    BY DEF Init, Pending
  <2>2. Init => Outstanding = {}
    BY <2>1 DEF Init, Outstanding, Joining
  <2>3. Init => Entry \in [Users -> Offers \cup {"owner", NoRole}]
    BY OrganizationAssumption DEF Init, Entry, RoleFor, Offers
  <2>. QED  BY <2>2, <2>3 DEF Init, Service!Init
<1>2. TypeInv /\ RoleInv /\ [Next]_vars => [Service!Next]_(Service!vars)
  BY ServiceStep
<1>. QED  BY <1>1, <1>2, TypeInvariant, RoleInvariant, PTL
          DEF Spec, Service!Spec, ServesMembership

-----------------------------------------------------------------------------
(* Removal.                                                                *)

\* Whoever is barred is no member, and no invitation or login can make them one.
BarredInv == \A u \in barred : role[u] = NoRole /\ u \notin Awaited

\* Only a new invitation or a login lifts it.
LEMMA BarredStep == TypeInv /\ BarredInv /\ [Next]_vars => BarredInv'
<1>. SUFFICES ASSUME TypeInv, BarredInv, [Next]_vars PROVE BarredInv'
  OBVIOUS
<1>. USE DEF TypeInv, TypeOK, CallInv, Offers, Roles, Terms, Pending, BarredInv, Awaited, orgVars
<1>1. ASSUME NEW c \in Calls, NEW a \in Users, NEW t \in Users, RemoveMember(c, a, t)
      PROVE BarredInv'
  BY <1>1, OrganizationAssumption DEF RemoveMember, Begin, Goto, histVars
<1>2. ASSUME NEW c \in Calls, NEW a \in Users, NEW t \in Guests, NEW r \in Offers, InviteMember(c, a, t, r)
      PROVE BarredInv'
  BY <1>2, OrganizationAssumption DEF InviteMember, Begin, Goto, histVars
<1>3. ASSUME NEW c \in Calls, NEW a \in Users, NEW t \in Users, NEW r \in Offers, UpdateMemberRole(c, a, t, r)
      PROVE BarredInv'
  BY <1>3, OrganizationAssumption DEF UpdateMemberRole, Begin, Goto, histVars
<1>4. ASSUME NEW c \in Calls, NEW i \in Invitations, AcceptInvitation(c, i) PROVE BarredInv'
  BY <1>4, OrganizationAssumption DEF AcceptInvitation, Begin, Goto, histVars
<1>5. ASSUME NEW c \in Calls, NEW a \in Users, NEW i \in Invitations, CancelInvitation(c, a, i)
      PROVE BarredInv'
  BY <1>5, OrganizationAssumption DEF CancelInvitation, Begin, Goto, histVars
<1>6. ASSUME NEW c \in Calls, NEW a \in Users, Delete(c, a) PROVE BarredInv'
  BY <1>6, OrganizationAssumption DEF Delete, Begin, Goto, histVars
<1>7. ASSUME NEW c \in Calls, CountMembers(c) PROVE BarredInv'
  BY <1>7, OrganizationAssumption DEF CountMembers, Goto
<1>8. ASSUME NEW c \in Calls, CountPending(c) PROVE BarredInv'
  BY <1>8, OrganizationAssumption DEF CountPending, ReadThen, Return, Goto
<1>9. ASSUME NEW c \in Calls, CheckMember(c) PROVE BarredInv'
  BY <1>9, OrganizationAssumption DEF CheckMember, ReadThen, Return, Goto
<1>10. ASSUME NEW c \in Calls, CheckInvited(c) PROVE BarredInv'
  BY <1>10, OrganizationAssumption DEF CheckInvited, ReadThen, Return, Goto
<1>11. ASSUME NEW c \in Calls, Insert(c) PROVE BarredInv'
  BY <1>11, OrganizationAssumption DEF Insert, Return, Goto
<1>12. ASSUME NEW c \in Calls, Commit(c) PROVE BarredInv'
  BY <1>12, OrganizationAssumption DEF Commit, Close, Return, Goto
<1>13. ASSUME NEW c \in Calls, DeleteInvitation(c) PROVE BarredInv'
  BY <1>13, OrganizationAssumption DEF DeleteInvitation, Close, Return, Goto, histVars
<1>14. ASSUME NEW c \in Calls, GetMember(c) PROVE BarredInv'
  BY <1>14, OrganizationAssumption DEF GetMember, Return, Goto, histVars
<1>15. ASSUME NEW c \in Calls, GetMemberRole(c) PROVE BarredInv'
  BY <1>15, OrganizationAssumption DEF GetMemberRole, MayChange, Return, Goto, histVars
<1>16. ASSUME NEW c \in Calls, Write(c) PROVE BarredInv'
  BY <1>16, OrganizationAssumption DEF Write, Return, Goto
<1>17. ASSUME NEW c \in Calls, DeleteAll(c) PROVE BarredInv'
  BY <1>17, OrganizationAssumption DEF DeleteAll, Return, Goto, histVars
<1>18. ASSUME NEW i \in Invitations, Expire(i) PROVE BarredInv'
  BY <1>18, OrganizationAssumption DEF Expire, Close, callVars, histVars
<1>19. CASE UNCHANGED vars
  BY <1>19 DEF vars, callVars, histVars
<1>20. ASSUME NEW c \in Calls, NEW u \in Users, JoinSharedOrg(c, u) PROVE BarredInv'
  BY <1>20, OrganizationAssumption DEF JoinSharedOrg, RoleFor, Begin, Goto
<1>21. ASSUME NEW c \in Calls, ReadOwn(c) PROVE BarredInv'
  BY <1>21, OrganizationAssumption DEF ReadOwn, RoleFor, Return, Goto, histVars
<1>22. ASSUME NEW c \in Calls, AddMember(c) PROVE BarredInv'
  BY <1>22, OrganizationAssumption DEF AddMember, RoleFor, Return, Goto, histVars
<1>23. ASSUME NEW c \in Calls, AlignRole(c) PROVE BarredInv'
  BY <1>23, OrganizationAssumption DEF AlignRole, RoleFor, Return, Goto, histVars
<1>. QED  BY <1>1, <1>2, <1>3, <1>4, <1>5, <1>6, <1>7, <1>8, <1>9, <1>10, <1>11, <1>12,
          <1>13, <1>14, <1>15, <1>16, <1>17, <1>18, <1>19, <1>20, <1>21, <1>22, <1>23
          DEF Next, Step

\* A removed member stays out until they are invited again or log in.
THEOREM RemovedAlwaysStaysOut == Spec => []RemovedStaysOut
<1>1. Init => BarredInv
  BY DEF Init, BarredInv
<1>2. TypeInv /\ BarredInv /\ [Next]_vars => BarredInv'
  BY BarredStep
<1>3. BarredInv => RemovedStaysOut
  BY DEF BarredInv, RemovedStaysOut
<1>. QED  BY <1>1, <1>2, <1>3, TypeInvariant, PTL DEF Spec

-----------------------------------------------------------------------------
(* The plan's limit.                                                       *)

\* A current request has counted no fewer than there are.  An invitation that is
\* being accepted is the one that was read, or none that is pending.
CountInv ==
  /\ \A c \in current :
       /\ pc[c] \in {"pending", "member", "invited", "insert"}
       /\ pc[c] = "pending" => Cardinality(Members) <= tally[c]
       /\ pc[c] # "pending" => Cardinality(Members) + Cardinality(Pending) < TeamMembers
  /\ \A c \in Calls : pc[c] = "accept" /\ chosen[c] \in Pending => open[chosen[c]].user = actor[c]

Within == Cardinality(Seats \ uncounted) <= TeamMembers

\* What keeps an organization with a limit within it.
LimitInv == CountInv /\ Within

\* Members, invitations and seats are finitely many.
LEMMA Counts ==
  ASSUME TypeInv
  PROVE  /\ Cardinality(Members) \in Nat /\ Cardinality(Pending) \in Nat
         /\ IsFiniteSet(Seats) /\ Cardinality(Seats) \in Nat
         /\ Cardinality(Seats) <= Cardinality(Members) + Cardinality(Pending)
<1>. DEFINE Invited == {open[i].user : i \in Pending}
            f == [i \in Pending |-> open[i].user]
<1>1. Members \in SUBSET Users /\ Pending \in SUBSET Invitations
  BY DEF Members, Pending
<1>2. IsFiniteSet(Members) /\ IsFiniteSet(Pending)
  BY <1>1, FS_Subset, OrganizationAssumption
<1>3. f \in Surjection(Pending, Invited)
  BY Fun_IsSurj
<1>4. IsFiniteSet(Invited) /\ Cardinality(Invited) <= Cardinality(Pending)
  BY <1>2, <1>3, FS_Surjection
<1>5. /\ IsFiniteSet(Seats)
      /\ Cardinality(Seats) = Cardinality(Members) + Cardinality(Invited) - Cardinality(Members \cap Invited)
  BY <1>2, <1>4, FS_Union DEF Seats
<1>6. Cardinality(Members \cap Invited) \in Nat
  BY <1>2, FS_Intersection, FS_CardinalityType
<1>. QED  BY <1>2, <1>4, <1>5, <1>6, FS_CardinalityType

\* A step after which there are no more counted seats than before.
LEMMA NoMoreSeats ==
  ASSUME TypeInv, Within, Seats' \ uncounted' \subseteq Seats \ uncounted
  PROVE  Within'
<1>1. IsFiniteSet(Seats \ uncounted)
  BY Counts, FS_Difference
<1>2. Seats' \ uncounted' \in SUBSET (Seats \ uncounted)
  OBVIOUS
<1>3. IsFiniteSet(Seats' \ uncounted') /\ Cardinality(Seats' \ uncounted') <= Cardinality(Seats \ uncounted)
  BY <1>1, <1>2, FS_Subset
<1>4. Cardinality(Seats \ uncounted) \in Nat /\ Cardinality(Seats' \ uncounted') \in Nat
  BY <1>1, <1>3, FS_CardinalityType
<1>. QED  BY <1>3, <1>4, OrganizationAssumption DEF Within

\* A step after which there are no more members and invitations than before.
LEMMA Fewer ==
  ASSUME TypeInv, LimitInv, Members' \subseteq Members, Pending' \subseteq Pending,
         \A j \in Pending' : open'[j] = open[j], uncounted' = uncounted
  PROVE  /\ Cardinality(Members') \in Nat /\ Cardinality(Members') <= Cardinality(Members)
         /\ Cardinality(Pending') \in Nat /\ Cardinality(Pending') <= Cardinality(Pending)
         /\ Within'
<1>1. IsFiniteSet(Members) /\ IsFiniteSet(Pending)
  <2>1. Members \in SUBSET Users /\ Pending \in SUBSET Invitations
    BY DEF Members, Pending
  <2>. QED  BY <2>1, FS_Subset, OrganizationAssumption
<1>2. Members' \in SUBSET Members /\ Pending' \in SUBSET Pending
  OBVIOUS
<1>3. /\ IsFiniteSet(Members') /\ Cardinality(Members') <= Cardinality(Members)
      /\ IsFiniteSet(Pending') /\ Cardinality(Pending') <= Cardinality(Pending)
  BY <1>1, <1>2, FS_Subset
<1>4. Seats' \ uncounted' \subseteq Seats \ uncounted
  BY DEF Seats
<1>5. Within'
  BY <1>4, NoMoreSeats DEF LimitInv
<1>. QED  BY <1>3, <1>5, FS_CardinalityType

\* Only a request that is current adds a counted seat.
LEMMA LimitStep == TypeInv /\ ~shared /\ LimitInv /\ [Next]_vars => LimitInv'
<1>. SUFFICES ASSUME TypeInv, ~shared, LimitInv, [Next]_vars PROVE LimitInv'
  OBVIOUS
<1>. USE DEF orgVars
<1>1. ASSUME NEW c \in Calls, NEW a \in Users, NEW t \in Users, RemoveMember(c, a, t)
      PROVE LimitInv'
  <2>1. /\ Members' \subseteq Members /\ Pending' \subseteq Pending
        /\ \A j \in Pending' : open'[j] = open[j]
        /\ uncounted' = uncounted
    BY <1>1 DEF TypeInv, TypeOK, Members, Pending, RemoveMember, Begin, Goto, histVars
  <2>2. CountInv'
    BY <1>1, <2>1, Fewer, Counts, OrganizationAssumption
       DEF TypeInv, TypeOK, CallInv, LimitInv, CountInv, RemoveMember, Begin, Goto, histVars
  <2>. QED  BY <2>1, <2>2, Fewer DEF LimitInv
<1>2. ASSUME NEW c \in Calls, NEW a \in Users, NEW t \in Guests, NEW r \in Offers, InviteMember(c, a, t, r)
      PROVE LimitInv'
  <2>1. /\ Members' \subseteq Members /\ Pending' \subseteq Pending
        /\ \A j \in Pending' : open'[j] = open[j]
        /\ uncounted' = uncounted
    BY <1>2 DEF TypeInv, TypeOK, Members, Pending, InviteMember, Begin, Goto, histVars
  <2>2. CountInv'
    BY <1>2, <2>1, Fewer, Counts, OrganizationAssumption
       DEF TypeInv, TypeOK, CallInv, LimitInv, CountInv, InviteMember, Begin, Goto, histVars
  <2>. QED  BY <2>1, <2>2, Fewer DEF LimitInv
<1>3. ASSUME NEW c \in Calls, NEW a \in Users, NEW t \in Users, NEW r \in Offers, UpdateMemberRole(c, a, t, r)
      PROVE LimitInv'
  <2>1. /\ Members' \subseteq Members /\ Pending' \subseteq Pending
        /\ \A j \in Pending' : open'[j] = open[j]
        /\ uncounted' = uncounted
    BY <1>3 DEF TypeInv, TypeOK, Members, Pending, UpdateMemberRole, Begin, Goto, histVars
  <2>2. CountInv'
    BY <1>3, <2>1, Fewer, Counts, OrganizationAssumption
       DEF TypeInv, TypeOK, CallInv, LimitInv, CountInv, UpdateMemberRole, Begin, Goto, histVars
  <2>. QED  BY <2>1, <2>2, Fewer DEF LimitInv
<1>4. ASSUME NEW c \in Calls, NEW i \in Invitations, AcceptInvitation(c, i) PROVE LimitInv'
  <2>1. /\ Members' \subseteq Members /\ Pending' \subseteq Pending
        /\ \A j \in Pending' : open'[j] = open[j]
        /\ uncounted' = uncounted
    BY <1>4 DEF TypeInv, TypeOK, Members, Pending, AcceptInvitation, Begin, Goto, histVars
  <2>2. CountInv'
    BY <1>4, <2>1, Fewer, Counts, OrganizationAssumption
       DEF TypeInv, TypeOK, CallInv, LimitInv, CountInv, AcceptInvitation, Begin, Goto, histVars
  <2>. QED  BY <2>1, <2>2, Fewer DEF LimitInv
<1>5. ASSUME NEW c \in Calls, NEW a \in Users, NEW i \in Invitations, CancelInvitation(c, a, i)
      PROVE LimitInv'
  <2>1. /\ Members' \subseteq Members /\ Pending' \subseteq Pending
        /\ \A j \in Pending' : open'[j] = open[j]
        /\ uncounted' = uncounted
    BY <1>5 DEF TypeInv, TypeOK, Members, Pending, CancelInvitation, Begin, Goto, histVars
  <2>2. CountInv'
    BY <1>5, <2>1, Fewer, Counts, OrganizationAssumption
       DEF TypeInv, TypeOK, CallInv, LimitInv, CountInv, CancelInvitation, Begin, Goto, histVars
  <2>. QED  BY <2>1, <2>2, Fewer DEF LimitInv
<1>6. ASSUME NEW c \in Calls, NEW a \in Users, Delete(c, a) PROVE LimitInv'
  <2>1. /\ Members' \subseteq Members /\ Pending' \subseteq Pending
        /\ \A j \in Pending' : open'[j] = open[j]
        /\ uncounted' = uncounted
    BY <1>6 DEF TypeInv, TypeOK, Members, Pending, Delete, Begin, Goto, histVars
  <2>2. CountInv'
    BY <1>6, <2>1, Fewer, Counts, OrganizationAssumption
       DEF TypeInv, TypeOK, CallInv, LimitInv, CountInv, Delete, Begin, Goto, histVars
  <2>. QED  BY <2>1, <2>2, Fewer DEF LimitInv
<1>7. ASSUME NEW c \in Calls, CountMembers(c) PROVE LimitInv'
  <2>1. /\ Members' \subseteq Members /\ Pending' \subseteq Pending
        /\ \A j \in Pending' : open'[j] = open[j]
        /\ uncounted' = uncounted
    BY <1>7 DEF TypeInv, TypeOK, Members, Pending, CountMembers, Goto
  <2>2. CountInv'
    BY <1>7, <2>1, Fewer, Counts, OrganizationAssumption
       DEF TypeInv, TypeOK, CallInv, LimitInv, CountInv, CountMembers, Goto
  <2>. QED  BY <2>1, <2>2, Fewer DEF LimitInv
<1>8. ASSUME NEW c \in Calls, CountPending(c) PROVE LimitInv'
  <2>1. /\ Members' \subseteq Members /\ Pending' \subseteq Pending
        /\ \A j \in Pending' : open'[j] = open[j]
        /\ uncounted' = uncounted
    BY <1>8 DEF TypeInv, TypeOK, Members, Pending, CountPending, ReadThen, Return, Goto
  <2>2. CountInv'
    BY <1>8, <2>1, Fewer, Counts, OrganizationAssumption
       DEF TypeInv, TypeOK, CallInv, LimitInv, CountInv, CountPending, ReadThen, Return, Goto
  <2>. QED  BY <2>1, <2>2, Fewer DEF LimitInv
<1>9. ASSUME NEW c \in Calls, CheckMember(c) PROVE LimitInv'
  <2>1. /\ Members' \subseteq Members /\ Pending' \subseteq Pending
        /\ \A j \in Pending' : open'[j] = open[j]
        /\ uncounted' = uncounted
    BY <1>9 DEF TypeInv, TypeOK, Members, Pending, CheckMember, ReadThen, Return, Goto
  <2>2. CountInv'
    BY <1>9, <2>1, Fewer, Counts, OrganizationAssumption
       DEF TypeInv, TypeOK, CallInv, LimitInv, CountInv, CheckMember, ReadThen, Return, Goto
  <2>. QED  BY <2>1, <2>2, Fewer DEF LimitInv
<1>10. ASSUME NEW c \in Calls, CheckInvited(c) PROVE LimitInv'
  <2>1. /\ Members' \subseteq Members /\ Pending' \subseteq Pending
        /\ \A j \in Pending' : open'[j] = open[j]
        /\ uncounted' = uncounted
    BY <1>10 DEF TypeInv, TypeOK, Members, Pending, CheckInvited, ReadThen, Return, Goto
  <2>2. CountInv'
    BY <1>10, <2>1, Fewer, Counts, OrganizationAssumption
       DEF TypeInv, TypeOK, CallInv, LimitInv, CountInv, CheckInvited, ReadThen, Return, Goto
  <2>. QED  BY <2>1, <2>2, Fewer DEF LimitInv
<1>11. ASSUME NEW c \in Calls, Insert(c) PROVE LimitInv'
  <2>. DEFINE d == target[c]
  <2>1. CASE exists
    <3>1. PICK i \in Invitations \ (Pending \cup {chosen[e] : e \in Calls}) :
             open' = [open EXCEPT ![i] = [user |-> d, role |-> wanted[c]]]
      BY <1>11, <2>1 DEF Insert
    <3>2. /\ current' = {}
          /\ uncounted' = IF c \in current THEN uncounted \ {d} ELSE uncounted \cup {d}
          /\ role' = role /\ pc' = [pc EXCEPT ![c] = "idle"]
          /\ actor' = [actor EXCEPT ![c] = NoUser] /\ chosen' = [chosen EXCEPT ![c] = NoInvitation]
      BY <1>11, <2>1 DEF Insert, Return, Goto
    <3>3. Seats' \subseteq Seats \cup {d}
      <4>1. Members' = Members
        BY <3>2 DEF Members
      <4>2. ASSUME NEW j \in Pending'
            PROVE open'[j].user \in {open[k].user : k \in Pending} \cup {d}
        <5>1. CASE j = i
          BY <3>1, <5>1 DEF TypeInv, TypeOK
        <5>2. CASE j # i
          BY <3>1, <5>2, <4>2 DEF TypeInv, TypeOK, Pending
        <5>. QED  BY <5>1, <5>2
      <4>. QED  BY <4>1, <4>2 DEF Seats
    <3>4. CountInv'
      <4>1. SUFFICES ASSUME NEW e \in Calls, pc'[e] = "accept", chosen'[e] \in Pending'
                     PROVE  open'[chosen'[e]].user = actor'[e]
        BY <3>2 DEF CountInv
      <4>2. e # c /\ pc[e] = "accept" /\ chosen'[e] = chosen[e] /\ actor'[e] = actor[e]
        BY <3>2, <4>1 DEF TypeInv, TypeOK
      <4>3. chosen[e] # i
        BY <3>1
      <4>. QED  BY <3>1, <4>1, <4>2, <4>3 DEF TypeInv, TypeOK, LimitInv, CountInv, Pending
    <3>5. CASE c \in current
      <4>1. Cardinality(Members) + Cardinality(Pending) < TeamMembers
        BY <1>11, <3>5 DEF Insert, LimitInv, CountInv
      <4>2. Cardinality(Seats \cup {d}) <= TeamMembers /\ IsFiniteSet(Seats \cup {d})
        <5>1. /\ IsFiniteSet(Seats \cup {d})
              /\ Cardinality(Seats \cup {d}) \in {Cardinality(Seats), Cardinality(Seats) + 1}
          BY Counts, FS_AddElement
        <5>. QED  BY <4>1, <5>1, Counts, OrganizationAssumption
      <4>3. Seats' \ uncounted' \in SUBSET (Seats \cup {d})
        BY <3>3
      <4>4. /\ IsFiniteSet(Seats' \ uncounted')
            /\ Cardinality(Seats' \ uncounted') <= Cardinality(Seats \cup {d})
        BY <4>2, <4>3, FS_Subset
      <4>5. Cardinality(Seats' \ uncounted') \in Nat /\ Cardinality(Seats \cup {d}) \in Nat
        BY <4>2, <4>4, FS_CardinalityType
      <4>. QED  BY <3>4, <4>2, <4>4, <4>5, OrganizationAssumption DEF LimitInv, Within
    <3>6. CASE c \notin current
      BY <3>2, <3>3, <3>4, <3>6, NoMoreSeats DEF LimitInv
    <3>. QED  BY <3>5, <3>6
  <2>2. CASE ~exists
    <3>1. UNCHANGED <<exists, role, open, uncounted>> /\ current' = current \ {c} /\ Return(c)
      BY <1>11, <2>2 DEF Insert
    <3>2. Members' \subseteq Members /\ Pending' = Pending
      BY <3>1 DEF Members, Pending
    <3>3. CountInv'
      BY <3>1, <3>2, Fewer, Counts, OrganizationAssumption
         DEF TypeInv, TypeOK, CallInv, LimitInv, CountInv, Return, Goto
    <3>. QED  BY <3>1, <3>2, <3>3, Fewer DEF LimitInv
  <2>. QED  BY <2>1, <2>2
<1>12. ASSUME NEW c \in Calls, Commit(c) PROVE LimitInv'
  <2>. DEFINE d == actor[c]
  <2>1. CASE exists
    <3>1. /\ open' = [open EXCEPT ![chosen[c]] = NoInvitation] /\ current' = {}
          /\ role' = [role EXCEPT ![d] = IF @ = NoRole THEN wanted[c] ELSE @]
          /\ uncounted' = IF chosen[c] \in Pending THEN uncounted ELSE uncounted \cup {d}
          /\ pc[c] = "accept" /\ pc' = [pc EXCEPT ![c] = "idle"]
          /\ actor' = [actor EXCEPT ![c] = NoUser] /\ chosen' = [chosen EXCEPT ![c] = NoInvitation]
      BY <1>12, <2>1 DEF Commit, Close, Return, Goto
    <3>2. Members' \subseteq Members \cup {d}
      BY <3>1 DEF TypeInv, TypeOK, Members
    <3>3. Pending' \subseteq Pending /\ \A j \in Pending' : open'[j] = open[j]
      BY <3>1 DEF TypeInv, TypeOK, Pending
    <3>4. Seats' \subseteq Seats \cup {d}
      BY <3>2, <3>3 DEF Seats
    <3>5. chosen[c] \in Pending => d \in Seats
      BY <3>1 DEF LimitInv, CountInv, Seats
    <3>6. Within'
      BY <3>1, <3>4, <3>5, NoMoreSeats DEF LimitInv
    <3>7. CountInv'
      BY <3>1, <3>3 DEF TypeInv, TypeOK, LimitInv, CountInv
    <3>. QED  BY <3>6, <3>7 DEF LimitInv
  <2>2. CASE ~exists
    <3>1. UNCHANGED <<exists, role, open, current, uncounted>> /\ Return(c) /\ pc[c] = "accept"
      BY <1>12, <2>2 DEF Commit
    <3>2. Members' \subseteq Members /\ Pending' = Pending
      BY <3>1 DEF Members, Pending
    <3>3. CountInv'
      BY <3>1, <3>2, Fewer, Counts, OrganizationAssumption
         DEF TypeInv, TypeOK, CallInv, LimitInv, CountInv, Return, Goto
    <3>. QED  BY <3>1, <3>2, <3>3, Fewer DEF LimitInv
  <2>. QED  BY <2>1, <2>2
<1>13. ASSUME NEW c \in Calls, DeleteInvitation(c) PROVE LimitInv'
  <2>1. /\ Members' \subseteq Members /\ Pending' \subseteq Pending
        /\ \A j \in Pending' : open'[j] = open[j]
        /\ uncounted' = uncounted
    BY <1>13
       DEF TypeInv, TypeOK, Members, Pending, DeleteInvitation, Close, Return, Goto, histVars
  <2>2. CountInv'
    BY <1>13, <2>1, Fewer, Counts, OrganizationAssumption
       DEF TypeInv, TypeOK, CallInv, LimitInv, CountInv, DeleteInvitation, Close, Return,
           Goto, histVars
  <2>. QED  BY <2>1, <2>2, Fewer DEF LimitInv
<1>14. ASSUME NEW c \in Calls, GetMember(c) PROVE LimitInv'
  <2>1. /\ Members' \subseteq Members /\ Pending' \subseteq Pending
        /\ \A j \in Pending' : open'[j] = open[j]
        /\ uncounted' = uncounted
    BY <1>14 DEF TypeInv, TypeOK, Members, Pending, GetMember, Return, Goto, histVars
  <2>2. CountInv'
    BY <1>14, <2>1, Fewer, Counts, OrganizationAssumption
       DEF TypeInv, TypeOK, CallInv, LimitInv, CountInv, GetMember, Return, Goto, histVars
  <2>. QED  BY <2>1, <2>2, Fewer DEF LimitInv
<1>15. ASSUME NEW c \in Calls, GetMemberRole(c) PROVE LimitInv'
  <2>1. /\ Members' \subseteq Members /\ Pending' \subseteq Pending
        /\ \A j \in Pending' : open'[j] = open[j]
        /\ uncounted' = uncounted
    BY <1>15 DEF TypeInv, TypeOK, Members, Pending, GetMemberRole, MayChange, Return, Goto,
                 histVars
  <2>2. CountInv'
    BY <1>15, <2>1, Fewer, Counts, OrganizationAssumption
       DEF TypeInv, TypeOK, CallInv, LimitInv, CountInv, GetMemberRole, MayChange, Return, Goto,
           histVars
  <2>. QED  BY <2>1, <2>2, Fewer DEF LimitInv
<1>16. ASSUME NEW c \in Calls, Write(c) PROVE LimitInv'
  <2>1. /\ Members' \subseteq Members /\ Pending' \subseteq Pending
        /\ \A j \in Pending' : open'[j] = open[j]
        /\ uncounted' = uncounted
    BY <1>16 DEF TypeInv, TypeOK, Members, Pending, Write, Return, Goto
  <2>2. CountInv'
    BY <1>16, <2>1, Fewer, Counts, OrganizationAssumption
       DEF TypeInv, TypeOK, CallInv, LimitInv, CountInv, Write, Return, Goto
  <2>. QED  BY <2>1, <2>2, Fewer DEF LimitInv
<1>17. ASSUME NEW c \in Calls, DeleteAll(c) PROVE LimitInv'
  <2>1. /\ Members' \subseteq Members /\ Pending' \subseteq Pending
        /\ \A j \in Pending' : open'[j] = open[j]
        /\ uncounted' = uncounted
    BY <1>17 DEF TypeInv, TypeOK, Members, Pending, DeleteAll, Return, Goto, histVars
  <2>2. CountInv'
    BY <1>17, <2>1, Fewer, Counts, OrganizationAssumption
       DEF TypeInv, TypeOK, CallInv, LimitInv, CountInv, DeleteAll, Return, Goto, histVars
  <2>. QED  BY <2>1, <2>2, Fewer DEF LimitInv
<1>18. ASSUME NEW i \in Invitations, Expire(i) PROVE LimitInv'
  <2>1. /\ Members' \subseteq Members /\ Pending' \subseteq Pending
        /\ \A j \in Pending' : open'[j] = open[j]
        /\ uncounted' = uncounted
    BY <1>18 DEF TypeInv, TypeOK, Members, Pending, Expire, Close, callVars, histVars
  <2>2. CountInv'
    BY <1>18, <2>1, Fewer, Counts, OrganizationAssumption
       DEF TypeInv, TypeOK, CallInv, LimitInv, CountInv, Expire, Close, callVars, histVars
  <2>. QED  BY <2>1, <2>2, Fewer DEF LimitInv
<1>19. CASE UNCHANGED vars
  <2>1. /\ Members' \subseteq Members /\ Pending' \subseteq Pending
        /\ \A j \in Pending' : open'[j] = open[j]
        /\ uncounted' = uncounted
    BY <1>19 DEF TypeInv, TypeOK, Members, Pending, vars, callVars, histVars
  <2>2. CountInv'
    BY <1>19, <2>1, Fewer, Counts, OrganizationAssumption
       DEF TypeInv, TypeOK, CallInv, LimitInv, CountInv, vars, callVars, histVars
  <2>. QED  BY <2>1, <2>2, Fewer DEF LimitInv
<1>20. ASSUME NEW c \in Calls, NEW u \in Users, JoinSharedOrg(c, u) PROVE LimitInv'
  BY <1>20 DEF JoinSharedOrg
<1>21. ASSUME NEW c \in Calls, ReadOwn(c) \/ AddMember(c) \/ AlignRole(c) PROVE LimitInv'
  BY <1>21 DEF TypeInv, CallInv, ReadOwn, AddMember, AlignRole
<1>. QED  BY <1>1, <1>2, <1>3, <1>4, <1>5, <1>6, <1>7, <1>8, <1>9, <1>10, <1>11, <1>12,
          <1>13, <1>14, <1>15, <1>16, <1>17, <1>18, <1>19, <1>20, <1>21 DEF Next, Step

\* Members and invited users exceed the limit only by users whose invitation came
\* late or was gone.
THEOREM LimitAlwaysHolds == Spec => []LimitHolds
<1>1. Init => LimitInv
  <2>. SUFFICES ASSUME Init PROVE LimitInv
    OBVIOUS
  <2>1. CountInv
    BY DEF Init, CountInv
  <2>2. Pending = {} /\ Members = {Founder}
    BY OrganizationAssumption DEF Init, Members, Pending
  <2>3. Seats \ uncounted = {Founder}
    BY <2>2 DEF Init, Seats
  <2>4. Cardinality({Founder}) = 1
    BY FS_Singleton
  <2>. QED  BY <2>1, <2>3, <2>4, OrganizationAssumption DEF LimitInv, Within
<1>2. TypeInv /\ (shared \/ LimitInv) /\ [Next]_vars => (shared \/ LimitInv)'
  BY LimitStep, SharedStays
<1>3. shared \/ LimitInv => LimitHolds
  BY DEF LimitInv, Within, LimitHolds
<1>. QED  BY <1>1, <1>2, <1>3, TypeInvariant, PTL DEF Spec

=============================================================================
