------------------------------- MODULE Membership -------------------------------
(***************************************************************************)
(* What the organization service promises: an owner from the beginning,    *)
(* everybody else in by an offer or at the door, with the rank that was    *)
(* offered to them or that the door gives, the owner's rank only as the    *)
(* door gives it, one change at a time, and nothing after the end.         *)
(***************************************************************************)
CONSTANTS People, Owner, Ranks, OwnerRank, Outside

VARIABLES
  standing, \* the organization has not been dissolved
  entry,    \* the rank the door gives to each, Outside where there is no door
  rank,     \* of everybody, Outside for those who are no members
  offers    \* who may still join, and with which rank

vars == <<standing, entry, rank, offers>>

Init ==
  /\ standing = TRUE
  /\ entry \in [People -> Ranks \cup {OwnerRank, Outside}]
  /\ rank = [u \in People |-> IF u = Owner THEN OwnerRank ELSE Outside]
  /\ offers = {}

\* An invitation, or somebody at the door.
Offer(u, r) ==
  /\ standing
  /\ r \in Ranks \/ r = entry[u]
  /\ offers' = offers \cup {<<u, r>>}
  /\ UNCHANGED <<standing, entry, rank>>

\* Offers are withdrawn, lapse or are taken up, without notice.
Fewer == offers' \subseteq offers

Withdraw == Fewer /\ UNCHANGED <<standing, entry, rank>>

Join(u, r) ==
  /\ standing /\ rank[u] = Outside /\ <<u, r>> \in offers
  /\ rank' = [rank EXCEPT ![u] = r]
  /\ Fewer
  /\ UNCHANGED <<standing, entry>>

\* At the door a member who has the owner's rank, or should have it, gets the rank
\* the door gives.
Align(u) ==
  /\ rank[u] # Outside /\ <<u, entry[u]>> \in offers
  /\ rank' = [rank EXCEPT ![u] = entry[u]]
  /\ Fewer
  /\ UNCHANGED <<standing, entry>>

\* The owner's rank is none that can be changed, unless the door gives it back.
Change(u, r) ==
  /\ rank[u] \in Ranks \/ (rank[u] = OwnerRank /\ entry[u] = OwnerRank)
  /\ rank' = [rank EXCEPT ![u] = r]
  /\ UNCHANGED <<standing, entry, offers>>

Dissolve ==
  /\ standing' = FALSE
  /\ rank' = [u \in People |-> Outside]
  /\ Fewer
  /\ UNCHANGED entry

Next ==
  \/ \E u \in People, r \in Ranks \cup {OwnerRank} : Offer(u, r) \/ Join(u, r)
  \/ \E u \in People, r \in Ranks \cup {Outside} : Change(u, r)
  \/ \E u \in People : Align(u)
  \/ Withdraw \/ Dissolve

Spec == Init /\ [][Next]_vars
=============================================================================
