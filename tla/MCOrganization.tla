----------------------------- MODULE MCOrganization -----------------------------
(* Instance of Organization for TLC: the requests, the invitations, the         *)
(* configured owners and the other users are each interchangeable.              *)
EXTENDS Organization, TLC

Symmetry ==
  Permutations(Configured \ {Founder}) \cup Permutations(Users \ (Configured \cup {Founder}))
  \cup Permutations(Calls) \cup Permutations(Invitations)
=============================================================================
