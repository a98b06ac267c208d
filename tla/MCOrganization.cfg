SPECIFICATION Spec
CONSTANTS
  Users = {f, u1, u2}
  Founder = f
  Lower = {operator}
  Invitations = {i1, i2}
  Guests = {u1, u2}
  Calls = {c1, c2}
  TeamMembers = 2
  Configured = {u1}
  DefaultRole = operator
  NoRole = NoRole
  NoUser = NoUser
  NoInvitation = NoInvitation
SYMMETRY Symmetry
INVARIANTS OwnersAreNamed LimitHolds RemovedStaysOut
PROPERTIES RanksFallByRight ServesMembership
CHECK_DEADLOCK FALSE
