SPECIFICATION FairSpec
CONSTANTS
  Names = {n1, n2}
  Drives = {d1, d2}
  d1 = d1
  d2 = d2
  Paths = {p1, p2}
  p1 = p1
  p2 = p2
  Users = {root, u1}
  Root = root
  None = None
  MaxShares = 2
  Roles = {"server", "client"}
  Worlds <- Plugged
  Budgets <- Trouble
INVARIANT SurfacesAgree
PROPERTIES AnswersAreTrue DrivesAreFollowed
