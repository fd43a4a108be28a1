SPECIFICATION Spec
CONSTANTS
  s1 = s1
  s2 = s2
  alpha = alpha
  beta = beta
  a1 = a1
  a2 = a2
  None = None
  NoName = NoName
  Services = {s1, s2}
  Names = {alpha}
  Addrs = {a1, a2}
  MaxServers = 2
  Worlds <- OnTwoLinks
  Answering <- AlphaAnswers
  Changes <- TwoLinks
  Faults = {"browser", "client", "restart", "resolver", "fetch"}
  Moves = {"announce", "withdraw", "answer", "stop"}
  Budgets <- AsksOrFaults
CHECK_DEADLOCK FALSE
INVARIANTS
  MarkedWorkExists
  NobodyForgotten
  DismissedAddressStaysGone
