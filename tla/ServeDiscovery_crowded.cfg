SPECIFICATION Spec
CONSTANTS
  s1 = s1
  s2 = s2
  alpha = alpha
  beta = beta
  a1 = a1
  a2 = a2
  None = None
  NoName = NoName
  Services = {s1, s2}
  Names = {alpha, beta}
  Addrs = {a1, a2}
  MaxServers = 1
  Worlds <- OnePeer
  Answering <- Anyone
  Changes <- Renames
  Faults = {"poll", "restart", "resolver"}
  Moves = {"announce", "withdraw", "answer", "stop"}
  Budgets <- OneOfEach
CHECK_DEADLOCK FALSE
INVARIANTS
  TablesBounded
