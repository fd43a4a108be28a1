CONSTANTS
  s1 = s1
  Shares = {s1}
  Servers = {peer}
  peer = peer
  ServerOf <- OnePeer
  Lan = {l1}
  Ts = {t1}
  Exports = {e1}
  FsIds = {f1}
  None = None
  Foreign = Foreign
  MaxMounts = 1
  Linux = TRUE
  Budgets <- Outage
SPECIFICATION FairSpec
PROPERTIES RememberedReconnects OfflineReleased LanRestored
