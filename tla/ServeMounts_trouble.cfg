CONSTANTS
  s1 = s1
  Shares = {s1, s2}
  Servers = {peer}
  peer = peer
  ServerOf <- OnePeer
  Lan = {l1}
  Ts = {t1}
  Exports = {e1}
  FsIds = {f1}
  None = None
  Foreign = Foreign
  MaxMounts = 1
  Linux = TRUE
  Budgets <- Trouble
SPECIFICATION Spec
INVARIANTS AckedMountIsDurable DiskCurrent TableBounded
PROPERTIES SavesKeepRemembered BusyDetachedOnlyWhenDown OnlyManagedReleased NeverHidesFiles
