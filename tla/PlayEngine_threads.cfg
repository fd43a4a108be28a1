SPECIFICATION Spec
CONSTANTS
  Last = 2
  Files <- Kinds
  Starts <- FromStart
  PacketLimit = 1
  FrameLimit = 1
  SoundLimit = 1
  Budgets <- Threads
INVARIANTS TypeOK OutputIsCurrent DeviceFollowsPause
PROPERTIES StatusSpec EndIsComplete NothingHangs FileEnds
CHECK_DEADLOCK FALSE
