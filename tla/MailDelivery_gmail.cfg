CONSTANTS
  Receivers = {r1, r2}
  Incoming = {m}
  Outgoing = {s}
  Keyed = {s}
  EventLimit = 2
SPECIFICATION Spec
INVARIANTS RemovedIsKept OneCopy SentIsKept
PROPERTIES DecisionsStick Delivered
