SPECIFICATION Spec
CONSTANTS
  Sources = {"a", "b"}
  Options <- Runs
  Room = 3
  Commands = 5
  Faults = 1
INVARIANTS TypeOK EventsAlternate PlayingIsAnnounced CurrentIsOpen
PROPERTY ListEnds
CHECK_DEADLOCK FALSE
