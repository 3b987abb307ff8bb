SPECIFICATION FairSpec
CONSTANTS
  NoEvent = "noevent"
  Event = "image"
  BackoffMin = 1
  BackoffMax = 5
  MaxLines = 5
  MaxWire = 3
CHECK_DEADLOCK FALSE
INVARIANTS
  PublishedIsMeant
PROPERTIES
  StopsWhenCancelled
  KeepsTrying
