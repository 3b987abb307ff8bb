SPECIFICATION FairSpec
CONSTANTS
  program = program
  Client <- MCClient
  Listener <- MCListener
  Peer <- MCPeer
  Slow <- MCPeer
  Nobody = Nobody
  BackoffMin = 1
  BackoffMax = 2
CHECK_DEADLOCK FALSE
INVARIANTS
  SwitchIsClean
  StoppedListenerHoldsNoOne
PROPERTY
  ReplacedEnds
