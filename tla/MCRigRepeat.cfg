SPECIFICATION RigSpec
CONSTANTS
  f1 = f1
  f2 = f2
  Flusher = {f1, f2}
  Spots <- MCSpots
  Truncated <- MCTruncated
  DialSettings <- MCDial
  MaxEvents = 3
  PatientClose = TRUE
CHECK_DEADLOCK FALSE
INVARIANT
  ClickTunesRig
