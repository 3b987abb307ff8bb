SPECIFICATION FairSpec
CONSTANTS
  k1 = k1
  k2 = k2
  s1 = s1
  s2 = s2
  Key = {k1, k2}
  Stream = {"dxcluster"}
  Sub = {s1, s2}
  InCap = 2
  ReqCap = 2
  ChanCap = 2
  RingSize = 2
  Window = 2
  MaxTime = 3
  MaxLog = 4
CHECK_DEADLOCK FALSE
INVARIANTS
  NoRepeatInWindow
  FeedOrdered
PROPERTIES
  NoPanicIfPatient
  NoGapWhenFast
  FeedImplemented
  HubNeverStalls
