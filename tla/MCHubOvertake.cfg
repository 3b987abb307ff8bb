SPECIFICATION Spec
CONSTANTS
  k1 = k1
  s1 = s1
  Key = {k1}
  Stream = {"dxcluster"}
  Sub = {s1}
  InCap = 1
  ReqCap = 1
  ChanCap = 1
  RingSize = 2
  Window = 2
  MaxTime = 1
  MaxLog = 1
CHECK_DEADLOCK FALSE
INVARIANT
  UnsubscribeRemoves
