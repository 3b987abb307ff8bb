SPECIFICATION WebSpec
CONSTANTS
  r1 = r1
  r2 = r2
  r3 = r3
  a1 = a1
  a2 = a2
  Req = {r1, r2, r3}
  Ip = {a1, a2}
  MaxConns = 2
  MaxPerIp = 1
  w1 = w1
  w2 = w2
  Walker = {w1}
  Rival = {w2}
  Queries <- MCQueries
  Kinds <- MCKinds
  FirstRows <- MCFirstRows
  Hour = 1
  MaxWindow = 2
  MaxLimit = 2
  MaxOffset = 3
  MaxSeries = 1
  Start = 24
  MaxLate = 1
  Retention = 2
  MaxSlots = 1
  MaxRows = 5
  MaxNow = 25
CHECK_DEADLOCK FALSE
INVARIANTS
  CountsExact
  OvershootBounded
  SlotsExact
  WalkIsExact
  SeriesAddUp
PROPERTY
  RequestsEnd
