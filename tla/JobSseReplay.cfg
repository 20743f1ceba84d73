CONSTANTS
  c1 = c1
  c2 = c2
  Conns <- TwoConns
  MaxConns = 1
  MaxPending = 2
  NoRow = NoRow
  MaxVersions = 3
  MaxClock = 2
  MaxLosses = 1
  MissesFrom = 3
  MaxUnderWay = 1
SPECIFICATION Spec
PROPERTIES
  ReplayNeverBackwards
