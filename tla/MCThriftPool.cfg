CONSTANTS
  p1 = p1
  p2 = p2
  r1 = r1
  c1 = c1
  c2 = c2
  c3 = c3
  NoConn = NoConn
  Callers <- TwoCallers
  Releasers <- OneReleaser
  Conns <- ThreeConns
  MaxConn = 1
  IdleTimeout = 2
SPECIFICATION FairSpec
INVARIANT SingleOwner
INVARIANT CountExact
INVARIANT IdleWithinMax
INVARIANT BoundedByCallers
PROPERTY IdleReaped
