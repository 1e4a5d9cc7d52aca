CONSTANTS
  a1 = a1
  a2 = a2
  s1 = s1
  s2 = s2
  s3 = s3
  None = None
  Addrs <- TwoAddrs
  SubConns <- ThreeSubConns
  Width = 16
  MaxReports = 1
SPECIFICATION BalancerFairSpec
INVARIANT RecorderExact
INVARIANT PickerCurrent
INVARIANT MapsAgree
INVARIANT NotStranded
PROPERTY Converges
