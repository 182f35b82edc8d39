SPECIFICATION Spec
CONSTANTS
  any = any
  far = far
  typo = typo
  port = port
  name = name
  d1 = d1
  d2 = d2
  d3 = d3
  Hosts = {far, typo}
  Dotted = {far}
  AnyHost = any
  Ports = {port}
  Names <- TwoNames
  Fds = {d1, d2}
  TryCnts = {0, 2}
INVARIANT SendSleepsAtMostTryCnt
CHECK_DEADLOCK FALSE
