SPECIFICATION FairSpec
CONSTANTS
  toy = toy
  ctl = ctl
  Client = {ctl}
  keepalive = {ctl}
  errorListener = {ctl}
  tcp = {ctl}
  misread = {}
  closers = {ctl}
  deviceType <- Types
  MaxSeq = 4
  MaxPings = 3
  MaxUid = 2
INVARIANTS
  DeviceTypeOK
  NeverStuck
  CalledOnce
PROPERTIES
  CalledForGood
  PingsKept
  ClosedForGood
  PingsEnd
CHECK_DEADLOCK FALSE
