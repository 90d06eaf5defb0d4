SPECIFICATION Spec
CONSTANTS
  toy = toy
  ctl = ctl
  Client = {toy}
  keepalive = {toy}
  errorListener = {}
  tcp = {}
  misread = {}
  closers = {}
  deviceType <- Types
  MaxSeq = 3
  MaxPings = 1
  MaxUid = 1
INVARIANTS NeverStuck
