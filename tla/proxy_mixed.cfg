SPECIFICATION Spec
CONSTANTS
  a = a
  b = b
  toy1 = toy1
  toy2 = toy2
  ctl = ctl
  obs = obs
  sToy1 = sToy1
  sNat = sNat
  sToy2 = sToy2
  sCtl = sCtl
  sObs = sObs
  onlyOneControllerPerChannel = TRUE
  onlyOneToyPerChannel = TRUE
  allowObservers = TRUE
  Channel = {a}
  Key = {a}
  channelKey <- OwnKeys
  Device = {toy1, toy2, ctl, obs}
  Socket = {sToy1, sToy2, sCtl, sObs}
  peer <- Peers
  deviceType <- Types
  channel <- OneChannel
  protocol <- MixedProtocols
  uses <- RegisterThenAny
  SeqNum = {1, 2}
  MaxUid = 3
  MaxDelayed = 2
INVARIANTS
  NoGhosts
  ConnectedIsRegistered
PROPERTIES StatusReachesAll
