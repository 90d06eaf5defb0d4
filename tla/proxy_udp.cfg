SPECIFICATION Spec
CONSTANTS
  a = a
  b = b
  toy1 = toy1
  toy2 = toy2
  ctl = ctl
  obs = obs
  sToy1 = sToy1
  sNat = sNat
  sToy2 = sToy2
  sCtl = sCtl
  sObs = sObs
  onlyOneControllerPerChannel = TRUE
  onlyOneToyPerChannel = TRUE
  allowObservers = FALSE
  Channel = {a, b}
  Key = {a, b}
  channelKey <- OwnKeys
  Device = {toy1, toy2, ctl, obs}
  Socket = {sToy1, sNat, sToy2, sCtl, sObs}
  peer <- Peers
  deviceType <- Types
  channel <- TwoChannels
  protocol <- AllUdp
  uses <- NoPings
  SeqNum = {1, 2}
  MaxUid = 3
  MaxDelayed = 2
INVARIANTS
  TypeOK
  OnlyOnePerChannel
  Provenance
  ChannelIsolation
  Addressed
PROPERTIES
  ForwardedInOrder
  RegisterAnswered
  KeepsPromise
