SPECIFICATION Spec
CONSTANTS
  a = a
  b = b
  toy1 = toy1
  toy2 = toy2
  ctl = ctl
  obs = obs
  sToy1 = sToy1
  sNat = sNat
  sToy2 = sToy2
  sCtl = sCtl
  sObs = sObs
  onlyOneControllerPerChannel = TRUE
  onlyOneToyPerChannel = TRUE
  allowObservers = FALSE
  Channel = {a, b}
  Key = {a, b}
  channelKey <- OwnKeys
  Device = {toy1, ctl}
  Socket = {sToy1, sCtl}
  peer <- Peers
  deviceType <- Types
  channel <- TwoChannels
  protocol <- AllUdp
  uses <- RegisterThenSend
  SeqNum = {1, 2, 3}
  MaxUid = 2
  MaxDelayed = 1
PROPERTIES StickyIsCurrent
