SPECIFICATION Spec
CONSTANTS
  undefined = undefined
  null = null
  toy = toy
  ctl = ctl
  one = one
  zero = zero
  Client = {toy, ctl}
  role <- Roles
  params <- Params
  proxyParams <- ProxyParams
  Channel = {one}
  DefaultChannel = one
  FalsyChannel = {zero}
  program <- Programs
  text <- MixedTexts
  stickySeq = {3}
  MaxSeq = 3
  MaxUid = 2
  MaxDelayed = 2
  MaxUnread = 2
INVARIANTS
  UsesOwnUid
  AnswersSolicited
  OnlyTextRefused
  HeardWasSaid
  NewestHeard
  ToldOnlyOverUdp
