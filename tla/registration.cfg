SPECIFICATION Spec
CONSTANTS
  onlyOneControllerPerChannel = FALSE
  onlyOneToyPerChannel = TRUE
  allowObservers = FALSE
  MaxInFlight = 2
PROPERTIES
  Again
  Learns
  Settles
  StaysSound
