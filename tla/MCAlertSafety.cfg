SPECIFICATION Spec
CONSTANTS
  web = web  lore = lore  oldPod = oldPod  newPod = newPod
  c1 = c1  c2 = c2  k1 = k1  k2 = k2
  Detector = Detector
  Nil = Nil
  Acknowledged = Acknowledged
  Services <- OneService
  Containers <- TwoPods
  Checks <- OneCheck
  Acks <- TwoAcks
  MaxInitialBarks = 1
  MaxSilences = 2
  MaxFaults = 0
  MaxCrashes = 0
  SlowHandlers = TRUE
INVARIANTS ResolvedMeansGone
PROPERTIES ImplementsBoard
SYMMETRY Symmetric
