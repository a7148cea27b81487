SPECIFICATION FairSpec
CONSTANTS
  web = web  lore = lore  oldPod = oldPod  newPod = newPod
  c1 = c1  c2 = c2  k1 = k1  k2 = k2
  Detector = Detector
  Nil = Nil
  Acknowledged = Acknowledged
  Services <- OneService
  Containers <- OnePod
  Checks <- OneCheck
  Acks <- NoAck
  MaxInitialBarks = 1
  MaxSilences = 2
  MaxFaults = 1
  MaxCrashes = 1
  SlowHandlers = FALSE
INVARIANTS RecordConsistent
PROPERTIES SilenceIsReported AnnouncedIsResolved
