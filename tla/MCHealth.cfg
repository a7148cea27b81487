SPECIFICATION FairSpec
CONSTANTS
  h1 = h1  h2 = h2  AugurCanis = AugurCanis  Free = Free
  Probes <- OneCheck
  Goroutines <- OneGoroutines
  Clients <- OneClients
  Owner <- OneOwner
  MaxFaults = 1
  MaxCrashes = 1
INVARIANTS OwnReply ExitIsFounded
 
CHECK_DEADLOCK FALSE
