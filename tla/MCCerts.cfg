SPECIFICATION FairSpec
CONSTANTS
  web = web  ac = ac
  AugurCanis = ac
  Forge = Forge
  Nil = Nil
  Services <- OneJob
  MaxAttempts = 2
  MaxRotations = 1
  MaxFaults = 1
  MaxCrashes = 1
INVARIANTS RunningIsCoherent
PROPERTIES SecretsAreStable RotationCompletes Settles
CHECK_DEADLOCK FALSE
