SPECIFICATION FairSpec
CONSTANTS
  run1 = run1   ac1 = ac1  web = web
  Nil = Nil
  suite1 = suite1
  Runs <- OneRun
  Suites <- OneSuite
  OwnTests = 2
  Contracts <- Files
  Instances <- OneInstance
  Jobs <- OneJob
  MaxTests = 2
  SlowRuns = {}
  MaxFaults = 1
  MaxCrashes = 1
  MaxRestarts = 1
INVARIANTS NoFalseTimeout PassedIsEarned
PROPERTIES ImplementsLedger RunEnds RunIsStored
CHECK_DEADLOCK FALSE
