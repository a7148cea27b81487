SPECIFICATION FairSpec
CONSTANTS
  r1 = r1
  before = before
  seti = seti
  remote = remote
  Runs <- OneRun
  Apps <- TwoApps
  Self = seti
  Plots <- LongPlots
  Earlier = before
  Written <- OneApp
  MaxEdits = 1
  MaxFaults = 1
INVARIANTS PlotPassIsEarned Accounted
PROPERTIES  FailureIsHandled
CHECK_DEADLOCK FALSE
