SPECIFICATION FairSpec
CONSTANTS
  Seti = Seti  remote = remote  quick = quick  stuck = stuck
  Constellations <- OneConstellation
  Browsers <- TwoBrowsers
  Stuck <- StuckBrowser
  Room = 1
  MaxEvents = 2
  MaxFaults = 1
  MaxStarts = 2
PROPERTIES ImplementsLossyFeed ToldIsRead StuckBlocksNobody
CHECK_DEADLOCK FALSE
