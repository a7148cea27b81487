SPECIFICATION FairSpec
CONSTANTS
  vox = vox  n1 = n1  n2 = n2  seti = seti  loop = loop  h1 = h1  h2 = h2
  Nil = Nil
  Tags <- OneTag
  Names <- OneName
  Self = seti
  DiskNames <- None
  Loop = loop
  Ingests <- OneIngest
  MaxEdits = 2
  MaxCommits = 1
  MaxRotations = 1
  MaxFaults = 1

INVARIANTS UpsertsAreUnique
PROPERTIES PlotsCatchUp KeysCatchUp
