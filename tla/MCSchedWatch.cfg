SPECIFICATION FairSpec
CONSTANTS
  seti = seti  vox = vox  q1 = q1  q2 = q2  w1 = w1  w2 = w2
  Nil = Nil
  Names <- OnlySeti
  Self = seti
  Tags <- OneTag
  Requests <- TwoRequests
  Schedules <- FourSchedules
  Default <- Quarterly
  Slots <- TwoSlots
  MaxCalls = 2
  MaxFaults = 1
  MaxRestarts = 1
INVARIANTS EveryAppHasAccount
PROPERTIES ActiveIsWatched InactiveIsReleased
