SPECIFICATION Spec
CONSTANTS
  left = left  right = right  ann = ann  bob = bob
  Nil = Nil
  Browsers <- OneBrowser
  Persons <- OnePerson
  Who <- OneWho
  TTL = 0
  PendingTTL = 0
  MinRefresh = 1
  MaxTime = 1
  MaxRequests = 3
  MaxFaults = 1
  MaxKeys = 2
  MaxResets = 1
INVARIANTS RevokedIsOut DeletedIsGone SessionIsKept LoggedOutForAReason
PROPERTIES PublishedKeyIsKnown
CHECK_DEADLOCK FALSE
