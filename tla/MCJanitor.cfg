SPECIFICATION Spec
CONSTANTS
  Indexes = {i1}
  Parts = {p1, p2}
  None = None
  MaxUUID = 2
  MaxChanges = 2
  MaxTroubles = 1
  MaxObjs = 8
INVARIANT  FeedsSendToOpen
PROPERTY JanitorHeals
