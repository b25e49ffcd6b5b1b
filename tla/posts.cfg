SPECIFICATION FairSpec
CONSTANTS
  p1 = p1
  u1 = u1
  u2 = u2
  c1 = c1
  c2 = c2
  NoRow = NoRow
  NoCall = NoCall
  Fresh = Fresh
  Gone = Gone
  Requests <- ThreeRequests
  PostIds <- OnePost
  Users <- TwoUsers
  Contents <- TwoContents
CHECK_DEADLOCK FALSE
INVARIANTS TypeOK ReadsAreCommitted StaleIsExplained DeletedOnce
PROPERTIES ImplementsPostStore EventuallyConsistent
