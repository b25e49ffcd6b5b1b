SPECIFICATION AuthorshipSpec
CONSTANTS
  q1 = q1
  q2 = q2
  q3 = q3
  m1 = m1
  m2 = m2
  lower = lower
  mixed = mixed
  g1 = g1
  g2 = g2
  p1 = p1
  Local = Local
  Content = Content
  Fresh = Fresh
  Gone = Gone
  PostIds <- OnePost
  NoUser = NoUser
  NoCall = NoCall
  Lower = lower
  Requests <- ThreeRequests
  Mailboxes <- TwoMailboxes
  Spellings <- TwoSpellings
  Identities <- TwoIdentities
CHECK_DEADLOCK FALSE
SYMMETRY AuthorshipSymmetry
INVARIANTS AuthorshipTypeOK OneAccountPerMailbox RegisteredStays TwinsByOverlap TokenSpeaksForItsAccount AccessFollowsAuthor
PROPERTIES AccountsKeepIdentity
