SPECIFICATION Spec
CONSTANTS
  q1 = q1
  q2 = q2
  m1 = m1
  m2 = m2
  lower = lower
  mixed = mixed
  g1 = g1
  g2 = g2
  Local = Local
  NoUser = NoUser
  NoCall = NoCall
  Lower = lower
  Requests <- TwoRequests
  Mailboxes <- TwoMailboxes
  Spellings <- TwoSpellings
  Identities <- TwoIdentities
CHECK_DEADLOCK FALSE
PROPERTIES RenameRefusedOnlyForOthers
