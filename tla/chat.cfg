SPECIFICATION FairSpec
CONSTANTS
  w1 = w1
  w2 = w2
  a = a
  NoConnection = NoConnection
  Pages <- TwoPages
  Messages <- OneMessage
  Presses <- TwoPressesAndOne
CHECK_DEADLOCK FALSE
INVARIANTS TypeOK DoubledByOverlap MissedHasCause
PROPERTIES SentIsShown
