\* Two recipients, a text of three pieces, three torn replies.
SPECIFICATION FairSpec
CONSTANTS
  Recipients = 2
  Pieces = 3
  MaxTear = 3
INVARIANTS RepliesInStep SentMeansAccepted FailureIsSafe
PROPERTIES SessionEnds
CHECK_DEADLOCK FALSE
