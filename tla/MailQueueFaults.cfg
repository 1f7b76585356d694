\* Two mails of one text on a card that fails in every way, with one mishap.
SPECIFICATION Spec
CONSTANTS
  a = a  b = b  c = c  x = x  y = y
  Id = {a, b}
  Hash = {x}
  HashOf <- SameText
  MaxRetry = 2
  RetryMod = 256
  MaxMishap = 1
  Faults = {"open", "short", "rename", "lock"}
  NoFile = NoFile  Corrupt = Corrupt  NoId = NoId  New = New  Gone = Gone
SYMMETRY SameTextSymmetry
INVARIANTS AcceptedNotLost NoSilentDuplicate AttemptsCounted
