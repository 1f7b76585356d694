\* Two mails of one text; reboots and lock timeouts, a card without faults.
SPECIFICATION FairSpec
CONSTANTS
  a = a  b = b  c = c  x = x  y = y
  Id = {a, b}
  Hash = {x}
  HashOf <- SameText
  MaxRetry = 2
  RetryMod = 256
  MaxMishap = 2
  Faults = {"lock"}
  NoFile = NoFile  Corrupt = Corrupt  NoId = NoId  New = New  Gone = Gone
INVARIANTS PendingBacked ClaimBeforeSend
PROPERTIES Implements EveryMailLeavesQueue
