\* Two commands, one fault, mails and chip resets without end.
SPECIFICATION FairSpec
CONSTANTS
  KindOf <- PingReboot
  RingSize = 2
  MaxFault = 1
INVARIANTS SmtpUndisturbed CommandsInOrder StatusHonest
PROPERTIES SessionComesBack
