\* Every sequence of up to five lines and timeouts between them.
SPECIFICATION Spec
CONSTANTS
  Line <- AllLines
  MaxLines = 5
INVARIANTS LinesInOrder MailIsOneEvent SightingsInAlarm
CHECK_DEADLOCK FALSE
