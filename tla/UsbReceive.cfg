\* Two lines, noise, a cable pulled twice and one fault.
SPECIFICATION ReceiveSpec
CONSTANTS
  Line <- HeaderAndBody
  MaxLines = 2
  FifoSize = 2
  Tolerated = 1
  MaxNoise = 2
  MaxPlug = 2
  MaxFault = 1
INVARIANTS OneConnection HandedWhole
PROPERTIES EventHandedOver BytesAreRead
CHECK_DEADLOCK FALSE
