\* Every line of up to six characters, four-digit addresses among them.
SPECIFICATION TextSpec
CONSTANTS
  Char = {"3", "6", ".", "A", " "}
  MaxLength = 6
INVARIANTS AddressAlone
