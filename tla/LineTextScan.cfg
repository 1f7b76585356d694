\* Every line of up to eight characters.
SPECIFICATION TextSpec
CONSTANTS
  Char = {"3", "6", ".", "A", " "}
  MaxLength = 8
INVARIANTS AddressFound
