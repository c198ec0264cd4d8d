\* A call ends.
CONSTANTS
  Alphabet = {"a"}
  MaxChaine = 3
  Demandes = {0, 1, 2, 4}
SPECIFICATION SpecF
INVARIANT ChampDocumente
CHECK_DEADLOCK FALSE
