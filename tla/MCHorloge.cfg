\* The run stops where a trap comes before the table, so deadlock is not
\* checked.
CONSTANTS
  PERIODE = 3
  IT_FREQ = 2
  AMORCAGE = 2
  CMP_INITIAL = 0
SPECIFICATION SpecH
INVARIANT HorlogeATempsReel
CHECK_DEADLOCK FALSE
