\* init_proc may last longer than a period.  The run stops where the trap is
\* lost, so deadlock is not checked.
CONSTANTS
  PERIODE = 2
  IT_FREQ = 2
  AMORCAGE = 1
  CMP_INITIAL = 0
SPECIFICATION SpecH
INVARIANT IdleDejaCree
CHECK_DEADLOCK FALSE
