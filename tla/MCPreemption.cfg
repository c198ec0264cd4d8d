CONSTANTS
  NB_PROCESSUS_MAX = 4
  Lances = 2
  IT_FREQ = 2
  Durees = {0, 1, 2}
  Preemptif = FALSE
  MaxInterruptions = 7
SPECIFICATION MCSpec
INVARIANTS
  ContextesFideles
  PilesBornees
  SommeilComplet
  HorlogeJuste
PROPERTY AppelsAtomiques
