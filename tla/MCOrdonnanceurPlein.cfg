CONSTANTS
  NB_PROCESSUS_MAX = 3
  IT_FREQ = 2
  Durees = {1}
  MaxInterruptions = 4
SPECIFICATION MCSpec
INVARIANT CaseMorteReutilisable
