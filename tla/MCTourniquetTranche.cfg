CONSTANTS
  NB_PROCESSUS_MAX = 3
  IT_FREQ = 2
  Durees = {1}
SPECIFICATION TimerSpec
PROPERTY TrancheDeTemps
