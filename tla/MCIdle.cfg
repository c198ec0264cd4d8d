CONSTANTS
  PERIODE = 2
  IT_FREQ = 2
  AMORCAGE = 1
  CMP_INITIAL = 0
  NB_LIGNE_CAR = 3
  NB_COLONNE_CAR = 2
  LONGUEUR_IDLE = 5
  LONGUEUR_PROC = 1
  LIGNES_MAX = 2
  MaxTemps = 9
SPECIFICATION MCSpec
INVARIANTS
  PremierTickPret
  HorlogeJamaisEnAvance
  AttenteBornee
  CurseurBorneEntrelace
  CurseurRetabli
  SerieFidele
  AppareilsPrets
