CONSTANTS
  NB_LIGNE_CAR = 4
  NB_COLONNE_CAR = 4
  LARGEUR_TAB = 2
  LARGEUR_HEURE = 2
  Caracteres = {"a"}
  MaxLignes = 1
SPECIFICATION SpecT
INVARIANT CurseurVisible
