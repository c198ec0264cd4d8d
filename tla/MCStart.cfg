CONSTANTS
  NB_PROCESSUS_MAX = 6
  IT_FREQ = 2
  Durees = {2, 3, 5}
SPECIFICATION SpecS
INVARIANTS
  CreationJamaisRefusee
  UneIncarnation
PROPERTIES
  ChacunSonTour
  PasDeFamine
  ToutSommeilFinit
