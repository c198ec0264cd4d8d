CONSTANTS
  NB_PROCESSUS_MAX = 4
  IT_FREQ = 2
  Durees = {0, 1, 2}
  MaxInterruptions = 9
SPECIFICATION MCSpec
INVARIANTS
  TypeOK
  UnSeulElu
  SectionMasquee
  ReveilRespecte
  RetardDUnTickAuPlus
  HorlogeExacte
PROPERTIES
  SommeilIntact
  TourniquetSpec
