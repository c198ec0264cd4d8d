CONSTANTS
  Taille = 5
  Octets = {0, 1}
  PRINTF_BUFMAX = 2
  Ordinaires = {"a", "b"}
  MaxTexte = 5
  NbInts = 4
  Limites = {0, 1, 2, 3, 4, 5}
  NbLongs = 32
  Longueurs = {0, 2, 5}
  Precisions <- MCPrecisions
  Lettres = {"a", "b"}
  MaxFoin = 6
  MaxAiguille = 3
  Corps = {"a", "b"}
  Delimiteurs = {","}
  TailleZone = 4
  MaxAjout = 3
  PoidsFort = 16
  Alphabet = {"a", "b"}
  MaxChaine = 3
  Demandes <- MCDemandes
  NB_LIGNE_CAR = 4
  NB_COLONNE_CAR = 3
  LARGEUR_TAB = 2
  LARGEUR_HEURE = 2
  Caracteres = {"a"}
  MaxLignes = 4
SPECIFICATION MCSpec
INVARIANTS
  CopieExacte
  FluxIntact
  EcritureBornee
  LargeurRespectee
  RelectureExacte
  ChampRespecte
  AjoutBorne
  MotsExacts
  PremierePlace
  ResultatJuste
  DivisionEnCours
  CurseurBorne
  UneSeuleBarre
  TexteFidele
PROPERTY HorlogeIntacte
\* A call of the library ends.
CHECK_DEADLOCK FALSE
